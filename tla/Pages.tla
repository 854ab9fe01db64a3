------------------------------- MODULE Pages --------------------------------
(***************************************************************************)
(* The paged lists of the platform.                                         *)
(*                                                                          *)
(* Walks over them while their rows change: the                             *)
(* dead letters of both adapters ("letters", by terminal time), recoverable *)
(* workflows ("workflows", by updatedAt, which every claim and commit       *)
(* moves), and the notifications of a recipient, newest first, in SQL       *)
(* ("records") and in memory ("memory").  Ids are numbers in the order of   *)
(* the < of strings; the memory store sorts them with localeCompare.        *)
(*                                                                          *)
(* The paginators of packages/http/src/pagination: what a page says about   *)
(* itself and which links it offers, for whatever the query asks.  The      *)
(* items of a page are the application's (external): the slice of the rows  *)
(* that the page and its size name.  A query value is <<n>>, or <<>> when   *)
(* it is absent or not a number.  Fractions, which parsePageParams lets     *)
(* through, are left out.                                                   *)
(***************************************************************************)
EXTENDS Integers, Sequences, FiniteSets

CONSTANTS
    Lists,      \* the lists explored
    RowIds,     \* ids of rows
    LocaleRank, \* the place of an id in the order of localeCompare
    PageLimits, \* page sizes
    MaxInstant, \* bound on times
    MaxChanges  \* bound: rows that arrive, leave or move
ASSUME KeysetAssumption ==
    /\ Lists \subseteq {"letters", "workflows", "records", "memory"}
    /\ RowIds \subseteq Nat /\ IsFiniteSet(RowIds)
    /\ LocaleRank \in [RowIds -> Nat] /\ \A i, j \in RowIds : LocaleRank[i] = LocaleRank[j] => i = j
    /\ PageLimits \subseteq Nat \ {0}
    /\ MaxInstant \in Nat \ {0} /\ MaxChanges \in Nat

VARIABLES
    list,
    listed,     \* the time of every row, 0 for none
    read,       \* notifications that are read; the walk asks for unread ones
    instant,    \* the clock
    walk,       \* the walk: its limit, cursor, and the rows it has returned, how often
    rowChanges
keysetVars == <<list, listed, read, instant, walk, rowChanges>>

NoWalk == [pc |-> "none"]
Notifies == list \in {"records", "memory"}

KeysetInit ==
    /\ list \in Lists /\ read = {} /\ instant = MaxInstant - 1 /\ walk = NoWalk /\ rowChanges = 0
    /\ listed \in [RowIds -> 0..MaxInstant - 1]

KeysetTypeOK ==
    /\ listed \in [RowIds -> 0..MaxInstant] /\ read \subseteq RowIds /\ instant \in 0..MaxInstant
    /\ walk.pc \in {"none", "walking", "done"}

\* ORDER BY, and the comparison with the cursor of the last row.
Precedes(i, j) ==
    CASE list = "memory" -> listed[i] > listed[j] \/ (listed[i] = listed[j] /\ LocaleRank[i] > LocaleRank[j])
      [] list = "records" -> listed[i] > listed[j] \/ (listed[i] = listed[j] /\ i > j)
      [] OTHER -> listed[i] < listed[j] \/ (listed[i] = listed[j] /\ i < j)
\* mutant: rows of the cursor's instant are passed over
afterCursorTimeOnly(i) ==
    \/ walk.cursor.time = 0
    \/ IF Notifies THEN listed[i] < walk.cursor.time ELSE listed[i] > walk.cursor.time
afterCursor(i) ==
    \/ walk.cursor.time = 0
    \/ IF Notifies THEN listed[i] < walk.cursor.time ELSE listed[i] > walk.cursor.time
    \/ /\ listed[i] = walk.cursor.time
       /\ IF Notifies THEN i < walk.cursor.id ELSE i > walk.cursor.id

matching == {i \in RowIds : /\ listed[i] > 0 /\ i \notin read
                            /\ list = "workflows" => listed[i] <= walk.updatedBefore
                            /\ afterCursor(i)}
\* LIMIT, applied after ORDER BY.
pageRows == {i \in matching : Cardinality({j \in matching : Precedes(j, i)}) < walk.limit}
LastOfPage == CHOOSE i \in pageRows : \A j \in pageRows : j = i \/ Precedes(j, i)
\* A row beyond the limit was selected too; the recovery query looks at a full page.
hasMore == IF list = "workflows" THEN Cardinality(pageRows) = walk.limit
           ELSE Cardinality(matching) > walk.limit

begin(limit) ==
    /\ walk = NoWalk
    /\ walk' = [pc |-> "walking", limit |-> limit, cursor |-> [time |-> 0, id |-> 0], updatedBefore |-> instant,
                seen |-> [i \in RowIds |-> 0], stayed |-> {i \in RowIds : listed[i] > 0 /\ i \notin read},
                tied |-> {i \in RowIds : \E j \in RowIds : i # j /\ listed[i] = listed[j]}]
    /\ UNCHANGED <<list, listed, read, instant, rowChanges>>
nextPage ==
    /\ walk.pc = "walking"
    /\ LET seen == [i \in RowIds |-> IF i \in pageRows THEN walk.seen[i] + 1 ELSE walk.seen[i]]
       IN walk' = IF hasMore THEN [walk EXCEPT !.seen = seen, !.cursor = [time |-> listed[LastOfPage], id |-> LastOfPage]]
                  ELSE [walk EXCEPT !.seen = seen, !.pc = "done"]
    /\ UNCHANGED <<list, listed, read, instant, rowChanges>>

\* Row i is now at time t: it no longer counts as one that stayed.
Moves(i, t) ==
    /\ rowChanges < MaxChanges /\ rowChanges' = rowChanges + 1
    /\ listed' = [listed EXCEPT ![i] = t]
    /\ walk' = IF walk = NoWalk THEN walk
               ELSE [walk EXCEPT !.stayed = @ \ {i}, !.tied = @ \union {j \in RowIds : j # i /\ listed[j] = t}]
    /\ UNCHANGED <<list, read, instant>>
\* A message or a job dies, a workflow starts: now.  A notification carries the
\* time at which it was composed.
arrive(i) == listed[i] = 0 /\ IF Notifies THEN \E t \in 1..instant : Moves(i, t) ELSE Moves(i, instant)
\* A letter is retried or discarded, a workflow ends.
leave(i) == ~Notifies /\ listed[i] > 0 /\ Moves(i, 0)
\* A workflow is claimed or commits.
claimOrCommit(i) == list = "workflows" /\ listed[i] > 0 /\ listed[i] < instant /\ Moves(i, instant)

Reads(i, reads) ==
    /\ Notifies /\ listed[i] > 0 /\ rowChanges < MaxChanges /\ rowChanges' = rowChanges + 1
    /\ read' = reads
    /\ walk' = IF walk = NoWalk THEN walk ELSE [walk EXCEPT !.stayed = @ \ {i}]
    /\ UNCHANGED <<list, listed, instant>>
markRead(i) == i \notin read /\ Reads(i, read \union {i})
markUnread(i) == i \in read /\ Reads(i, read \ {i})

instantPasses == instant < MaxInstant /\ instant' = instant + 1 /\ UNCHANGED <<list, listed, read, walk, rowChanges>>

KeysetNext ==
    \/ instantPasses \/ nextPage \/ \E limit \in PageLimits : begin(limit)
    \/ \E i \in RowIds : arrive(i) \/ leave(i) \/ claimOrCommit(i) \/ markRead(i) \/ markUnread(i)
KeysetSpec == KeysetInit /\ [][KeysetNext]_keysetVars

\* A walk returns every row that stays as it is exactly once, whatever arrives, leaves
\* or moves between its pages.  The memory store is excepted for notifications of one
\* instant, which it sorts with localeCompare and resumes with <.
WalksAreComplete ==
    walk # NoWalk => \A i \in walk.stayed :
        \/ walk.seen[i] = 1
        \/ walk.pc = "walking" /\ walk.seen[i] = 0
        \/ list = "memory" /\ i \in walk.tied
-----------------------------------------------------------------------------
\* The paginators.

Larger(a, b) == IF a > b THEN a ELSE b
Smaller(a, b) == IF a < b THEN a ELSE b
Quotient(a, b) == (a + b - 1) \div b

toFinitePositive(value, fallback) == IF value = <<>> THEN fallback ELSE Larger(value[1], 1)

\* parsePageParams, of a query and the options default and cap.
parsePageParams(query, options) ==
    [page |-> toFinitePositive(query.page, 1),
     perPage |-> Smaller(toFinitePositive(query.perPage, options.perPage), options.cap)]

\* parseCursorParams: an empty cursor, <<>>, is none.
parseCursorParams(query, options) ==
    [cursor |-> query.cursor, perPage |-> parsePageParams(query, options).perPage]

\* external: the rows a query with this page and size selects.
Slice(rows, page, perPage) ==
    SubSeq(rows, (page - 1) * perPage + 1, Smaller(page * perPage, Len(rows)))

PageBounds(items, page, perPage) ==
    IF items = <<>> THEN [from |-> <<>>, to |-> <<>>]
    ELSE [from |-> <<(page - 1) * perPage + 1>>, to |-> <<(page - 1) * perPage + Len(items)>>]

Previous(page) == IF page > 1 THEN page - 1 ELSE 0

\* LengthAwarePaginator; 0 is a link that is null.
LengthAwarePaginator(items, total, page, perPage) ==
    LET lastPage == Larger(Quotient(Larger(total, 0), perPage), 1) IN
    [lastPage |-> lastPage, bounds |-> PageBounds(items, page, perPage), first |-> 1, last |-> lastPage,
     prev |-> Previous(page), next |-> IF page < lastPage THEN page + 1 ELSE 0]

\* SimplePaginator
SimplePaginator(items, more, page, perPage) ==
    [bounds |-> PageBounds(items, page, perPage),
     prev |-> Previous(page), next |-> IF more THEN page + 1 ELSE 0]

\* encodeCursor and decodeCursor: the key with the direction, unambiguously.
encodeCursor(key, direction) == <<key, direction>>
decodeCursor(cursor) == [key |-> cursor[1], direction |-> cursor[2]]

\* CursorPaginator: links to the keys there are; the application finds the keys.
CursorPaginator(nextKey, prevKey) ==
    [next |-> IF nextKey = 0 THEN <<>> ELSE encodeCursor(nextKey, "next"),
     prev |-> IF prevKey = 0 THEN <<>> ELSE encodeCursor(prevKey, "prev")]

\* external: the page of a list of keys that a decoded cursor names.
CursorSlice(rows, cursor, perPage) ==
    IF cursor = <<>> THEN SubSeq(rows, 1, Smaller(perPage, Len(rows)))
    ELSE LET decoded == decodeCursor(cursor) IN
         IF decoded.direction = "next" THEN SubSeq(rows, decoded.key, Smaller(decoded.key + perPage - 1, Len(rows)))
         ELSE SubSeq(rows, Larger(1, decoded.key - perPage + 1), decoded.key)

\* The page a request gets: the constructors bound what parsePageParams returned again.
Page(rows, query, options) ==
    LET params == parsePageParams(query, options)
        perPage == Larger(params.perPage, 1)
    IN [page |-> Larger(params.page, 1), perPage |-> perPage, items |-> Slice(rows, Larger(params.page, 1), perPage)]

\* A link keeps the size (buildPageUrl), so that the next request asks for the same.
Linked(page, perPage) == [page |-> <<page>>, perPage |-> <<perPage>>, cursor |-> <<>>]

\* Following links: the items from a page on, by the links of either paginator.
ItemsFrom(rows, options, aware) ==
    LET follow[query \in {Linked(p, n) : p \in 1..(Len(rows) + 2), n \in 1..(Len(rows) + 2)}] ==
          LET page == Page(rows, query, options)
              more == page.page * page.perPage < Len(rows)
              links == IF aware THEN LengthAwarePaginator(page.items, Len(rows), page.page, page.perPage)
                       ELSE SimplePaginator(page.items, more, page.page, page.perPage)
          IN page.items \o (IF links.next = 0 THEN <<>> ELSE follow[Linked(links.next, page.perPage)])
    IN follow

\* The same by cursors: the items from a cursor on.
ItemsFromCursor(rows, options, asked) ==
    LET follow[cursor \in {<<>>} \cup {encodeCursor(key, "next") : key \in 1..Len(rows)}] ==
          LET params == parseCursorParams([page |-> <<>>, perPage |-> asked, cursor |-> cursor], options)
              items == CursorSlice(rows, params.cursor, Larger(params.perPage, 1))
              final == items = <<>> \/ items[Len(items)] = Len(rows)
              links == CursorPaginator(IF final THEN 0 ELSE items[Len(items)] + 1, IF items = <<>> THEN 0 ELSE items[1] - 1)
          IN items \o (IF links.next = <<>> THEN <<>> ELSE follow[links.next])
    IN follow[<<>>]

\* What the links promise (toLinks, toMeta, parsePageParams): from the first page on they
\* lead through every item once, with each of the paginators and whatever size was asked for; the
\* last page exists and is the last with items; previous undoes next; the bounds count the
\* items; the size respects a cap of at least one.
PaginationIsSound(sizes, caps, queried) ==
    \A size \in sizes, cap \in caps, asked \in {<<>>} \cup {<<n>> : n \in queried} :
       LET rows == [i \in 1..size |-> i]
           options == [perPage |-> 2, cap |-> cap]
           start == Page(rows, [page |-> <<>>, perPage |-> asked], options)
       IN /\ start.page = 1 /\ start.perPage >= 1 /\ (cap >= 1 => start.perPage <= cap)
          /\ ItemsFromCursor(rows, options, asked) = rows
          /\ \A aware \in BOOLEAN :
                start.perPage <= size + 2 =>
                   ItemsFrom(rows, [options EXCEPT !.cap = Larger(cap, 1)], aware)[Linked(1, start.perPage)] = rows
          /\ \A p \in 1..(size + 2) :
                LET page == Page(rows, Linked(p, start.perPage), [options EXCEPT !.cap = Larger(cap, 1)])
                    links == LengthAwarePaginator(page.items, size, page.page, page.perPage)
                IN /\ page.items # <<>> => /\ links.bounds.to[1] - links.bounds.from[1] + 1 = Len(page.items)
                                           /\ page.items[1] = links.bounds.from[1]
                                           /\ page.page <= links.lastPage
                   /\ page.page = links.lastPage /\ size > 0 => page.items # <<>>
                   /\ links.next # 0 => Previous(links.next) = page.page
=============================================================================
