--------------------------- MODULE DeadLetterPage ---------------------------
(***************************************************************************)
(* useDeadLetterOperations: what the operator's page shows while answers to *)
(* bootstrap, list, detail, payload and mutation requests arrive in any     *)
(* order, fail or are overtaken.  The generation of a request is only ever  *)
(* compared with the latest, so a request is latest or not.                 *)
(***************************************************************************)
EXTENDS Naturals, Sequences, FiniteSets

CONSTANTS
    PageFilters,   \* filters the operator sets; "first" is the one of the first source
    LetterKeys,    \* keys of dead letters
    MaxPages,      \* bound: pages of the list
    MaxInFlight    \* bound: requests in flight
ASSUME PageAssumption ==
    "first" \in PageFilters /\ "none" \notin LetterKeys /\ MaxPages \in Nat \ {0} /\ MaxInFlight \in Nat

VARIABLES
    page,       \* the refs of the composable
    inFlight,   \* requests that have not been answered
    asked,      \* the key the operator selected last
    undecided   \* an operation whose outcome the page was not told, or "none"
pageVars == <<page, inFlight, asked, undecided>>

PageInit ==
    /\ page = [bootstrap |-> FALSE, items |-> <<>>, selected |-> "none", payload |-> "none", filters |-> "first",
               applied |-> "first", cursorStack |-> <<1>>, nextCursor |-> 0, loading |-> FALSE,
               detailLoading |-> FALSE, payloadLoading |-> FALSE, mutationLoading |-> FALSE, pendingMutation |-> "none",
               listed |-> FALSE]
    /\ inFlight = {} /\ asked = "none" /\ undecided = "none"

PageTypeOK ==
    /\ page.selected \in LetterKeys \union {"none"} /\ page.payload \in LetterKeys \union {"none"}
    /\ page.pendingMutation \in LetterKeys \union {"none"} /\ page.applied \in PageFilters
    /\ Len(page.cursorStack) \in 1..MaxPages /\ page.nextCursor \in 0..MaxPages

Top(p) == p.cursorStack[Len(p.cursorStack)]
\* A request supersedes the earlier ones of its kind; clearSelection also those of
\* detail and payload.
Superseded(kinds) == {[r EXCEPT !.latest = @ /\ r.kind \notin kinds] : r \in inFlight}
Issue(kind, for, others) ==
    inFlight' = Superseded({kind} \union others) \union {[kind |-> kind, for |-> for, latest |-> TRUE, ends |-> FALSE]}
clearSelection(p) ==
    [p EXCEPT !.selected = "none", !.payload = "none", !.payloadLoading = FALSE, !.detailLoading = FALSE]
Blocked == page.mutationLoading \/ page.pendingMutation # "none"

\* loadPage, called with the page as its caller left it.
loadPage(p, others) ==
    /\ page' = [p EXCEPT !.loading = TRUE, !.listed = TRUE]
    /\ Issue("list", <<p.applied, Top(p)>>, others)

initialize ==
    /\ page' = [page EXCEPT !.loading = TRUE] /\ Issue("bootstrap", "sources", {}) /\ UNCHANGED <<asked, undecided>>
setFilter(f) ==
    /\ ~Blocked /\ page' = [page EXCEPT !.filters = f] /\ UNCHANGED <<inFlight, asked, undecided>>
search(f) ==
    /\ ~Blocked /\ f \in {page.filters, "first"}   \* reset searches with the first source
    /\ loadPage(clearSelection([page EXCEPT !.filters = f, !.applied = f, !.cursorStack = <<1>>]), {"detail", "payload"})
    /\ UNCHANGED <<asked, undecided>>
next ==
    /\ ~Blocked /\ page.nextCursor > 0 /\ Len(page.cursorStack) < MaxPages
    /\ loadPage(clearSelection([page EXCEPT !.cursorStack = Append(@, page.nextCursor)]), {"detail", "payload"})
    /\ UNCHANGED <<asked, undecided>>
back ==
    /\ ~Blocked /\ Len(page.cursorStack) > 1
    /\ loadPage(clearSelection([page EXCEPT !.cursorStack = SubSeq(@, 1, Len(@) - 1)]), {"detail", "payload"})
    /\ UNCHANGED <<asked, undecided>>
select(k) ==
    /\ ~page.mutationLoading /\ page.pendingMutation \in {"none", k}
    /\ page' = [page EXCEPT !.selected = IF page.pendingMutation = "none" THEN "none" ELSE @,
                            !.payload = "none", !.payloadLoading = FALSE, !.detailLoading = TRUE]
    /\ Issue("detail", k, {"payload"}) /\ asked' = k /\ UNCHANGED undecided
revealPayload ==
    /\ page.selected # "none" /\ page' = [page EXCEPT !.payload = "none", !.payloadLoading = TRUE]
    /\ Issue("payload", page.selected, {}) /\ UNCHANGED <<asked, undecided>>
\* mutate makes a new operation; retrySameOperation sends the pending one again.
submitMutation(k) ==
    /\ ~page.mutationLoading
    /\ IF page.pendingMutation = "none" THEN k = page.selected ELSE k = page.pendingMutation
    /\ page' = [page EXCEPT !.mutationLoading = TRUE] /\ Issue("mutation", k, {})
    /\ undecided' = k /\ UNCHANGED asked
abandonPendingOperation ==
    /\ page.pendingMutation # "none" /\ ~page.mutationLoading
    /\ page' = [page EXCEPT !.pendingMutation = "none"] /\ undecided' = "none" /\ UNCHANGED <<inFlight, asked>>

(***************************************************************************)
(* Answers.                                                                 *)
(***************************************************************************)
Answered(r) == inFlight' = inFlight \ {r}
bootstrapAnswered(r, ok) ==
    /\ r.kind = "bootstrap" /\ UNCHANGED <<asked, undecided>>
    /\ IF r.latest /\ ok
       THEN /\ page' = [page EXCEPT !.bootstrap = TRUE, !.filters = "first", !.applied = "first",
                                    !.loading = TRUE, !.listed = TRUE]
            /\ inFlight' = (Superseded({"list"}) \ {r}) \union
                              {[kind |-> "list", for |-> <<"first", Top(page)>>, latest |-> TRUE, ends |-> FALSE]}
       ELSE page' = [page EXCEPT !.loading = @ /\ (~r.latest \/ page.listed)] /\ Answered(r)
\* The keys on a page are any; a selected key that is not among them is cleared.
listAnswered(r, ok, more, gone) ==
    /\ r.kind = "list" /\ (more => r.for[2] < MaxPages) /\ UNCHANGED <<asked, undecided>>
    /\ LET before == [page EXCEPT !.mutationLoading = @ /\ ~r.ends]
           shown == [before EXCEPT !.items = r.for, !.nextCursor = IF more THEN r.for[2] + 1 ELSE 0, !.loading = FALSE] IN
       CASE ~r.latest -> page' = before /\ Answered(r)
         [] r.latest /\ ~ok -> page' = [before EXCEPT !.items = <<>>, !.loading = FALSE] /\ Answered(r)
         [] OTHER -> IF gone /\ page.selected # "none"
                     THEN page' = clearSelection(shown) /\ inFlight' = Superseded({"detail", "payload"}) \ {r}
                     ELSE page' = shown /\ Answered(r)
\* mutant: an overtaken detail is shown
detailAnsweredLate(r, ok) ==
    /\ r.kind = "detail" /\ Answered(r) /\ UNCHANGED <<asked, undecided>>
    /\ page' = [page EXCEPT !.selected = IF ok THEN r.for ELSE @, !.detailLoading = FALSE]
detailAnswered(r, ok) ==
    /\ r.kind = "detail" /\ Answered(r) /\ UNCHANGED <<asked, undecided>>
    /\ page' = IF r.latest THEN [page EXCEPT !.selected = IF ok THEN r.for ELSE @, !.detailLoading = FALSE] ELSE page
payloadAnswered(r, ok) ==
    /\ r.kind = "payload" /\ Answered(r) /\ UNCHANGED <<asked, undecided>>
    /\ page' = IF ~r.latest THEN page
               ELSE [page EXCEPT !.payload = IF ok /\ page.selected = r.for THEN r.for ELSE "none", !.payloadLoading = FALSE]
\* committed, refused with a definite code, or the outcome is unknown; a committed one
\* ends when the list it reloads does
mutationAnswered(r, outcome) ==
    /\ r.kind = "mutation" /\ UNCHANGED asked
    /\ undecided' = IF outcome = "unknown" THEN undecided ELSE "none"
    /\ LET settled == [page EXCEPT !.pendingMutation = IF outcome = "unknown" THEN r.for ELSE "none"] IN
       IF outcome = "committed"
       THEN /\ page' = [clearSelection(settled) EXCEPT !.loading = TRUE, !.listed = TRUE]
            /\ inFlight' = (Superseded({"list", "detail", "payload"}) \ {r}) \union
                              {[kind |-> "list", for |-> <<page.applied, Top(page)>>, latest |-> TRUE, ends |-> TRUE]}
       ELSE page' = [settled EXCEPT !.mutationLoading = FALSE] /\ Answered(r)

PageNext ==
    \/ /\ Cardinality(inFlight) < MaxInFlight
       /\ \/ initialize \/ next \/ back \/ revealPayload
          \/ \E f \in PageFilters : search(f)
          \/ \E k \in LetterKeys : select(k) \/ submitMutation(k)
    \/ abandonPendingOperation
    \/ \E f \in PageFilters : setFilter(f)
    \/ \E r \in inFlight, ok \in BOOLEAN :
        \/ bootstrapAnswered(r, ok) \/ detailAnswered(r, ok) \/ payloadAnswered(r, ok)
        \/ \E more, gone \in BOOLEAN : listAnswered(r, ok, more, gone)
    \/ \E r \in inFlight, outcome \in {"committed", "refused", "unknown"} : mutationAnswered(r, outcome)

PageSpec == PageInit /\ [][PageNext]_pageVars

\* Whatever order the answers arrive in, the page shows the key selected last with
\* its own payload and, when it is not loading, the page its filters and its cursor
\* name; and it holds on to every operation whose outcome it does not know, starting
\* no other one, until the operator abandons it.
PageIsCurrent ==
    /\ page.selected \in {asked, "none"} /\ page.payload \in {page.selected, "none"}
    /\ ~page.loading => page.items \in {<<>>, <<page.applied, Top(page)>>}
    /\ LET running == {r \in inFlight : r.kind = "mutation"} IN
       /\ page.mutationLoading = (running # {} \/ \E r \in inFlight : r.ends) /\ Cardinality(running) <= 1
       /\ page.pendingMutation \in {undecided, "none"} /\ \A r \in running : r.for = undecided
       /\ undecided # "none" => page.pendingMutation = undecided \/ running # {}
=============================================================================
