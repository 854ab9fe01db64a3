----------------------------- MODULE JsonGuards -----------------------------
(***************************************************************************)
(* The guards that decide whether a value is JSON: assertJson of the       *)
(* reliability package and of the notification packages, an explicit stack *)
(* with exit markers and limits; and the recursive ones of the workflows,  *)
(* the schedules, the broadcasts, the idempotency responses, the cache and *)
(* the queue, which carry the set of ancestors; and the sanitizer of the   *)
(* audit records, which carries none and redacts what a denied key holds.  *)
(*                                                                         *)
(* A value is a heap: heap[n] is an object or a leaf, kids are the nodes   *)
(* an object refers to, and node 1 is the root.  Two kids may be the same  *)
(* node (a shared value, which JSON repeats) and a kid may be an ancestor  *)
(* (a cycle, which JSON cannot write).  A leaf and a key weigh one byte.   *)
(***************************************************************************)
EXTENDS Integers, Sequences, SequencesExt, FiniteSetsExt

Leaf(n, heap) == heap[n].kind \in {"string", "number"}

\* An object of a prototype that is not Object.prototype, or with a key that the guard reserves.
Foreign(n, heap, limits) == heap[n].kind = "foreign" \/ (limits.reserved /\ heap[n].kind = "reserved")

(***************************************************************************)
(* The stack                                                               *)
(***************************************************************************)
Value(n, depth) == [node |-> n, depth |-> depth, exit |-> FALSE]
Exit(n, depth) == [node |-> n, depth |-> depth, exit |-> TRUE]
Rejected(s) == [s EXCEPT !.verdict = "refused"]

\* A leaf: its bytes count, and a string checks the total.
readLeaf(heap, limits, s, n) ==
    LET weight == IF heap[n].kind = "string" THEN 1 ELSE limits.number
        bytes == s.bytes + weight
    IN IF heap[n].kind = "string" /\ bytes > limits.bytes THEN Rejected(s) ELSE [s EXCEPT !.bytes = bytes]

\* An object: it must not be open, and its exit marker goes under its kids.
enter(heap, limits, s, n, depth) ==
    LET kids == heap[n].kids
        bytes == s.bytes + Len(kids)
    IN IF n \in s.seen \/ Foreign(n, heap, limits) \/ Len(kids) > limits.keys \/ bytes > limits.bytes
       THEN Rejected(s)
       ELSE [s EXCEPT !.seen = @ \cup {n}, !.bytes = bytes,
                      !.stack = @ \o <<Exit(n, depth)>> \o [i \in 1..Len(kids) |-> Value(kids[i], depth + 1)]]

\* One turn of the loop.
turn(heap, limits, s) ==
    IF s.verdict # "none" THEN s
    ELSE IF s.stack = <<>> THEN [s EXCEPT !.verdict = "accepted"]
    ELSE LET top == Last(s.stack)
             popped == [s EXCEPT !.stack = Front(@)]
             counted == [popped EXCEPT !.nodes = @ + 1]
         IN IF top.exit THEN [popped EXCEPT !.seen = @ \ {top.node}]
            ELSE IF counted.nodes > limits.nodes \/ top.depth > limits.depth THEN Rejected(s)
            ELSE IF Leaf(top.node, heap) THEN readLeaf(heap, limits, counted, top.node)
            ELSE enter(heap, limits, counted, top.node, top.depth)

\* The loop ends within two turns of a node that the limit admits, and a last one.
loop(heap, limits) ==
    LET s[k \in 0..(2 * limits.nodes + 3)] ==
            IF k = 0 THEN [stack |-> <<Value(1, 0)>>, seen |-> {}, nodes |-> 0, bytes |-> 0, verdict |-> "none"]
            ELSE turn(heap, limits, s[k - 1])
    IN s[2 * limits.nodes + 3].verdict = "accepted"

\* The copies differ in what a number weighs, in whether keys are reserved and in their limits.
envelopeJson(heap, limits) == loop(heap, [limits EXCEPT !.number = 16, !.reserved = FALSE])
queuedJson(heap, limits) == loop(heap, [limits EXCEPT !.number = 0, !.reserved = TRUE])
recordJson(heap, limits) == loop(heap, [limits EXCEPT !.number = 0, !.reserved = TRUE])

\* The webhook guard ends with the size of the encoded text, where numbers weigh too.
NodePaths(heap) == {p \in UNION {[1..k -> 1..2] : k \in 0..Len(heap)} :
                  FoldLeft(LAMBDA n, i : IF n # 0 /\ i <= Len(heap[n].kids) THEN heap[n].kids[i] ELSE 0, 1, p) # 0}
NodeAt(heap, p) == FoldLeft(LAMBDA n, i : heap[n].kids[i], 1, p)
\* The size of the text, without punctuation.
Size(heap, number) ==
    LET Weight(n) == CASE heap[n].kind = "string" -> 1 [] heap[n].kind = "number" -> number
                       [] OTHER -> Len(heap[n].kids)
    IN MapThenSumSet(LAMBDA p : Weight(NodeAt(heap, p)), NodePaths(heap))
webhookJson(heap, limits) ==
    /\ loop(heap, [limits EXCEPT !.number = 0, !.reserved = TRUE])
    /\ Size(heap, 1) <= limits.bytes

(***************************************************************************)
(* The recursive guards                                                    *)
(***************************************************************************)

\* visit(n, ancestors, depth): n is refused below itself, and left when it has been read.
visits(heap, limits) ==
    LET visit[n \in 1..Len(heap), ancestors \in SUBSET (1..Len(heap)), depth \in 0..(Len(heap) + 1)] ==
            /\ depth <= limits.depth
            /\ \/ Leaf(n, heap)
               \/ /\ ~Foreign(n, heap, limits) /\ n \notin ancestors
                  /\ \A i \in DOMAIN heap[n].kids : visit[heap[n].kids[i], ancestors \cup {n}, depth + 1]
    IN visit[1, {}, 0]

Boundless(heap, limits) == [limits EXCEPT !.depth = Len(heap) + 1, !.reserved = FALSE]
workflowJson(heap, limits) == visits(heap, Boundless(heap, limits))
scheduleJson(heap, limits) == ~Leaf(1, heap) /\ visits(heap, Boundless(heap, limits))
responseJson(heap, limits) == visits(heap, Boundless(heap, limits))
storedJson(heap, limits) == visits(heap, Boundless(heap, limits))
broadcastJson(heap, limits) ==
    /\ ~Leaf(1, heap)
    /\ visits(heap, [limits EXCEPT !.reserved = FALSE])
    /\ Size(heap, 1) <= limits.bytes

\* The cache counts the nodes it visits, however deep they are; the text is measured afterwards.
cacheJson(heap, limits) ==
    LET visit[n \in 1..Len(heap), ancestors \in SUBSET (1..Len(heap)), depth \in Nat, before \in Nat] ==
            LET nodes == before + 1
                item(count, kid) ==
                    IF count > limits.nodes THEN count ELSE visit[kid, ancestors \cup {n}, depth + 1, count]
            IN IF depth > limits.depth THEN limits.nodes + 1
               ELSE IF nodes > limits.nodes \/ Leaf(n, heap) THEN nodes
               ELSE IF n \in ancestors \/ Foreign(n, heap, limits) THEN limits.nodes + 1
               ELSE FoldLeft(item, nodes, heap[n].kids)
    IN visit[1, {}, 0, 0] <= limits.nodes /\ Size(heap, 1) <= limits.bytes

\* The queue writes the payload while it reads it.  A comma, a colon and a brace weigh one
\* byte too, and an object is given up before its kids are read when its keys alone, with
\* one byte per value, are too many.
Failed == [nodes |-> 0, bytes |-> 0, ok |-> FALSE]
appendCanonical(s, bytes, limits) ==
    IF s.ok /\ s.bytes + bytes <= limits.bytes THEN [s EXCEPT !.bytes = @ + bytes] ELSE Failed
Braced(keys, value) == IF keys = 0 THEN 2 ELSE 1 + keys * (3 + value)
payloadJson(heap, limits) ==
    LET write[n \in 1..Len(heap), stack \in SUBSET (1..Len(heap)), depth \in Nat, nodes \in Nat, bytes \in Nat] ==
            LET s == [nodes |-> nodes + 1, bytes |-> bytes, ok |-> TRUE]
                kids == heap[n].kids
                member(t, i) ==
                    LET u == appendCanonical(t, IF i > 1 THEN 3 ELSE 2, limits)
                    IN IF u.ok THEN write[kids[i], stack \cup {n}, depth + 1, u.nodes, u.bytes] ELSE u
            IN IF depth > limits.depth \/ s.nodes > limits.nodes THEN Failed
               ELSE IF Leaf(n, heap) THEN appendCanonical(s, 1, limits)
               ELSE IF \/ n \in stack \/ Foreign(n, heap, limits)
                       \/ Len(kids) > limits.keys \/ Len(kids) > limits.nodes - s.nodes
                       \/ s.bytes + Braced(Len(kids), 1) > limits.bytes THEN Failed
               ELSE appendCanonical(FoldLeft(member, appendCanonical(s, 1, limits), [i \in 1..Len(kids) |-> i]), 1, limits)
    IN ~Leaf(1, heap) /\ write[1, {}, 0, 0, 0].ok

\* The sanitizer of the audit records: no ancestors, one budget of nodes and of keys for the
\* whole record, and the value of a denied key is replaced unread.  denied are the positions
\* of the denied keys in an object; of the changes, the keys of the root have been redacted.
sanitizer(heap, limits, denied, preserveRootKeys) ==
    LET visit[n \in 1..Len(heap), depth \in Nat, redact \in BOOLEAN, nodes \in Nat, keys \in Nat, bytes \in Nat] ==
            LET s == [nodes |-> nodes + 1, keys |-> keys, bytes |-> bytes, text |-> 1, ok |-> TRUE]
                none == [s EXCEPT !.ok = FALSE]
                child(t, i) ==
                    LET hidden == i \in denied /\ ~(depth = 0 /\ preserveRootKeys)
                        u == visit[heap[n].kids[i], depth + 1, hidden, t.nodes, t.keys + 1, t.bytes]
                    IN IF ~t.ok \/ t.keys + 1 > limits.keys THEN none ELSE [u EXCEPT !.text = @ + t.text + 1]
            IN IF depth > limits.depth \/ s.nodes > limits.nodes THEN none
               ELSE IF redact THEN s
               ELSE IF Leaf(n, heap) THEN IF bytes + 1 > limits.bytes THEN none ELSE [s EXCEPT !.bytes = @ + 1]
               ELSE IF Foreign(n, heap, limits) THEN none
               ELSE FoldLeft(child, [s EXCEPT !.text = 0], [i \in DOMAIN heap[n].kids |-> i])
        result == visit[1, 0, FALSE, 0, 0, 0]
    IN result.ok /\ result.text <= limits.bytes

(***************************************************************************)
(* What a guard should decide                                              *)
(***************************************************************************)

\* A value without a cycle: no path is as long as there are nodes.
Acyclic(heap) == \A p \in NodePaths(heap) : Len(p) < Len(heap)
Clean(heap, limits) == \A p \in NodePaths(heap) : ~Foreign(NodeAt(heap, p), heap, limits)

CanonicalSize(heap) ==
    MapThenSumSet(LAMBDA p : LET n == NodeAt(heap, p) IN
                      IF Leaf(n, heap) THEN 1 ELSE Braced(Len(heap[n].kids), 0), NodePaths(heap))

\* The tree that JSON writes stays within the limits.
Within(heap, limits) ==
    /\ Cardinality(NodePaths(heap)) <= limits.nodes
    /\ \A p \in NodePaths(heap) : Len(p) <= limits.depth
    /\ \A p \in NodePaths(heap) : Len(heap[NodeAt(heap, p)].kids) <= limits.keys
IsJson(heap, limits) == Acyclic(heap) /\ Clean(heap, limits) /\ Within(heap, limits)

\* The part of a record that the sanitizer reads, and the text that it leaves.
Seen(heap, denied, kept) ==
    {p \in NodePaths(heap) : \A k \in 1..(Len(p) - 1) : p[k] \in denied => kept /\ k = 1}
Redacted(p, denied, kept) == p # <<>> /\ Last(p) \in denied /\ ~(kept /\ Len(p) = 1)
IsRecord(heap, limits, denied, kept) ==
    LET read == {p \in Seen(heap, denied, kept) : ~Redacted(p, denied, kept)}
        keys == MapThenSumSet(LAMBDA p : Len(heap[NodeAt(heap, p)].kids), read)
        values == Cardinality({p \in Seen(heap, denied, kept) : p \notin read \/ Leaf(NodeAt(heap, p), heap)})
    IN /\ \A p \in read : Len(p) < Len(heap) /\ ~Foreign(NodeAt(heap, p), heap, limits)
       /\ \A p \in Seen(heap, denied, kept) : Len(p) <= limits.depth
       /\ Cardinality(Seen(heap, denied, kept)) <= limits.nodes
       /\ keys <= limits.keys /\ keys + values <= limits.bytes

\* Every guard accepts exactly the trees within its limits: a value that is shared is read
\* as often as JSON repeats it and is no cycle (seen.delete and the exit markers), and a
\* cycle is refused however deep it is.  The stacks check bytes only where they add a
\* string or a key, so a number that is read last may take the total over the limit.
\* The sanitizer has no ancestors, and its depth alone keeps a cycle out; what it redacts it
\* does not read, whatever it is.
GuardsAreExact(Heaps, Limits) ==
    \A heap \in Heaps, limits \in Limits :
       LET tree == Acyclic(heap) /\ Clean(heap, [limits EXCEPT !.reserved = FALSE])
           strict == [limits EXCEPT !.reserved = TRUE]
       IN /\ queuedJson(heap, limits) <=> IsJson(heap, strict) /\ Size(heap, 0) <= limits.bytes
          /\ recordJson(heap, limits) <=> queuedJson(heap, limits)
          /\ webhookJson(heap, limits) <=> IsJson(heap, strict) /\ Size(heap, 1) <= limits.bytes
          /\ envelopeJson(heap, limits) => IsJson(heap, [limits EXCEPT !.reserved = FALSE]) /\ Size(heap, 0) <= limits.bytes
          /\ IsJson(heap, [limits EXCEPT !.reserved = FALSE]) /\ Size(heap, 16) <= limits.bytes => envelopeJson(heap, limits)
          /\ cacheJson(heap, limits) <=>
                IsJson(heap, [strict EXCEPT !.keys = 2]) /\ Size(heap, 1) <= limits.bytes
          /\ payloadJson(heap, [limits EXCEPT !.reserved = FALSE]) <=>
                /\ IsJson(heap, [limits EXCEPT !.reserved = FALSE])
                /\ ~Leaf(1, heap) /\ CanonicalSize(heap) <= limits.bytes
          /\ workflowJson(heap, limits) <=> tree
          /\ responseJson(heap, limits) <=> tree
          /\ storedJson(heap, limits) <=> tree
          /\ scheduleJson(heap, limits) <=> tree /\ ~Leaf(1, heap)
          /\ broadcastJson(heap, limits) <=>
                tree /\ ~Leaf(1, heap) /\ Size(heap, 1) <= limits.bytes /\ \A p \in NodePaths(heap) : Len(p) <= limits.depth
          /\ \A denied \in {{}, {2}}, kept \in BOOLEAN :
                LET record == [strict EXCEPT !.keys = 2 * @]
                IN sanitizer(heap, record, denied, kept) <=> IsRecord(heap, record, denied, kept)
=============================================================================
