---------------------------- MODULE MessageStore ----------------------------
(***************************************************************************)
(* The rows of the reliability store, outbox and inbox alike:              *)
(* InMemoryReliabilityStore (packages/reliability/src/testing.ts) and      *)
(* DrizzleReliabilityStore (packages/reliability-drizzle/src).             *)
(*                                                                         *)
(* A row keeps its state, its attempts, the append that created it, and    *)
(* two facts about time: its lease is live, its deadline has passed.  The  *)
(* lease token is drawn from a fresh UUID by every claim; here it is the   *)
(* pair (append, attempts), which no two claims of a message share.        *)
(***************************************************************************)
EXTENDS Integers

Row == [state : {"absent", "pending", "processing", "delivered", "dead"},
        attempts : Nat, epoch : Nat, live : BOOLEAN, due : BOOLEAN]

AbsentRow == [state |-> "absent", attempts |-> 0, epoch |-> 0, live |-> FALSE, due |-> FALSE]

\* append: an append of a row that exists changes nothing (it is idempotent or
\* refused with OutboxMessageConflictError).
AppendedRow(epoch) ==
    [state |-> "pending", attempts |-> 0, epoch |-> epoch, live |-> FALSE, due |-> FALSE]

Terminal(row) == row.state \in {"delivered", "dead"}

\* mutant: rows of a dead owner are never taken over.
ClaimableIfPending(row) == row.state = "pending" /\ row.due

\* Both claims: a due pending row, or a processing row whose lease has expired.
Claimable(row) == \/ row.state = "pending" /\ row.due
                  \/ row.state = "processing" /\ ~row.live

TokenOf(row) == <<row.epoch, row.attempts>>

\* take
Taken(row) == [row EXCEPT !.state = "processing", !.attempts = @ + 1,
                          !.live = TRUE, !.due = FALSE]

\* mutant: a transition does not ask whose lease it is.
FencedByStateOnly(row, token) == row.state = "processing" /\ row.live

\* update, transition: only the live lease of the token.
Fenced(row, token) == row.state = "processing" /\ TokenOf(row) = token /\ row.live

\* delivered, retry, dead: how the caller settles its claim.
Settled(row, state) == [row EXCEPT !.state = state, !.live = FALSE, !.due = FALSE]

(***************************************************************************)
(* The inbox claim of the SQL store is an insert, a read and a conditional *)
(* update; what the read says.                                             *)
(***************************************************************************)

InboxRead(row) ==
    IF Terminal(row) THEN "duplicate"
    ELSE IF (row.state = "processing" /\ row.live) \/ (row.state = "pending" /\ ~row.due)
    THEN "busy" ELSE "claimable"
=============================================================================
