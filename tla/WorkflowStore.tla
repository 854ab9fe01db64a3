---------------------------- MODULE WorkflowStore ----------------------------
(***************************************************************************)
(* What a workflow store does to the row of one workflow                   *)
(* (packages/workflows/src/store.ts, InMemoryWorkflowStore, and            *)
(* packages/workflows-drizzle/src/base.ts, DrizzleWorkflowStore), and the  *)
(* receipt checks the manager applies to what the store returns.           *)
(*                                                                         *)
(* Each operation is a conditional update of the row.  Time enters as one  *)
(* Boolean, live: whether the lease of the row expires after now.          *)
(***************************************************************************)
EXTENDS WorkflowSnapshot

TerminalForward == {"completed", "failed"}

\* mutant: an expired lease still blocks the row.
ClaimAllowedIfFree(row, live, expectedRevision) ==
    row.revision = expectedRevision /\ row.lease = NoLease

\* claim: the revision must be the observed one and no lease may be live.
ClaimAllowed(row, live, expectedRevision) ==
    /\ row.revision = expectedRevision
    /\ ~(row.lease # NoLease /\ live)

Claimed(row) == [row EXCEPT !.revision = @ + 1, !.lease = row.revision + 1]

\* The one revision another actor may add under a live lease: a cancellation.
CancellationRace(row, expectedRevision) ==
    row.revision = expectedRevision + 1 /\ row.cancellationRequested

RenewAllowed(row, live, expectedRevision, token) ==
    /\ row.lease = token /\ live
    /\ row.revision = expectedRevision \/ CancellationRace(row, expectedRevision)

\* The SQL store reads the row first (observed) and repeats in the WHERE clause
\* of its update that it still is the row.
Unmoved(row, observed) ==
    /\ row.revision = observed.revision
    /\ row.cancellationRequested = observed.cancellationRequested

DrizzleClaimAllowed(row, observed, live, expectedRevision) ==
    /\ row.revision = expectedRevision /\ Unmoved(row, observed)
    /\ row.lease = NoLease \/ ~live

DrizzleRenewAllowed(row, observed, live, expectedRevision, token) ==
    /\ row.lease = token /\ live /\ Unmoved(row, observed)
    /\ row.revision = expectedRevision \/ CancellationRace(row, expectedRevision)

\* mutant: a completed or failed candidate may absorb a cancellation.
CommitOutcomeMergesEnds(row, live, next, expectedRevision, token) ==
    IF row.lease # token \/ ~live THEN "lease"
    ELSE IF row.revision # expectedRevision /\ ~CancellationRace(row, expectedRevision)
    THEN "revision" ELSE "ok"

\* mutant: the token is not compared.
CommitOutcomeUnfenced(row, live, next, expectedRevision, token) ==
    IF \/ CancellationRace(row, expectedRevision) /\ next.state \in TerminalForward
       \/ row.revision < expectedRevision
    THEN "revision" ELSE "ok"

\* InMemoryWorkflowStore.commit
CommitOutcome(row, live, next, expectedRevision, token) ==
    CASE row.lease # token \/ ~live -> "lease"
      [] OTHER ->
           IF \/ CancellationRace(row, expectedRevision) /\ next.state \in TerminalForward
              \/ row.revision # expectedRevision /\ ~CancellationRace(row, expectedRevision)
           THEN "revision" ELSE "ok"

\* DrizzleWorkflowStore.commit: the WHERE clause of the update, then the
\* classification of a miss.
DrizzleCommitOutcome(row, live, next, expectedRevision, token) ==
    CASE /\ row.lease = token /\ live
         /\ next.state \notin TerminalForward \/ ~row.cancellationRequested
         /\ \/ row.revision = expectedRevision
            \/ /\ CancellationRace(row, expectedRevision)
               /\ next.state \notin TerminalForward -> "ok"
      [] OTHER -> IF row.lease # token \/ ~live THEN "lease" ELSE "revision"

\* mutant: the candidate's flag overwrites the one of the row.
CommittedRowForgets(row, next, releaseLease) ==
    [next EXCEPT !.revision = row.revision + 1,
                 !.lease = IF releaseLease THEN NoLease ELSE row.lease]

CommittedRow(row, next, releaseLease) ==
    [next EXCEPT !.cancellationRequested = @ \/ row.cancellationRequested,
                 !.revision = row.revision + 1,
                 !.lease = IF releaseLease THEN NoLease ELSE row.lease]

CancellationAllowed(row, expectedRevision) ==
    /\ row.revision = expectedRevision
    /\ ~IsWorkflowTerminal(row)

DrizzleCancellationAllowed(row, observed, expectedRevision) ==
    /\ row.revision = expectedRevision /\ Unmoved(row, observed)
    /\ row.state \notin {"completed", "failed", "compensated", "compensation_failed", "cancelled"}

CancelledRow(row) == [row EXCEPT !.cancellationRequested = TRUE, !.revision = @ + 1]

(***************************************************************************)
(* Receipts.  original is the snapshot the manager worked from, next its   *)
(* candidate, committed what the store returned.                           *)
(***************************************************************************)
RenewReceiptValid(observed, renewed, expectedRevision, token) ==
    LET race == ~observed.cancellationRequested /\ renewed.cancellationRequested IN
    /\ \/ observed.revision = expectedRevision
       \/ observed.revision = expectedRevision + 1 /\ observed.cancellationRequested
    /\ renewed = [observed EXCEPT
                     !.revision = @ + (IF race THEN 1 ELSE 0),
                     !.cancellationRequested = @ \/ race,
                     !.lease = token]

CommitReceiptValid(original, next, committed, token, releaseLease) ==
    LET merge == ~next.cancellationRequested /\ committed.cancellationRequested
        acknowledged == /\ ~original.cancellationRequested
                        /\ next.cancellationRequested
                        /\ committed.cancellationRequested
        concurrent == original.revision = next.revision + 1 /\ original.cancellationRequested
    IN  /\ AssertWorkflowSnapshot(committed)
        /\ original.revision = next.revision \/ concurrent
        /\ committed.cancellationRequested = next.cancellationRequested \/ merge
        /\ committed.revision = next.revision + (IF merge \/ acknowledged \/ concurrent
                                                 THEN 2 ELSE 1)
        /\ IF releaseLease THEN committed.lease = NoLease
           ELSE original.lease # NoLease /\ committed.lease = token /\ token = original.lease
        /\ ~(next.state = "failed" /\ merge)
        /\ committed.state = next.state
        /\ committed.steps = next.steps
=============================================================================
