--------------------------- MODULE WorkflowManager ---------------------------
(***************************************************************************)
(* WorkflowManager (packages/workflows/src/manager.ts): several workers    *)
(* drive the row of one workflow through claim, commit and lease renewal,  *)
(* while callers ask for its cancellation.                                 *)
(*                                                                         *)
(* A worker runs processResult() over and over (the queue and the wake-up  *)
(* messages call it).  One call is: read the row, claim it, compute a      *)
(* candidate from the claimed snapshot, commit it and, when the candidate  *)
(* starts a handler, run the handler under a heartbeat and commit again.   *)
(* Every call of the store is one atomic step; whatever a worker computed  *)
(* before the call may be stale by then.                                   *)
(*                                                                         *)
(* Time is abstracted to two facts: whether the lease of the row is live,  *)
(* and whether the retry deadline of a waiting row has passed.             *)
(***************************************************************************)
EXTENDS WorkflowStore

CONSTANTS
    Workers,      \* concurrent callers of processResult()
    Cancellers,   \* concurrent callers of cancel()
    MaxCrashes,   \* bound: executions that die or are aborted before they commit
    MaxExpiries,  \* bound: leases that expire under a worker that is still alive
    MaxRevision   \* bound: the revision beyond which the row is not claimed

ASSUME BoundsAssumption ==
    MaxCrashes \in Nat /\ MaxExpiries \in Nat /\ MaxRevision \in Nat

VARIABLES
    row,        \* the persisted snapshot
    leaseLive,  \* the lease of the row has not expired
    retryDue,   \* the retry deadline of a waiting row has passed
    worker,     \* worker[w]: the local state of w's current processResult() call
    canceller,  \* canceller[c]: the local state of c's cancel() call
    crashes, expiries,  \* how much of the two bounds is used up
    runs, undos,        \* history: invocations of step.run and step.compensate
    late                \* history: step.run invoked after cancellation was accepted

vars == <<row, leaseLive, retryDue, worker, canceller, crashes, expiries, runs, undos, late>>
history == <<runs, undos, late>>

\* How a worker's previous call ended, as far as it matters: "none" stands for
\* a result, for a refused claim or commit, for a lost lease and for an abort.
Errors == {"none", "invalid_snapshot", "store_contract"}

(***************************************************************************)
(* A worker's call: its program counter, the snapshot it works from        *)
(* (observed, claimed, started or re-read), the candidate it is about to   *)
(* commit and whether that commit releases the lease, what its heartbeat   *)
(* found out, and how its previous call ended.                             *)
(***************************************************************************)
WorkerState ==
    [pc : {"idle", "observed", "committing", "handling", "rereading"},
     snap : Snapshot, next : Snapshot, release : BOOLEAN,
     leaseLost : BOOLEAN, renewed : BOOLEAN, error : Errors]

IdleWorker(error) ==
    [pc |-> "idle", snap |-> InitialSnapshot, next |-> InitialSnapshot,
     release |-> TRUE, leaseLost |-> FALSE, renewed |-> FALSE, error |-> error]

Init ==
    /\ row = InitialSnapshot
    /\ leaseLive = FALSE
    /\ retryDue = FALSE
    /\ worker = [w \in Workers |-> IdleWorker("none")]
    /\ canceller = [c \in Cancellers |-> [pc |-> "start", revision |-> 0]]
    /\ crashes = 0 /\ expiries = 0
    /\ runs = [i \in Steps |-> 0] /\ undos = [i \in Steps |-> 0]
    /\ late = 0

(***************************************************************************)
(* Candidates.                                                             *)
(***************************************************************************)
Release(next) == [next |-> next, release |-> TRUE]
Hold(next) == [next |-> next, release |-> FALSE]

BeginCompensationOrCancel(s, cancellation) ==
    [s EXCEPT !.state =
        IF \E i \in Compensable : s.steps[i].state = "committed" THEN "compensating"
        ELSE IF cancellation THEN "cancelled" ELSE "failed"]

\* mutant: a step state that types.ts does not have.
WaitForwardMisspelt(step) ==
    [step EXCEPT !.state = "waiting", !.has = @ \cup {"error", "retryAt"}]

WaitForward(step) ==
    [step EXCEPT !.state = "waiting_retry", !.has = @ \cup {"error", "retryAt"}]

\* finishForwardFailure: retrySchedule may answer null for any attempt.
FinishForwardFailure(s, i) ==
    LET failed == [s.steps[i] EXCEPT !.state = "failed", !.has = @ \cup {"error"}]
        waiting == WaitForward(s.steps[i])
    IN  {BeginCompensationOrCancel([s EXCEPT !.steps[i] = failed, !.state = "failed"], FALSE)}
        \cup (IF s.steps[i].attempts < MaxAttempts[i]
              THEN {[s EXCEPT !.steps[i] = waiting, !.state = "waiting_retry"]} ELSE {})

FinishCompensationFailure(s, i) ==
    LET failed == [s.steps[i] EXCEPT !.state = "compensation_failed", !.has = @ \cup {"error"}]
        waiting == [s.steps[i] EXCEPT !.state = "compensation_waiting_retry",
                                      !.has = @ \cup {"error", "retryAt"}]
    IN  {[s EXCEPT !.steps[i] = failed, !.state = "compensation_failed"]}
        \cup (IF s.steps[i].compensationAttempts < MaxAttempts[i]
              THEN {[s EXCEPT !.steps[i] = waiting, !.state = "compensation_waiting_retry"]}
              ELSE {})

\* mutant: the attempt is not counted before it runs.
StartForwardUncounted(step) ==
    [step EXCEPT !.state = "running", !.has = @ \ {"retryAt", "error"},
                 !.attempts = IF @ = 0 THEN 1 ELSE @]

StartForward(step) ==
    [step EXCEPT !.state = "running", !.attempts = @ + 1, !.has = @ \ {"retryAt", "error"}]

\* execute, up to the commit that starts the handler.
Execute(s) ==
    IF \A i \in Steps : s.steps[i].state = "committed"
    THEN {Release([s EXCEPT !.state = "completed"])}
    ELSE LET i == CHOOSE k \in Steps : /\ s.steps[k].state # "committed"
                                       /\ \A j \in 1..(k - 1) : s.steps[j].state = "committed"
         IN  IF s.steps[i].state = "running"
             THEN {Release(next) : next \in FinishForwardFailure(s, i)}
             ELSE {Hold([s EXCEPT !.state = "running", !.steps[i] = StartForward(@)])}

StartCompensation(step) ==
    [step EXCEPT !.state = "compensating", !.compensationAttempts = @ + 1,
                 !.has = @ \ {"retryAt", "error"}]

\* compensate, up to the commit that starts the handler.
Compensate(s) ==
    LET open == {i \in Compensable :
                    s.steps[i].state \in {"committed", "compensation_waiting_retry", "compensating"}}
    IN  IF open = {}
        THEN {Release([s EXCEPT !.state = IF s.cancellationRequested
                                          THEN "cancelled" ELSE "compensated"])}
        ELSE LET i == CHOOSE k \in open : \A j \in open : j <= k
             IN  IF s.steps[i].state = "compensating"
                 THEN {Release(next) : next \in FinishCompensationFailure(s, i)}
                 ELSE {Hold([s EXCEPT !.state = "compensating",
                                      !.steps[i] = StartCompensation(@)])}

\* A cancelled wait goes back to pending before compensation starts.
DropForwardRetry(s) ==
    [s EXCEPT !.steps = [i \in Steps |->
        IF s.steps[i].state = "waiting_retry"
        THEN [s.steps[i] EXCEPT !.state = "pending", !.has = @ \ {"retryAt", "error"}]
        ELSE s.steps[i]]]

Advance(s) ==
    IF s.cancellationRequested /\ ~IsCompensating(s)
    THEN {Release(BeginCompensationOrCancel(DropForwardRetry(s), TRUE))}
    ELSE IF IsCompensating(s) THEN Compensate(s) ELSE Execute(s)

(***************************************************************************)
(* processResult: read, claim, advance.                                    *)
(***************************************************************************)
Observe(w) ==
    /\ worker[w].pc = "idle"
    /\ ~IsWorkflowTerminal(row)
    /\ IsWorkflowWaiting(row) /\ HasNextRetryAt(row) => retryDue
    /\ worker' = [worker EXCEPT ![w] = [IdleWorker("none") EXCEPT !.pc = "observed", !.snap = row]]
    /\ UNCHANGED <<row, leaseLive, retryDue, canceller, crashes, expiries, history>>

Claim(w) ==
    /\ worker[w].pc = "observed"
    /\ row.revision < MaxRevision
    /\ ClaimAllowed(row, leaseLive, worker[w].snap.revision)
    /\ row' = Claimed(row)
    /\ leaseLive' = TRUE
    /\ \E plan \in Advance(row') :
          worker' = [worker EXCEPT ![w] = [@ EXCEPT !.pc = "committing", !.snap = row',
                                                    !.next = plan.next, !.release = plan.release]]
    /\ UNCHANGED <<retryDue, canceller, crashes, expiries, history>>

\* RevisionConflictError or LeaseConflictError: the call reports contention.
ClaimConflict(w) ==
    /\ worker[w].pc = "observed"
    /\ ~ClaimAllowed(row, leaseLive, worker[w].snap.revision)
    /\ worker' = [worker EXCEPT ![w] = IdleWorker("none")]
    /\ UNCHANGED <<row, leaseLive, retryDue, canceller, crashes, expiries, history>>

(***************************************************************************)
(* commit.                                                                 *)
(***************************************************************************)
Outcome(w) == CommitOutcome(row, leaseLive, worker[w].next, worker[w].snap.revision,
                            worker[w].snap.lease)

\* The step whose handler a held commit starts.
HandledStep(s) == CHOOSE i \in Steps : s.steps[i].state \in {"running", "compensating"}

\* The candidate fails the manager's own validation: nothing is written.
CommitInvalid(w) ==
    /\ worker[w].pc = "committing"
    /\ ~ValidSnapshot(worker[w].next)
    /\ worker' = [worker EXCEPT ![w] = IdleWorker("invalid_snapshot")]
    /\ UNCHANGED <<row, leaseLive, retryDue, canceller, crashes, expiries, history>>

CommitWrites(w) ==
    /\ worker[w].pc = "committing"
    /\ ValidSnapshot(worker[w].next)
    /\ Outcome(w) = "ok"
    /\ row' = CommittedRow(row, worker[w].next, worker[w].release)
    /\ leaseLive' = (leaseLive /\ ~worker[w].release)
    /\ retryDue' = FALSE

\* A released commit ends the call; its receipt is checked after the write.
CommitReleased(w) ==
    /\ worker[w].release
    /\ CommitWrites(w)
    /\ worker' = [worker EXCEPT ![w] = IdleWorker(
          IF CommitReceiptValid(@.snap, @.next, row', @.snap.lease, TRUE)
          THEN "none" ELSE "store_contract")]
    /\ UNCHANGED <<canceller, crashes, expiries, history>>

\* A held commit starts the handler of the step it marked.
CommitStarted(w) ==
    LET i == HandledStep(worker[w].next)
        valid == CommitReceiptValid(worker[w].snap, worker[w].next, row',
                                    worker[w].snap.lease, FALSE)
    IN  /\ ~worker[w].release
        /\ CommitWrites(w)
        /\ IF valid
           THEN /\ worker' = [worker EXCEPT ![w] = [@ EXCEPT !.pc = "handling", !.snap = row',
                                                             !.next = InitialSnapshot]]
                /\ IF row'.steps[i].state = "running"
                   THEN /\ runs' = [runs EXCEPT ![i] = @ + 1]
                        /\ late' = late + (IF row'.cancellationRequested THEN 1 ELSE 0)
                        /\ UNCHANGED undos
                   ELSE undos' = [undos EXCEPT ![i] = @ + 1] /\ UNCHANGED <<runs, late>>
           ELSE /\ worker' = [worker EXCEPT ![w] = IdleWorker("store_contract")]
                /\ UNCHANGED history
        /\ UNCHANGED <<canceller, crashes, expiries>>

\* The store refuses: a completed or failed candidate that lost the revision
\* is looked at again, every other refusal ends the call.
CommitRefused(w) ==
    /\ worker[w].pc = "committing"
    /\ ValidSnapshot(worker[w].next)
    /\ Outcome(w) # "ok"
    /\ worker' = [worker EXCEPT ![w] =
          IF Outcome(w) = "revision" /\ @.next.state \in TerminalForward
          THEN [@ EXCEPT !.pc = "rereading"]
          ELSE IdleWorker("none")]
    /\ UNCHANGED <<row, leaseLive, retryDue, canceller, crashes, expiries, history>>

\* The second read inside commit: turn the refused end into a cancellation.
Reread(w) ==
    LET ws == worker[w]
        refused == IF ws.next.state = "failed"
                   THEN [ws.next EXCEPT !.revision = row.revision, !.lease = row.lease,
                                        !.cancellationRequested = TRUE]
                   ELSE row
    IN  /\ ws.pc = "rereading"
        /\ worker' = [worker EXCEPT ![w] =
              IF ~row.cancellationRequested \/ row.lease # ws.snap.lease
              THEN IdleWorker("none")
              ELSE [ws EXCEPT !.pc = "committing", !.snap = row, !.release = TRUE,
                              !.next = BeginCompensationOrCancel(refused, TRUE)]]
        /\ UNCHANGED <<row, leaseLive, retryDue, canceller, crashes, expiries, history>>

(***************************************************************************)
(* withHeartbeat.  observedLease is the started snapshot with what the     *)
(* last renewal showed: a cancellation and the revision it took.           *)
(***************************************************************************)
Forward(w) == worker[w].snap.state = "running"

ObservedLease(w) ==
    IF worker[w].renewed /\ ~worker[w].snap.cancellationRequested
    THEN [worker[w].snap EXCEPT !.revision = @ + 1, !.cancellationRequested = TRUE]
    ELSE worker[w].snap

\* renewed: the last renewal returned a row with cancellation requested.
Renew(w) ==
    LET allowed == RenewAllowed(row, leaseLive, worker[w].snap.revision, worker[w].snap.lease)
        valid == RenewReceiptValid(ObservedLease(w), row, worker[w].snap.revision,
                                   worker[w].snap.lease)
    IN  /\ worker[w].pc = "handling"
        /\ ~worker[w].leaseLost
        /\ worker' = [worker EXCEPT ![w] =
              IF allowed /\ valid THEN [@ EXCEPT !.renewed = row.cancellationRequested]
              ELSE [@ EXCEPT !.leaseLost = TRUE]]
        /\ UNCHANGED <<row, leaseLive, retryDue, canceller, crashes, expiries, history>>

\* The SQL store refuses a renewal when a cancellation came between its read of
\* the row and its update, although it accepts the same renewal a moment later.
RenewMisses(w) ==
    LET s == worker[w].snap
    IN  /\ worker[w].pc = "handling"
        /\ ~worker[w].leaseLost /\ ~worker[w].renewed
        /\ RenewAllowed(row, leaseLive, s.revision, s.lease)
        /\ ~DrizzleRenewAllowed(row, s, leaseLive, s.revision, s.lease)
        /\ worker' = [worker EXCEPT ![w] = [@ EXCEPT !.leaseLost = TRUE]]
        /\ UNCHANGED <<row, leaseLive, retryDue, canceller, crashes, expiries, history>>

\* cancellationObserved: only the heartbeat of a forward step looks at it.
CancellationObserved(w) == Forward(w) /\ worker[w].renewed

CommitNext(w, next) ==
    worker' = [worker EXCEPT ![w] = [@ EXCEPT !.pc = "committing", !.next = next,
                                              !.release = TRUE, !.renewed = FALSE]]

Recorded(step) == [step EXCEPT !.state = "committed", !.has = @ \cup {"output"}]

HandlerSucceeds(w) ==
    LET s == worker[w].snap
        i == HandledStep(s)
    IN  /\ worker[w].pc = "handling" /\ ~worker[w].leaseLost
        /\ CommitNext(w,
             IF Forward(w)
             THEN [s EXCEPT !.steps[i] = Recorded(@),
                            !.cancellationRequested = @ \/ CancellationObserved(w)]
             ELSE [s EXCEPT !.steps[i] = [@ EXCEPT !.state = "compensated"]])
        /\ UNCHANGED <<row, leaseLive, retryDue, canceller, crashes, expiries, history>>

\* The handler threw, or (observed FALSE) returned a value that is not JSON.
HandlerFailure(w, observed) ==
    LET s == worker[w].snap
        i == HandledStep(s)
    IN  IF observed
        THEN {BeginCompensationOrCancel(
                [s EXCEPT !.steps[i].state = "pending", !.cancellationRequested = TRUE], TRUE)}
        ELSE IF Forward(w) THEN FinishForwardFailure(s, i) ELSE FinishCompensationFailure(s, i)

HandlerFails(w) ==
    /\ worker[w].pc = "handling" /\ ~worker[w].leaseLost
    /\ \E next \in HandlerFailure(w, CancellationObserved(w)) : CommitNext(w, next)
    /\ UNCHANGED <<row, leaseLive, retryDue, canceller, crashes, expiries, history>>

HandlerReturnsNonJson(w) ==
    /\ worker[w].pc = "handling" /\ ~worker[w].leaseLost
    /\ Forward(w)
    /\ \E next \in HandlerFailure(w, FALSE) : CommitNext(w, next)
    /\ UNCHANGED <<row, leaseLive, retryDue, canceller, crashes, expiries, history>>

\* The result of a handler that outlived its lease is discarded.
HandlerLosesLease(w) ==
    /\ worker[w].pc = "handling" /\ worker[w].leaseLost
    /\ worker' = [worker EXCEPT ![w] = IdleWorker("none")]
    /\ UNCHANGED <<row, leaseLive, retryDue, canceller, crashes, expiries, history>>

(***************************************************************************)
(* The environment: processes that die (or whose caller aborts them), and  *)
(* time.                                                                   *)
(***************************************************************************)
Crash(w) ==
    /\ worker[w].pc # "idle"
    /\ crashes < MaxCrashes
    /\ crashes' = crashes + 1
    /\ worker' = [worker EXCEPT ![w] = IdleWorker("none")]
    /\ UNCHANGED <<row, leaseLive, retryDue, canceller, expiries, history>>

\* A worker that still believes it owns the lease of the row.
Owner(w) == /\ worker[w].pc \in {"committing", "handling", "rereading"}
            /\ row.lease # NoLease
            /\ worker[w].snap.lease = row.lease

AbandonedLeaseExpires ==
    /\ leaseLive
    /\ \A w \in Workers : ~Owner(w)
    /\ leaseLive' = FALSE
    /\ UNCHANGED <<row, retryDue, worker, canceller, crashes, expiries, history>>

OwnedLeaseExpires ==
    /\ leaseLive
    /\ \E w \in Workers : Owner(w)
    /\ expiries < MaxExpiries
    /\ expiries' = expiries + 1
    /\ leaseLive' = FALSE
    /\ UNCHANGED <<row, retryDue, worker, canceller, crashes, history>>

RetryBecomesDue ==
    /\ IsWorkflowWaiting(row) /\ ~retryDue
    /\ retryDue' = TRUE
    /\ UNCHANGED <<row, leaseLive, worker, canceller, crashes, expiries, history>>

(***************************************************************************)
(* cancel: read, then request with the revision that was read.             *)
(***************************************************************************)
CancelReads(c) ==
    /\ canceller[c].pc = "start"
    /\ canceller' = [canceller EXCEPT ![c] =
          IF IsWorkflowTerminal(row) \/ row.cancellationRequested
          THEN [pc |-> "returned", revision |-> 0]
          ELSE [pc |-> "requesting", revision |-> row.revision]]
    /\ UNCHANGED <<row, leaseLive, retryDue, worker, crashes, expiries, history>>

CancelRequests(c) ==
    /\ canceller[c].pc = "requesting"
    /\ IF CancellationAllowed(row, canceller[c].revision)
       THEN row' = CancelledRow(row)
       ELSE UNCHANGED row
    /\ canceller' = [canceller EXCEPT ![c] = [pc |-> "returned", revision |-> 0]]
    /\ UNCHANGED <<leaseLive, retryDue, worker, crashes, expiries, history>>

WorkerStep(w) ==
    \/ Observe(w) \/ Claim(w) \/ ClaimConflict(w)
    \/ CommitInvalid(w) \/ CommitReleased(w) \/ CommitStarted(w) \/ CommitRefused(w)
    \/ Reread(w) \/ HandlerSucceeds(w) \/ HandlerFails(w) \/ HandlerReturnsNonJson(w)
    \/ HandlerLosesLease(w)

Next ==
    \/ \E w \in Workers : WorkerStep(w) \/ Renew(w) \/ RenewMisses(w) \/ Crash(w)
    \/ \E c \in Cancellers : CancelReads(c) \/ CancelRequests(c)
    \/ AbandonedLeaseExpires \/ OwnedLeaseExpires \/ RetryBecomesDue

Spec == Init /\ [][Next]_vars

\* Workers keep being called and finish their calls; time passes.
Fairness ==
    /\ \A w \in Workers : WF_vars(WorkerStep(w))
    /\ WF_vars(AbandonedLeaseExpires)
    /\ WF_vars(RetryBecomesDue)

FairSpec == Spec /\ Fairness
-----------------------------------------------------------------------------
\* Every snapshot that is stored, held by a worker or built as a candidate has
\* only the states, counters and optional keys of types.ts, whatever mix of
\* retries, compensations and cancellations built it.
TypeOK ==
    /\ row \in Snapshot
    /\ leaseLive \in BOOLEAN /\ retryDue \in BOOLEAN
    /\ worker \in [Workers -> WorkerState]
    /\ canceller \in [Cancellers -> [pc : {"start", "requesting", "returned"}, revision : Nat]]
    /\ crashes \in 0..MaxCrashes /\ expiries \in 0..MaxExpiries
    /\ runs \in [Steps -> Nat] /\ undos \in [Steps -> Nat] /\ late \in Nat

\* Every reader of the store validates what it reads (processResult, cancel,
\* the hydration of mutation receipts): the row the store composes from a
\* candidate and a concurrent cancellation must itself be a valid snapshot,
\* or the workflow can never be read again.
RowIsReadable == ValidSnapshot(row)

\* A worker whose token is on the row works from what the row holds: since
\* its snapshot was taken nobody but one cancellation has written.  This is
\* what token and revision fencing are for: without it a commit erases the
\* progress of another owner.
OwnerIsCurrent ==
    \A w \in Workers : Owner(w) =>
        /\ row.state = worker[w].snap.state
        /\ row.steps = worker[w].snap.steps
        /\ worker[w].snap.cancellationRequested => row.cancellationRequested
        /\ row.revision = worker[w].snap.revision
             + (IF row.cancellationRequested /\ ~worker[w].snap.cancellationRequested
                THEN 1 ELSE 0)

\* The arithmetic of the receipts (+1, or +2 when a cancellation merges) fits
\* what the stores do: no commit is written and then reported to its caller
\* as a WorkflowStoreContractError.
NoContractErrors == \A w \in Workers : worker[w].error # "store_contract"

\* The in-memory and the SQL store accept and refuse the same claims, renewals,
\* cancellations and commits, the last with the same error, whenever nothing
\* moves the row between the two statements of the SQL store.
StoresAgree ==
    /\ \A w \in Workers :
        LET s == worker[w].snap IN
        /\ ClaimAllowed(row, leaseLive, s.revision)
              <=> DrizzleClaimAllowed(row, row, leaseLive, s.revision)
        /\ worker[w].pc = "handling" =>
              (RenewAllowed(row, leaseLive, s.revision, s.lease)
                 <=> DrizzleRenewAllowed(row, row, leaseLive, s.revision, s.lease))
        /\ worker[w].pc = "committing" /\ ValidSnapshot(worker[w].next) =>
              Outcome(w) = DrizzleCommitOutcome(row, leaseLive, worker[w].next,
                                                s.revision, s.lease)
    /\ \A c \in Cancellers :
          CancellationAllowed(row, canceller[c].revision)
            <=> DrizzleCancellationAllowed(row, row, canceller[c].revision)

\* An attempt is persisted before its handler runs, so crashes, lost leases
\* and interrupted attempts never let a handler run more often than its
\* definition's maxAttempts.
AttemptsAreBudgeted ==
    \A i \in Steps :
        /\ runs[i] <= row.steps[i].attempts
        /\ undos[i] <= row.steps[i].compensationAttempts
        /\ row.steps[i].attempts <= MaxAttempts[i]
        /\ row.steps[i].compensationAttempts <= MaxAttempts[i]

\* After a cancellation is accepted at most one more step handler starts: the
\* one whose start commit was already on its way.
CancellationStopsForwardWork == late <= 1

\* Every candidate a worker hands to commit passes the validation commit
\* applies to it; a candidate that does not leaves the row as it is, and the
\* next worker builds the same candidate again.
CandidatesAreValid ==
    \A w \in Workers : worker[w].pc = "committing" => ValidSnapshot(worker[w].next)

\* A terminal row is never written again, and an accepted cancellation is
\* never taken back by a commit that did not know of it.
DecisionsAreFinal ==
    [][/\ IsWorkflowTerminal(row) => row' = row
       /\ row.cancellationRequested => row'.cancellationRequested]_vars

(***************************************************************************)
(* The workflow as a saga: what the row says of each step.                 *)
(***************************************************************************)
SagaPhase ==
    IF IsWorkflowTerminal(row) THEN row.state
    ELSE IF IsCompensating(row) THEN "undoing" ELSE "forward"

SagaStep == [i \in Steps |->
    CASE row.steps[i].state = "compensated" -> "undone"
      [] row.steps[i].state \in OutputStates \ {"compensated"} -> "done"
      [] OTHER -> "todo"]

Abstract == INSTANCE Saga WITH phase <- SagaPhase, step <- SagaStep

\* Workers, leases, crashes, retries and cancellations implement the saga:
\* steps commit in order, and the compensations of committed steps run in
\* reverse order, each once, before the workflow may end as compensated or
\* cancelled.
ImplementsSaga == Abstract!Spec

\* A call ends with InvalidWorkflowSnapshotError only after a cancellation:
\* failures, retries, crashes and lost leases alone never build a candidate
\* that the manager itself refuses.
OnlyCancellationWedges ==
    \A w \in Workers : worker[w].error = "invalid_snapshot" => row.cancellationRequested

\* What execute() promises its caller, whichever store is behind it, through
\* crashes, lost leases and retries: no handler runs beyond its budget, no
\* commit is written and then reported as refused, both stores give the same
\* answer, an accepted cancellation stops the steps that have not started, and
\* InvalidWorkflowSnapshotError takes a cancellation.
CallsEndWell ==
    /\ AttemptsAreBudgeted /\ NoContractErrors /\ StoresAgree
    /\ CancellationStopsForwardWork /\ OnlyCancellationWedges

\* Every workflow reaches a terminal state, whatever crashes and lease losses
\* happen on the way, unless a worker ended with InvalidWorkflowSnapshotError
\* (which OnlyCancellationWedges ties to a cancellation).
Settles ==
    <>(IsWorkflowTerminal(row) \/ \E w \in Workers : worker[w].error = "invalid_snapshot")
=============================================================================
