---------------------------- MODULE WorkflowWake ----------------------------
(***************************************************************************)
(* What keeps a workflow moving when workers come and go:                  *)
(* TransactionalWorkflowStore, the wake handler and WorkflowWakeReconciler *)
(* of packages/workflows-reliability/src/index.ts, over the engine of      *)
(* packages/workflows/src/manager.ts.                                      *)
(*                                                                         *)
(* One workflow.  Every mutation of its row appends a wake message to the  *)
(* outbox in the same transaction; a worker that is handed a due wake      *)
(* calls processResult and acknowledges the message, whatever the outcome  *)
(* was, unless processResult throws.  The delivery of messages is that of  *)
(* ReliableMessaging: at least once, in any order, and given up after too  *)
(* many failures.                                                          *)
(*                                                                         *)
(* Instants are kept as the time left until them, so Tick is the only      *)
(* clock.  A revision is only ever compared for equality with one that was *)
(* read before, so a worker keeps whether its revision is still current.   *)
(***************************************************************************)
EXTENDS Integers

CONSTANTS
    Workers,
    LeaseDuration,  \* leaseDurationMs
    RetryDelay,     \* the delay of a business retry
    MaxCopies,      \* bound: unsettled wakes with one due time
    MaxTransitions, \* bound: released commits that do not end the workflow
    MaxRenewals,    \* bound: heartbeats
    MaxFaults,      \* bound: crashes, failed calls, leases outlived, wakes given up
    None

ASSUME WakeAssumption ==
    /\ LeaseDuration \in Nat \ {0} /\ RetryDelay \in Nat \ {0} /\ MaxCopies \in Nat \ {0}
    /\ MaxTransitions \in Nat /\ MaxRenewals \in Nat /\ MaxFaults \in Nat
    /\ None \notin Workers

Horizon == IF LeaseDuration > RetryDelay THEN LeaseDuration ELSE RetryDelay
Instants == 0 .. Horizon

VARIABLES
    row,         \* the workflow: its state, lease, retry deadline, cancellation
    wakes,       \* the outbox: wakes[t] messages become available in t
    worker,      \* the calls of processResult; a busy worker holds its message
    reconciled,  \* this generation and revision already have a recovery wake
    scan,        \* the reconciliation worker: its loop, and the wake it is about to append
    lost,        \* history: a wake was given up and no useful one was written since
    transitions,
    renewals,
    faults

vars == <<row, wakes, worker, reconciled, scan, lost, transitions, renewals, faults>>
bounds == <<transitions, renewals, faults>>

Row == [state : {"absent", "ready", "waiting", "terminal"}, holder : Workers \cup {None},
        lease : 0 .. LeaseDuration, retry : 0 .. RetryDelay, cancel : BOOLEAN]

Init ==
    /\ row = [state |-> "absent", holder |-> None, lease |-> 0, retry |-> 0, cancel |-> FALSE]
    /\ wakes = [t \in Instants |-> 0]
    /\ worker = [w \in Workers |-> [pc |-> "idle", current |-> FALSE]]
    /\ reconciled = FALSE /\ lost = FALSE
    /\ scan = [phase |-> "asleep", due |-> 0, current |-> FALSE]
    /\ transitions = 0 /\ renewals = 0 /\ faults = 0

Fault == faults < MaxFaults /\ faults' = faults + 1 /\ UNCHANGED <<transitions, renewals>>

(***************************************************************************)
(* The row.                                                                *)
(***************************************************************************)
Active == row.state \in {"ready", "waiting"}
Leased == row.holder # None

\* How long until the engine can do something with the row again.
DueIn == IF Leased THEN row.lease ELSE IF row.state = "waiting" THEN row.retry ELSE 0

\* Fencing: commit and renewLease need the token and a lease that has not expired.
Owns(w) == row.holder = w /\ row.lease > 0

At(w, pc) == [worker EXCEPT ![w].pc = pc]

\* A write that increments the revision: what others have read is stale.
Bump(workers) ==
    /\ worker' = [w \in Workers |-> [workers[w] EXCEPT !.current = FALSE]]
    /\ reconciled' = FALSE
    /\ scan' = [scan EXCEPT !.current = FALSE]

\* append, in the transaction of the write.
append(t) == wakes[t] < MaxCopies /\ wakes' = [wakes EXCEPT ![t] = @ + 1]

(***************************************************************************)
(* TransactionalWorkflowStore.                                             *)
(***************************************************************************)
Create ==
    /\ row.state = "absent"
    /\ row' = [row EXCEPT !.state = "ready"]
    /\ append(0)
    /\ UNCHANGED <<worker, reconciled, scan, lost, bounds>>

RequestCancellation ==
    /\ Active /\ ~row.cancel
    /\ row' = [row EXCEPT !.cancel = TRUE]
    /\ Bump(worker)
    /\ append(0)
    /\ UNCHANGED <<lost, bounds>>

\* The claim of processResult, with a fallback wake at the end of the lease.
Claim(w) ==
    /\ worker[w].pc = "observed" /\ worker[w].current /\ (Leased => row.lease = 0)
    /\ row' = [row EXCEPT !.holder = w, !.lease = LeaseDuration]
    /\ Bump(At(w, "claimed"))
    /\ append(LeaseDuration)
    /\ lost' = FALSE
    /\ UNCHANGED bounds

\* A revision or lease conflict: terminal, waiting or contended, without an error.
ClaimConflict(w) ==
    /\ worker[w].pc = "observed" /\ ~(worker[w].current /\ (Leased => row.lease = 0))
    /\ worker' = At(w, "acking")
    /\ UNCHANGED <<row, wakes, reconciled, scan, lost, bounds>>

\* The heartbeat: lease and replacement fallback, the revision stays.
RenewLease(w) ==
    /\ worker[w].pc = "running" /\ Owns(w)
    /\ renewals < MaxRenewals /\ renewals' = renewals + 1
    /\ row.lease < LeaseDuration
    /\ row' = [row EXCEPT !.lease = LeaseDuration]
    /\ append(LeaseDuration)
    /\ lost' = FALSE
    /\ UNCHANGED <<worker, reconciled, scan, transitions, faults>>

\* The start commit keeps the lease and appends nothing.
CommitStart(w) ==
    /\ worker[w].pc = "claimed" /\ Owns(w)
    /\ Bump(At(w, "running"))
    /\ UNCHANGED <<row, wakes, lost, bounds>>

\* commit making every released workflow available at once.
AvailableInNow(state) == 0

\* commit: when the wake of a released workflow becomes available.
AvailableIn(state) == IF state = "waiting" THEN RetryDelay ELSE 0

\* The row after a commit that releases the lease.
ReleasedRow(state) ==
    [row EXCEPT !.state = state, !.holder = None, !.lease = 0,
                !.retry = IF state = "waiting" THEN RetryDelay ELSE 0]

\* The final commit of an attempt, releasing the lease.
CommitRelease(w) ==
    /\ worker[w].pc \in {"claimed", "running"} /\ Owns(w)
    /\ transitions < MaxTransitions /\ transitions' = transitions + 1
    /\ \E state \in {"ready", "waiting"} :
          /\ row' = ReleasedRow(state)
          /\ append(AvailableIn(state))
    /\ Bump(At(w, "acking"))
    /\ lost' = FALSE
    /\ UNCHANGED <<renewals, faults>>

CommitTerminal(w) ==
    /\ worker[w].pc \in {"claimed", "running"} /\ Owns(w)
    /\ row' = ReleasedRow("terminal")
    /\ Bump(At(w, "acking"))
    /\ UNCHANGED <<wakes, lost, bounds>>

(***************************************************************************)
(* The wake handler: processResult up to the claim, the acknowledgement.   *)
(***************************************************************************)
TakeWake(w) ==
    /\ worker[w].pc = "idle" /\ wakes[0] > 0
    /\ wakes' = [wakes EXCEPT ![0] = @ - 1]
    /\ worker' = At(w, "new")
    /\ UNCHANGED <<row, reconciled, scan, lost, bounds>>

\* Terminal, and waiting with a deadline ahead (cancelled or not), end the call.
Observe(w) ==
    /\ worker[w].pc = "new"
    /\ worker' = IF row.state = "terminal" \/ (row.state = "waiting" /\ row.retry > 0)
                    THEN At(w, "acking")
                    ELSE [worker EXCEPT ![w] = [pc |-> "observed", current |-> TRUE]]
    /\ UNCHANGED <<row, wakes, reconciled, scan, lost, bounds>>

Acknowledge(w) ==
    /\ worker[w].pc = "acking"
    /\ worker' = At(w, "idle")
    /\ UNCHANGED <<row, wakes, reconciled, scan, lost, bounds>>

\* The message of w is offered again.
Redelivered(w) ==
    /\ wakes' = [wakes EXCEPT ![0] = @ + 1]
    /\ worker' = [worker EXCEPT ![w] = [pc |-> "idle", current |-> FALSE]]

\* processResult throws because the lease is gone; the message is retried.
LeaseLost(w) ==
    /\ worker[w].pc \in {"claimed", "running"} /\ ~Owns(w)
    /\ Redelivered(w)
    /\ UNCHANGED <<row, reconciled, scan, lost, bounds>>

\* The worker dies, or a call it makes fails, wherever it is; its lease stays.
CrashOrThrow(w) ==
    /\ worker[w].pc # "idle" /\ Fault
    /\ Redelivered(w)
    /\ UNCHANGED <<row, reconciled, scan, lost>>

\* The last failure the message is allowed: its outbox or inbox row is dead.
GiveUp(w) ==
    /\ worker[w].pc # "idle" /\ Fault
    /\ worker' = [worker EXCEPT ![w] = [pc |-> "idle", current |-> FALSE]]
    /\ lost' = TRUE
    /\ UNCHANGED <<row, wakes, reconciled, scan>>

(***************************************************************************)
(* WorkflowWakeReconciler, run by WorkflowWakeReconciliationWorker: one    *)
(* wake per revision and generation, due when the row that was read could  *)
(* be used.  The row is read before the wake is appended, outside of any   *)
(* transaction, and may have moved on by then.                             *)
(***************************************************************************)
ReconcileReads ==
    /\ scan.phase = "asleep"
    /\ Active /\ ~reconciled
    /\ scan' = [phase |-> "read", due |-> DueIn, current |-> TRUE]
    /\ UNCHANGED <<row, wakes, worker, reconciled, lost, bounds>>

\* The pass is over: the loop sleeps, or has been drained.
PassEnds == scan' = [phase |-> IF scan.phase = "read" THEN "asleep" ELSE "ended",
                     due |-> 0, current |-> FALSE]

ReconcileAppends ==
    /\ scan.phase \in {"read", "draining"}
    /\ append(scan.due)
    /\ PassEnds
    /\ reconciled' = (reconciled \/ scan.current)
    /\ lost' = (lost /\ scan.due < DueIn)
    /\ UNCHANGED <<row, worker, bounds>>

\* A rejected append is reported in `failed` and the loop goes on.
ReconcileFails ==
    /\ scan.phase \in {"read", "draining"} /\ Fault
    /\ PassEnds
    /\ UNCHANGED <<row, wakes, worker, reconciled, lost>>

\* discoverRecoverable or onResult rejects: the loop ends and run() rejects.
LoopEnds ==
    /\ scan.phase = "asleep" /\ Fault
    /\ scan' = [scan EXCEPT !.phase = "ended"]
    /\ UNCHANGED <<row, wakes, worker, reconciled, lost>>

\* stop(): no further pass begins; one that is under way is drained.
Stop ==
    /\ scan.phase \in {"asleep", "read"} /\ Fault
    /\ scan' = [scan EXCEPT !.phase = IF @ = "read" THEN "draining" ELSE "ended"]
    /\ UNCHANGED <<row, wakes, worker, reconciled, lost>>

\* The command is started again, as after every exit.
Restart ==
    /\ scan.phase = "ended"
    /\ scan' = [scan EXCEPT !.phase = "asleep"]
    /\ UNCHANGED <<row, wakes, worker, reconciled, lost, bounds>>

\* A recovery wake that is named after the workflow alone.
SameGeneration == FALSE /\ UNCHANGED vars

NewGeneration ==
    /\ reconciled \/ scan.current
    /\ reconciled' = FALSE /\ scan' = [scan EXCEPT !.current = FALSE]
    /\ UNCHANGED <<row, wakes, worker, lost, bounds>>

(***************************************************************************)
(* Time.  Heartbeats keep the lease of a worker that is alive, unless one  *)
(* of them fails.                                                          *)
(***************************************************************************)
Less(n) == IF n = 0 THEN 0 ELSE n - 1

OwnerAlive == Leased /\ worker[row.holder].pc \in {"claimed", "running"}

Tick ==
    /\ row.lease > 0 \/ row.retry > 0 \/ scan.due > 0 \/ \E t \in Instants \ {0} : wakes[t] > 0
    /\ IF OwnerAlive /\ row.lease = 1 THEN Fault ELSE UNCHANGED bounds
    /\ row' = [row EXCEPT !.lease = Less(@), !.retry = Less(@)]
    /\ wakes' = [t \in Instants |->
          CASE t = 0 -> wakes[0] + wakes[1]
            [] t = Horizon -> 0
            [] OTHER -> wakes[t + 1]]
    /\ scan' = [scan EXCEPT !.due = Less(@)]
    /\ UNCHANGED <<worker, reconciled, lost>>

Next ==
    \/ Create \/ RequestCancellation \/ Tick
    \/ ReconcileReads \/ ReconcileAppends \/ ReconcileFails \/ NewGeneration
    \/ LoopEnds \/ Stop \/ Restart
    \/ \E w \in Workers :
          \/ TakeWake(w) \/ Observe(w) \/ Claim(w) \/ ClaimConflict(w)
          \/ CommitStart(w) \/ RenewLease(w) \/ CommitRelease(w) \/ CommitTerminal(w)
          \/ Acknowledge(w) \/ LeaseLost(w) \/ CrashOrThrow(w) \/ GiveUp(w)

Spec == Init /\ [][Next]_vars

\* Workers take due wakes and finish the calls they began, time passes, and the
\* reconciliation worker scans in every generation.
Fairness ==
    /\ WF_vars(Tick) /\ WF_vars(NewGeneration) /\ WF_vars(Restart)
    /\ WF_vars(ReconcileReads) /\ WF_vars(ReconcileAppends)
    /\ \A w \in Workers :
          /\ WF_vars(TakeWake(w)) /\ WF_vars(Observe(w))
          /\ WF_vars(Claim(w) \/ ClaimConflict(w))
          /\ WF_vars(CommitStart(w) \/ LeaseLost(w))
          /\ WF_vars(CommitRelease(w) \/ CommitTerminal(w) \/ LeaseLost(w))
          /\ WF_vars(Acknowledge(w))

FairSpec == Spec /\ Fairness

(***************************************************************************)
(* Properties                                                              *)
(***************************************************************************)
\* Types; a lease is recorded with its holder.
TypeOK ==
    /\ row \in Row /\ (row.holder = None => row.lease = 0)
    /\ wakes \in [Instants -> Nat]
    /\ worker \in [Workers -> [pc : {"idle", "new", "observed", "claimed", "running", "acking"},
                               current : BOOLEAN]]
    /\ reconciled \in BOOLEAN /\ lost \in BOOLEAN
    /\ scan \in [phase : {"asleep", "read", "draining", "ended"}, due : Instants, current : BOOLEAN]
    /\ transitions \in 0 .. MaxTransitions /\ renewals \in 0 .. MaxRenewals
    /\ faults \in 0 .. MaxFaults

\* No lost wake-up: while no wake was given up, an unfinished workflow has one that comes
\* no earlier than the engine can use it, or a worker that is about to use it.  Wakes that
\* are consumed too early, by a live lease or a deadline ahead, are never the last one.
WakeIsArmed ==
    Active /\ ~lost =>
        \/ \E t \in Instants : wakes[t] > 0 /\ t >= DueIn
        \/ DueIn = 0 /\ \E w \in Workers :
              worker[w].pc = "new" \/ (worker[w].pc = "observed" /\ worker[w].current)

\* A created workflow ends although workers crash, leases run out and wakes are given up:
\* what the outbox lost, a later generation of the reconciler repairs.
WorkflowEnds == row.state # "absent" ~> row.state = "terminal"
=============================================================================
