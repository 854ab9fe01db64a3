--------------------------- MODULE WorkflowProofs ---------------------------
(***************************************************************************)
(* Proofs about WorkflowManager, for every definition, any number of       *)
(* workers and cancellers, and every bound.                                *)
(*                                                                         *)
(* The argument rests on one idea: each write of the row raises its        *)
(* revision, so a snapshot that carries the row's revision IS the row, and *)
(* a lease token, the revision of the claim that drew it, belongs to one   *)
(* call only.                                                              *)
(***************************************************************************)
EXTENDS WorkflowManager, WellFoundedInduction, TLAPS

(***************************************************************************)
(* Candidates: what advance and the handlers' ends build from a snapshot.  *)
(***************************************************************************)

\* beginCompensationOrCancel changes nothing but the workflow state.
LEMMA BeginKeeps ==
    ASSUME NEW s \in Snapshot, NEW c \in BOOLEAN
    PROVE  /\ BeginCompensationOrCancel(s, c) \in Snapshot
           /\ BeginCompensationOrCancel(s, c).revision = s.revision
           /\ BeginCompensationOrCancel(s, c).lease = s.lease
           /\ BeginCompensationOrCancel(s, c).cancellationRequested = s.cancellationRequested
           /\ BeginCompensationOrCancel(s, c).steps = s.steps
  BY DEF BeginCompensationOrCancel, Snapshot, WorkflowStates

\* finishForwardFailure keeps revision, lease and cancellation flag.
LEMMA ForwardFailureKeeps ==
    ASSUME NEW s \in Snapshot, NEW i, NEW n \in FinishForwardFailure(s, i)
    PROVE  /\ n \in Snapshot
           /\ n.revision = s.revision /\ n.lease = s.lease
           /\ n.cancellationRequested = s.cancellationRequested
<1> DEFINE failed == [s.steps[i] EXCEPT !.state = "failed", !.has = @ \cup {"error"}]
           waiting == WaitForward(s.steps[i])
           t == [s EXCEPT !.steps[i] = failed, !.state = "failed"]
           u == [s EXCEPT !.steps[i] = waiting, !.state = "waiting_retry"]
<1>1. i \in Steps => failed \in StepSnapshot /\ waiting \in StepSnapshot
  BY DEF Snapshot, StepSnapshot, StepStates, WaitForward
<1>2. "failed" \in WorkflowStates /\ "waiting_retry" \in WorkflowStates
  BY DEF WorkflowStates
<1>3. /\ t \in Snapshot
      /\ t.revision = s.revision /\ t.lease = s.lease
      /\ t.cancellationRequested = s.cancellationRequested
  <2> HIDE DEF failed
  <2> QED  BY <1>1, <1>2 DEF Snapshot
<1>4. /\ u \in Snapshot
      /\ u.revision = s.revision /\ u.lease = s.lease
      /\ u.cancellationRequested = s.cancellationRequested
  <2> HIDE DEF waiting
  <2> QED  BY <1>1, <1>2 DEF Snapshot
<1>5. n = BeginCompensationOrCancel(t, FALSE) \/ n = u
  BY DEF FinishForwardFailure
<1> QED
  <2> HIDE DEF t, u
  <2> QED  BY <1>3, <1>4, <1>5, BeginKeeps

\* finishCompensationFailure keeps revision, lease and cancellation flag.
LEMMA CompensationFailureKeeps ==
    ASSUME NEW s \in Snapshot, NEW i, NEW n \in FinishCompensationFailure(s, i)
    PROVE  /\ n \in Snapshot
           /\ n.revision = s.revision /\ n.lease = s.lease
           /\ n.cancellationRequested = s.cancellationRequested
<1> DEFINE failed == [s.steps[i] EXCEPT !.state = "compensation_failed", !.has = @ \cup {"error"}]
           waiting == [s.steps[i] EXCEPT !.state = "compensation_waiting_retry",
                                         !.has = @ \cup {"error", "retryAt"}]
           t == [s EXCEPT !.steps[i] = failed, !.state = "compensation_failed"]
           u == [s EXCEPT !.steps[i] = waiting, !.state = "compensation_waiting_retry"]
<1>1. i \in Steps => failed \in StepSnapshot /\ waiting \in StepSnapshot
  BY DEF Snapshot, StepSnapshot, StepStates
<1>2. "compensation_failed" \in WorkflowStates /\ "compensation_waiting_retry" \in WorkflowStates
  BY DEF WorkflowStates
<1>3. /\ t \in Snapshot
      /\ t.revision = s.revision /\ t.lease = s.lease
      /\ t.cancellationRequested = s.cancellationRequested
  <2> HIDE DEF failed
  <2> QED  BY <1>1, <1>2 DEF Snapshot
<1>4. /\ u \in Snapshot
      /\ u.revision = s.revision /\ u.lease = s.lease
      /\ u.cancellationRequested = s.cancellationRequested
  <2> HIDE DEF waiting
  <2> QED  BY <1>1, <1>2 DEF Snapshot
<1>5. n = t \/ n = u
  BY DEF FinishCompensationFailure
<1> QED
  <2> HIDE DEF t, u
  <2> QED  BY <1>3, <1>4, <1>5

\* A plan: a candidate and whether its commit releases the lease.
PlanFits(s, plan) ==
    /\ plan.next \in Snapshot
    /\ plan.release \in BOOLEAN
    /\ plan.next.revision = s.revision /\ plan.next.lease = s.lease
    /\ plan.next.cancellationRequested = s.cancellationRequested
    /\ ~plan.release => ~IsWorkflowTerminal(plan.next)

\* Starting a handler only moves counters and keys of its step.
LEMMA StartTypes ==
    ASSUME NEW step \in StepSnapshot
    PROVE  StartForward(step) \in StepSnapshot /\ StartCompensation(step) \in StepSnapshot
<1>1. step.has \ {"retryAt", "error"} \in SUBSET {"output", "retryAt", "error"}
  BY DEF StepSnapshot
<1>2. step.attempts + 1 \in Nat /\ step.compensationAttempts + 1 \in Nat
  BY DEF StepSnapshot
<1>3. StartForward(step) \in StepSnapshot
  BY <1>1, <1>2 DEF StepSnapshot, StepStates, StartForward
<1>4. StartCompensation(step) \in StepSnapshot
  BY <1>1, <1>2 DEF StepSnapshot, StepStates, StartCompensation
<1> QED  BY <1>3, <1>4

\* Every plan of execute fits the claimed snapshot.
LEMMA ExecuteFits ==
    ASSUME NEW s \in Snapshot, NEW plan \in Execute(s)
    PROVE  PlanFits(s, plan)
<1> DEFINE i == CHOOSE k \in Steps : /\ s.steps[k].state # "committed"
                                     /\ \A j \in 1..(k - 1) : s.steps[j].state = "committed"
           t == [s EXCEPT !.state = "running", !.steps[i] = StartForward(@)]
<1>1. CASE \A k \in Steps : s.steps[k].state = "committed"
  <2>1. plan = Release([s EXCEPT !.state = "completed"])
    BY <1>1 DEF Execute
  <2> QED  BY <2>1 DEF Release, PlanFits, Snapshot, WorkflowStates
<1>2. CASE ~(\A k \in Steps : s.steps[k].state = "committed") /\ s.steps[i].state = "running"
  <2>1. \E n \in FinishForwardFailure(s, i) : plan = Release(n)
    BY <1>2 DEF Execute
  <2> HIDE DEF i
  <2> QED  BY <2>1, ForwardFailureKeeps DEF Release, PlanFits
<1>3. CASE ~(\A k \in Steps : s.steps[k].state = "committed") /\ s.steps[i].state # "running"
  <2>1. plan = Hold(t)
    BY <1>3 DEF Execute
  <2> HIDE DEF i
  <2>2. i \in Steps => StartForward(s.steps[i]) \in StepSnapshot
    BY StartTypes DEF Snapshot
  <2>3. t \in Snapshot /\ t.state = "running" /\ t.revision = s.revision
        /\ t.lease = s.lease /\ t.cancellationRequested = s.cancellationRequested
    BY <2>2 DEF Snapshot, WorkflowStates
  <2> QED  BY <2>1, <2>3 DEF Hold, PlanFits, IsWorkflowTerminal
<1> QED  BY <1>1, <1>2, <1>3

\* Every plan of compensate fits the claimed snapshot.
LEMMA CompensateFits ==
    ASSUME NEW s \in Snapshot, NEW plan \in Compensate(s)
    PROVE  PlanFits(s, plan)
<1> DEFINE open == {k \in Compensable :
                      s.steps[k].state \in {"committed", "compensation_waiting_retry", "compensating"}}
           i == CHOOSE k \in open : \A j \in open : j <= k
           t == [s EXCEPT !.state = "compensating", !.steps[i] = StartCompensation(@)]
<1>1. CASE open = {}
  <2>1. plan = Release([s EXCEPT !.state = IF s.cancellationRequested
                                           THEN "cancelled" ELSE "compensated"])
    BY <1>1 DEF Compensate
  <2> QED  BY <2>1 DEF Release, PlanFits, Snapshot, WorkflowStates
<1>2. CASE open # {} /\ s.steps[i].state = "compensating"
  <2>1. \E n \in FinishCompensationFailure(s, i) : plan = Release(n)
    BY <1>2 DEF Compensate
  <2> HIDE DEF i
  <2> QED  BY <2>1, CompensationFailureKeeps DEF Release, PlanFits
<1>3. CASE open # {} /\ s.steps[i].state # "compensating"
  <2>1. plan = Hold(t)
    BY <1>3 DEF Compensate
  <2> HIDE DEF i
  <2>2. i \in Steps => StartCompensation(s.steps[i]) \in StepSnapshot
    BY StartTypes DEF Snapshot
  <2>3. t \in Snapshot /\ t.state = "compensating" /\ t.revision = s.revision
        /\ t.lease = s.lease /\ t.cancellationRequested = s.cancellationRequested
    BY <2>2 DEF Snapshot, WorkflowStates
  <2> QED  BY <2>1, <2>3 DEF Hold, PlanFits, IsWorkflowTerminal
<1> QED  BY <1>1, <1>2, <1>3

\* Every plan of advance fits the claimed snapshot.
LEMMA AdvanceFits ==
    ASSUME NEW s \in Snapshot, NEW plan \in Advance(s)
    PROVE  PlanFits(s, plan)
<1>1. DropForwardRetry(s) \in Snapshot
      /\ DropForwardRetry(s).revision = s.revision
      /\ DropForwardRetry(s).lease = s.lease
      /\ DropForwardRetry(s).cancellationRequested = s.cancellationRequested
  <2>1. \A i \in Steps : [s.steps[i] EXCEPT !.state = "pending",
                                            !.has = @ \ {"retryAt", "error"}] \in StepSnapshot
    <3> SUFFICES ASSUME NEW step \in StepSnapshot
                 PROVE  [step EXCEPT !.state = "pending",
                                     !.has = @ \ {"retryAt", "error"}] \in StepSnapshot
      BY DEF Snapshot
    <3>1. step.has \ {"retryAt", "error"} \in SUBSET {"output", "retryAt", "error"}
      BY DEF StepSnapshot
    <3> QED  BY <3>1 DEF StepSnapshot, StepStates
  <2> QED  BY <2>1 DEF DropForwardRetry, Snapshot
<1>2. \/ plan = Release(BeginCompensationOrCancel(DropForwardRetry(s), TRUE))
      \/ plan \in Compensate(s)
      \/ plan \in Execute(s)
  BY DEF Advance
<1>3. CASE plan = Release(BeginCompensationOrCancel(DropForwardRetry(s), TRUE))
  <2> DEFINE d == DropForwardRetry(s)
             b == BeginCompensationOrCancel(d, TRUE)
  <2>1. b \in Snapshot /\ b.revision = d.revision /\ b.lease = d.lease
        /\ b.cancellationRequested = d.cancellationRequested
    BY <1>1, BeginKeeps
  <2>2. plan.next = b /\ plan.release = TRUE
    BY <1>3 DEF Release
  <2> QED  BY <1>1, <2>1, <2>2 DEF PlanFits
<1> QED  BY <1>2, <1>3, CompensateFits, ExecuteFits

(***************************************************************************)
(* The inductive invariant.                                                *)
(***************************************************************************)
Holds(ws) == ws.pc \in {"committing", "handling", "rereading"}

\* What row r guarantees to a call whose token is on it.
Current(r, s) ==
    /\ r.state = s.state
    /\ r.steps = s.steps
    /\ s.cancellationRequested => r.cancellationRequested
    /\ r.revision = s.revision + (IF r.cancellationRequested /\ ~s.cancellationRequested
                                  THEN 1 ELSE 0)

WorkerInv(r, ws) ==
    /\ ws.pc # "idle" => /\ ws.snap.revision <= r.revision
                         /\ ws.snap.revision = r.revision => ws.snap = r
    /\ ws.pc = "observed" => ~IsWorkflowTerminal(ws.snap)
    /\ Holds(ws) => ws.snap.lease # NoLease /\ ws.snap.lease <= r.revision
    /\ Holds(ws) /\ ws.snap.lease = r.lease => Current(r, ws.snap)
    /\ ws.pc = "committing" =>
          /\ ws.snap.cancellationRequested => ws.next.cancellationRequested
          /\ ~ws.release => ~IsWorkflowTerminal(ws.next)

WorkersInv == \A w \in Workers : WorkerInv(row, worker[w])

TokensDiffer ==
    \A w, u \in Workers :
        w # u /\ Holds(worker[w]) /\ Holds(worker[u]) =>
            worker[w].snap.lease # worker[u].snap.lease

CancellerInv(r, c) ==
    c.pc = "requesting" => /\ c.revision <= r.revision
                           /\ c.revision = r.revision => ~r.cancellationRequested

CancellersInv == \A c \in Cancellers : CancellerInv(row, canceller[c])

IInv ==
    /\ TypeOK
    /\ WorkersInv
    /\ TokensDiffer
    /\ CancellersInv
    /\ IsWorkflowTerminal(row) => row.lease = NoLease
    /\ RowIsReadable

(***************************************************************************)
(* Validity depends on the states and keys of the steps, the workflow      *)
(* state and, for completed, failed and cancelled only, on the flag.       *)
(***************************************************************************)

\* A store may merge a cancellation into any valid snapshot that is neither
\* completed nor failed, and may change revision and lease of every one.
LEMMA ValidUnderCancellation ==
    ASSUME NEW s \in Snapshot, NEW t \in Snapshot,
           t.state = s.state, t.steps = s.steps,
           s.cancellationRequested => t.cancellationRequested,
           s.state \in TerminalForward => t.cancellationRequested = s.cancellationRequested,
           ValidSnapshot(s)
    PROVE  ValidSnapshot(t)
<1>1. \A m, o : AssertForwardBoundary(t, m, o) <=> AssertForwardBoundary(s, m, o)
  BY Zenon DEF AssertForwardBoundary
<1>2. Active(t) = Active(s) /\ \A m : InState(t, m) = InState(s, m)
  BY Zenon DEF Active, InState
<1>3. \A k : ReverseOrderAround(t, k) <=> ReverseOrderAround(s, k)
  BY Zenon DEF ReverseOrderAround
<1>4. AssertCompensationBoundary(s) => AssertCompensationBoundary(t)
  BY Zenon, <1>2, <1>3 DEF AssertCompensationBoundary
<1>5. AssertStateBoundary(t)
  BY <1>1, <1>4 DEF ValidSnapshot, AssertWorkflowSnapshot, AssertStateBoundary, TerminalForward
<1>6. \A i \in Steps : AssertStep(i, t.steps[i])
  BY DEF ValidSnapshot, AssertWorkflowSnapshot
<1>7. MatchesDefinition(t)
  BY Zenon, <1>2 DEF ValidSnapshot, MatchesDefinition
<1> QED  BY <1>5, <1>6, <1>7 DEF ValidSnapshot, AssertWorkflowSnapshot

\* start() writes a valid snapshot.
LEMMA InitialSnapshotFits == InitialSnapshot \in Snapshot /\ ValidSnapshot(InitialSnapshot)
<1> DEFINE p == [state |-> "pending", attempts |-> 0, compensationAttempts |-> 0, has |-> {}]
<1>1. p \in StepSnapshot
  BY DEF StepSnapshot, StepStates
<1>2. InitialSnapshot \in Snapshot
  BY <1>1 DEF InitialSnapshot, Snapshot, WorkflowStates, NoLease
<1>3. /\ InitialSnapshot.state = "pending"
      /\ \A i \in Steps : InitialSnapshot.steps[i] = p
  BY DEF InitialSnapshot
<1>4. \A i \in Steps : AssertStep(i, InitialSnapshot.steps[i])
  BY <1>3 DEF AssertStep, OutputStates, AttemptStates, CompensationAttemptStates,
              WaitingStates, ErrorStates
<1>5. AssertStateBoundary(InitialSnapshot)
  BY <1>3 DEF AssertStateBoundary
<1>6. MatchesDefinition(InitialSnapshot)
  BY <1>3, DefinitionAssumption DEF MatchesDefinition
<1> QED  BY <1>2, <1>4, <1>5, <1>6 DEF ValidSnapshot, AssertWorkflowSnapshot

\* The initial state satisfies the invariant.
LEMMA InitIInv == Init => IInv
<1> SUFFICES ASSUME Init PROVE IInv
  OBVIOUS
<1>1. \A w \in Workers : worker[w] = IdleWorker("none")
  BY DEF Init
<1>2. IdleWorker("none") \in WorkerState /\ IdleWorker("none").pc = "idle"
  BY InitialSnapshotFits DEF IdleWorker, WorkerState, Errors
<1>3. TypeOK
  <2>1. row \in Snapshot /\ worker \in [Workers -> WorkerState]
    BY <1>2, InitialSnapshotFits DEF Init
  <2>2. canceller \in [Cancellers -> [pc : {"start", "requesting", "returned"}, revision : Nat]]
    BY DEF Init
  <2>3. crashes \in 0..MaxCrashes /\ expiries \in 0..MaxExpiries
    BY BoundsAssumption DEF Init
  <2> QED  BY <2>1, <2>2, <2>3 DEF Init, TypeOK
<1>4. WorkersInv /\ TokensDiffer
  BY <1>1, <1>2 DEF WorkersInv, WorkerInv, TokensDiffer, Holds
<1>5. CancellersInv
  BY DEF Init, CancellersInv, CancellerInv
<1>6. ~IsWorkflowTerminal(row)
  BY DEF Init, InitialSnapshot, IsWorkflowTerminal
<1>7. RowIsReadable
  BY InitialSnapshotFits DEF Init, RowIsReadable
<1> QED  BY <1>3, <1>4, <1>5, <1>6, <1>7 DEF IInv

(***************************************************************************)
(* Two kinds of steps: those that only move one call, and those that write *)
(* the row.                                                                *)
(***************************************************************************)
RestOK ==
    /\ leaseLive \in BOOLEAN /\ retryDue \in BOOLEAN
    /\ crashes \in 0..MaxCrashes /\ expiries \in 0..MaxExpiries
    /\ runs \in [Steps -> Nat] /\ undos \in [Steps -> Nat] /\ late \in Nat

\* A call that goes idle satisfies its part of the invariant.
LEMMA IdleFits ==
    ASSUME NEW e \in Errors, NEW r
    PROVE  /\ IdleWorker(e) \in WorkerState
           /\ IdleWorker(e).pc = "idle"
           /\ WorkerInv(r, IdleWorker(e)) /\ ~Holds(IdleWorker(e))
  BY InitialSnapshotFits DEF IdleWorker, WorkerState, WorkerInv, Holds

\* A step of one call that leaves the row alone and draws no new token.
LEMMA LocalStep ==
    ASSUME IInv, RestOK', row' = row, canceller' = canceller,
           NEW w \in Workers, NEW new \in WorkerState,
           worker' = [worker EXCEPT ![w] = new],
           WorkerInv(row, new),
           Holds(new) => Holds(worker[w]) /\ new.snap.lease = worker[w].snap.lease
    PROVE  IInv'
<1>1. worker' \in [Workers -> WorkerState]
  BY DEF IInv, TypeOK
<1>2. TypeOK'
  BY <1>1 DEF IInv, TypeOK, RestOK
<1>3. \A u \in Workers : worker'[u] = IF u = w THEN new ELSE worker[u]
  BY DEF IInv, TypeOK
<1>4. WorkersInv'
  BY <1>3 DEF IInv, WorkersInv
<1>5. TokensDiffer'
  BY <1>3 DEF IInv, TokensDiffer
<1>6. CancellersInv'
  BY DEF IInv, CancellersInv
<1> QED  BY <1>2, <1>4, <1>5, <1>6 DEF IInv, RowIsReadable

\* A call keeps its part of the invariant when another actor writes the row,
\* provided the row then carries another token or still what the call knows.
LEMMA ForeignWrite ==
    ASSUME NEW r \in Snapshot, NEW q \in Snapshot, NEW ws \in WorkerState,
           WorkerInv(r, ws), q.revision > r.revision,
           Holds(ws) => ws.snap.lease # q.lease \/ Current(q, ws.snap)
    PROVE  WorkerInv(q, ws)
<1>1. r.revision \in Nat /\ q.revision \in Nat
      /\ ws.snap.revision \in Nat /\ ws.snap.lease \in Nat
  BY DEF Snapshot, WorkerState
<1> QED  BY <1>1 DEF WorkerInv, Holds

\* A canceller that read before a write knows that it read an older revision.
LEMMA CancellersAfterWrite ==
    ASSUME IInv, NEW q \in Snapshot, q.revision > row.revision
    PROVE  \A c \in Cancellers : CancellerInv(q, canceller[c])
<1> SUFFICES ASSUME NEW c \in Cancellers PROVE CancellerInv(q, canceller[c])
  OBVIOUS
<1>1. row.revision \in Nat /\ q.revision \in Nat /\ canceller[c].revision \in Nat
  BY DEF IInv, TypeOK, Snapshot
<1> QED  BY <1>1 DEF IInv, CancellersInv, CancellerInv

(***************************************************************************)
(* The three writes of the row.                                            *)
(***************************************************************************)

\* claim raises the revision and draws it as the token.
LEMMA ClaimedFits ==
    ASSUME NEW s \in Snapshot
    PROVE  /\ Claimed(s) \in Snapshot
           /\ Claimed(s).revision = s.revision + 1 /\ Claimed(s).lease = s.revision + 1
           /\ Claimed(s).state = s.state /\ Claimed(s).steps = s.steps
           /\ Claimed(s).cancellationRequested = s.cancellationRequested
<1>1. s.revision + 1 \in Nat
  BY DEF Snapshot
<1> QED  BY <1>1 DEF Claimed, Snapshot

\* requestCancellation raises the revision and sets the flag.
LEMMA CancelledFits ==
    ASSUME NEW s \in Snapshot
    PROVE  /\ CancelledRow(s) \in Snapshot
           /\ CancelledRow(s).revision = s.revision + 1 /\ CancelledRow(s).lease = s.lease
           /\ CancelledRow(s).state = s.state /\ CancelledRow(s).steps = s.steps
           /\ CancelledRow(s).cancellationRequested = TRUE
<1>1. s.revision + 1 \in Nat
  BY DEF Snapshot
<1> QED  BY <1>1 DEF CancelledRow, Snapshot

\* commit writes the candidate over the row, one revision up, and keeps a
\* cancellation that either of them carries.
LEMMA CommittedFits ==
    ASSUME NEW r \in Snapshot, NEW n \in Snapshot, NEW release \in BOOLEAN
    PROVE  LET q == CommittedRow(r, n, release) IN
           /\ q \in Snapshot
           /\ q.revision = r.revision + 1
           /\ q.lease = IF release THEN NoLease ELSE r.lease
           /\ q.state = n.state /\ q.steps = n.steps
           /\ q.cancellationRequested = (n.cancellationRequested \/ r.cancellationRequested)
<1>1. r.revision + 1 \in Nat /\ NoLease \in Nat
  BY DEF Snapshot, NoLease
<1>2. (n.cancellationRequested \/ r.cancellationRequested) \in BOOLEAN
  BY DEF Snapshot
<1>3. (IF release THEN NoLease ELSE r.lease) \in Nat
  BY <1>1 DEF Snapshot
<1> QED  BY <1>1, <1>2, <1>3 DEF CommittedRow, Snapshot

\* An accepted commit comes from the call whose token the row carries, and
\* absorbs a cancellation only into a candidate that is not an end.
LEMMA AcceptedCommit ==
    ASSUME NEW r, NEW live \in BOOLEAN, NEW n, NEW v, NEW token,
           CommitOutcome(r, live, n, v, token) = "ok"
    PROVE  /\ r.lease = token /\ live
           /\ r.revision = v \/ n.state \notin TerminalForward
  BY DEF CommitOutcome, CancellationRace

\* Whatever sends a call back to idle keeps the invariant.
LEMMA GoesIdle ==
    ASSUME IInv, RestOK', row' = row, canceller' = canceller,
           NEW w \in Workers, NEW e \in Errors,
           worker' = [worker EXCEPT ![w] = IdleWorker(e)]
    PROVE  IInv'
<1> DEFINE new == IdleWorker(e)
<1>1. new \in WorkerState /\ WorkerInv(row, new) /\ ~Holds(new)
  BY IdleFits
<1>2. worker' = [worker EXCEPT ![w] = new]
  OBVIOUS
<1> HIDE DEF new
<1> QED  BY <1>1, <1>2, LocalStep

\* processResult reads the row.
LEMMA ObserveStep ==
    ASSUME IInv, NEW w \in Workers, Observe(w)
    PROVE  IInv'
<1> DEFINE new == [IdleWorker("none") EXCEPT !.pc = "observed", !.snap = row]
<1>1. "none" \in Errors /\ row \in Snapshot
  BY DEF Errors, IInv, TypeOK
<1>2. new \in WorkerState /\ new.pc = "observed" /\ new.snap = row
  BY <1>1, InitialSnapshotFits DEF IdleWorker, WorkerState
<1>3. ~Holds(new) /\ WorkerInv(row, new)
  BY <1>1, <1>2 DEF Holds, WorkerInv, Observe, Snapshot
<1>4. RestOK' /\ row' = row /\ canceller' = canceller
      /\ worker' = [worker EXCEPT ![w] = new]
  BY DEF Observe, IInv, TypeOK, RestOK, history
<1> HIDE DEF new
<1> QED  BY <1>2, <1>3, <1>4, LocalStep

\* The claim: the row it takes is the one that was observed.
LEMMA ClaimStep ==
    ASSUME IInv, NEW w \in Workers, Claim(w)
    PROVE  IInv'
<1>1. row \in Snapshot /\ worker[w] \in WorkerState /\ WorkerInv(row, worker[w])
  BY DEF IInv, TypeOK, WorkersInv
<1>2. worker[w].snap = row /\ ~IsWorkflowTerminal(row)
  BY <1>1 DEF Claim, ClaimAllowed, WorkerInv
<1>3. /\ row' \in Snapshot
      /\ row'.revision = row.revision + 1 /\ row'.lease = row.revision + 1
      /\ row'.state = row.state /\ row'.steps = row.steps
      /\ row'.cancellationRequested = row.cancellationRequested
  BY <1>1, ClaimedFits DEF Claim
<1>4. PICK plan \in Advance(row') :
        worker' = [worker EXCEPT ![w] = [@ EXCEPT !.pc = "committing", !.snap = row',
                                                  !.next = plan.next, !.release = plan.release]]
  BY DEF Claim
<1>5. PlanFits(row', plan)
  BY <1>3, AdvanceFits
<1> DEFINE new == [worker[w] EXCEPT !.pc = "committing", !.snap = row',
                                    !.next = plan.next, !.release = plan.release]
<1>6. /\ new \in WorkerState /\ new.pc = "committing" /\ new.snap = row'
      /\ new.next = plan.next /\ new.release = plan.release
  BY <1>1, <1>3, <1>5 DEF WorkerState, PlanFits
<1>7. worker' = [worker EXCEPT ![w] = new]
  BY <1>4
<1>8. \A u \in Workers : worker'[u] = IF u = w THEN new ELSE worker[u]
  BY <1>7 DEF IInv, TypeOK
<1> HIDE DEF new
<1>9. row.revision \in Nat /\ row'.revision > row.revision
      /\ row'.revision \in Nat /\ row'.lease # NoLease
  BY <1>1, <1>3 DEF Snapshot, NoLease
<1>10. WorkerInv(row', new)
  BY <1>3, <1>5, <1>6, <1>9 DEF WorkerInv, Holds, Current, PlanFits
<1>11. ASSUME NEW u \in Workers, u # w
       PROVE  /\ WorkerInv(row', worker[u])
              /\ Holds(worker[u]) => worker[u].snap.lease # row'.lease
  <2>1. worker[u] \in WorkerState /\ WorkerInv(row, worker[u])
    BY DEF IInv, TypeOK, WorkersInv
  <2>2. Holds(worker[u]) => worker[u].snap.lease # row'.lease
    <3>1. worker[u].snap.lease \in Nat
      BY <2>1 DEF WorkerState, Snapshot
    <3> QED  BY <2>1, <1>3, <1>9, <3>1 DEF WorkerInv
  <2> QED  BY <2>1, <2>2, <1>1, <1>3, <1>9, ForeignWrite
<1>12. WorkersInv'
  BY <1>8, <1>10, <1>11 DEF WorkersInv
<1>13. TokensDiffer'
  BY <1>6, <1>8, <1>11 DEF TokensDiffer, IInv
<1>14. CancellersInv'
  <2>1. canceller' = canceller
    BY DEF Claim
  <2> QED  BY <1>3, <1>9, <2>1, CancellersAfterWrite DEF CancellersInv
<1>15. ~IsWorkflowTerminal(row')
  BY <1>2, <1>3 DEF IsWorkflowTerminal
<1>16. RowIsReadable'
  <2>1. ValidSnapshot(row)
    BY DEF IInv, RowIsReadable
  <2> QED  BY <1>1, <1>3, <2>1, ValidUnderCancellation DEF RowIsReadable
<1>17. TypeOK'
  <2>1. worker' \in [Workers -> WorkerState]
    BY <1>6, <1>7 DEF IInv, TypeOK
  <2> QED  BY <1>3, <2>1 DEF Claim, IInv, TypeOK, history
<1> QED  BY <1>12, <1>13, <1>14, <1>15, <1>16, <1>17 DEF IInv

\* What a commit of call w does to the row, and that it disturbs no other call.
LEMMA CommitWritesFits ==
    ASSUME IInv, NEW w \in Workers, CommitWrites(w)
    PROVE  /\ row' \in Snapshot /\ row'.revision > row.revision
           /\ row'.revision \in Nat
           /\ row'.state = worker[w].next.state /\ row'.steps = worker[w].next.steps
           /\ row'.lease = IF worker[w].release THEN NoLease ELSE worker[w].snap.lease
           /\ worker[w].snap.lease # NoLease
           /\ worker[w].snap.lease <= row'.revision
           /\ ValidSnapshot(row')
           /\ \A u \in Workers \ {w} : WorkerInv(row', worker[u])
           /\ \A c \in Cancellers : CancellerInv(row', canceller[c])
<1> DEFINE ws == worker[w]
<1>1. /\ row \in Snapshot /\ ws \in WorkerState /\ WorkerInv(row, ws)
      /\ leaseLive \in BOOLEAN
  BY DEF IInv, TypeOK, WorkersInv
<1>2. ws.pc = "committing" /\ Holds(ws) /\ ValidSnapshot(ws.next)
      /\ row' = CommittedRow(row, ws.next, ws.release)
  BY DEF CommitWrites, Holds
<1>3. ws.next \in Snapshot /\ ws.snap \in Snapshot /\ ws.release \in BOOLEAN
  BY <1>1 DEF WorkerState
<1>4. /\ row' \in Snapshot
      /\ row'.revision = row.revision + 1
      /\ row'.lease = IF ws.release THEN NoLease ELSE row.lease
      /\ row'.state = ws.next.state /\ row'.steps = ws.next.steps
      /\ row'.cancellationRequested = (ws.next.cancellationRequested \/ row.cancellationRequested)
  BY <1>1, <1>2, <1>3, CommittedFits
<1>5. row.lease = ws.snap.lease
      /\ (row.revision = ws.snap.revision \/ ws.next.state \notin TerminalForward)
  BY <1>1, AcceptedCommit DEF CommitWrites, Outcome
<1>6. row.revision \in Nat /\ row'.revision > row.revision /\ row'.revision \in Nat
      /\ ws.snap.lease \in Nat /\ ws.snap.lease # NoLease /\ ws.snap.lease <= row'.revision
  BY <1>1, <1>2, <1>3, <1>4 DEF Snapshot, WorkerInv
<1>7. ValidSnapshot(row')
  <2>1. ws.next.state \in TerminalForward =>
          row'.cancellationRequested = ws.next.cancellationRequested
    <3> SUFFICES ASSUME ws.next.state \in TerminalForward, row.cancellationRequested
                 PROVE  ws.next.cancellationRequested
      BY <1>1, <1>3, <1>4 DEF Snapshot
    <3>1. ws.snap = row
      BY <1>1, <1>2, <1>5 DEF WorkerInv
    <3> QED  BY <1>1, <1>2, <3>1 DEF WorkerInv
  <2>2. ws.next.cancellationRequested => row'.cancellationRequested
    BY <1>4
  <2> QED  BY <1>2, <1>3, <1>4, <2>1, <2>2, ValidUnderCancellation
<1>8. ASSUME NEW u \in Workers \ {w}
      PROVE  WorkerInv(row', worker[u])
  <2>1. worker[u] \in WorkerState /\ WorkerInv(row, worker[u])
    BY DEF IInv, TypeOK, WorkersInv
  <2>2. Holds(worker[u]) => worker[u].snap.lease # row'.lease
    <3> SUFFICES ASSUME Holds(worker[u]) PROVE worker[u].snap.lease # row'.lease
      OBVIOUS
    <3>1. worker[u].snap.lease # ws.snap.lease
      BY <1>2 DEF IInv, TokensDiffer
    <3>2. worker[u].snap.lease # NoLease
      BY <2>1 DEF WorkerInv
    <3> QED  BY <1>4, <1>5, <3>1, <3>2
  <2> QED  BY <1>1, <1>4, <1>6, <2>1, <2>2, ForeignWrite
<1>9. \A c \in Cancellers : CancellerInv(row', canceller[c])
  BY <1>4, <1>6, CancellersAfterWrite
<1> QED  BY <1>4, <1>5, <1>6, <1>7, <1>8, <1>9

\* A commit that ends the call, or starts its handler.
LEMMA CommitStep ==
    ASSUME IInv, NEW w \in Workers, CommitWrites(w),
           RestOK', canceller' = canceller,
           NEW new \in WorkerState, worker' = [worker EXCEPT ![w] = new],
           new.pc = "idle" \/ (~worker[w].release /\ new.pc = "handling" /\ new.snap = row')
    PROVE  IInv'
<1>1. /\ row' \in Snapshot /\ row'.revision > row.revision
      /\ row'.revision \in Nat
      /\ row'.state = worker[w].next.state
      /\ row'.lease = IF worker[w].release THEN NoLease ELSE worker[w].snap.lease
      /\ worker[w].snap.lease # NoLease
      /\ worker[w].snap.lease <= row'.revision
      /\ ValidSnapshot(row')
      /\ \A u \in Workers \ {w} : WorkerInv(row', worker[u])
      /\ \A c \in Cancellers : CancellerInv(row', canceller[c])
  BY CommitWritesFits
<1>2. \A u \in Workers : worker'[u] = IF u = w THEN new ELSE worker[u]
  BY DEF IInv, TypeOK
<1>3. worker[w].pc = "committing" /\ Holds(worker[w]) /\ WorkerInv(row, worker[w])
  BY DEF CommitWrites, Holds, IInv, WorkersInv
<1>4. Holds(new) => new.snap = row' /\ row'.lease = worker[w].snap.lease
  BY <1>1 DEF Holds
<1>5. WorkerInv(row', new)
  BY <1>1, <1>4 DEF WorkerInv, Holds, Current
<1>6. WorkersInv'
  BY <1>1, <1>2, <1>5 DEF WorkersInv
<1>7. TokensDiffer'
  BY <1>2, <1>3, <1>4 DEF TokensDiffer, IInv
<1>8. CancellersInv'
  BY <1>1 DEF CancellersInv
<1>9. IsWorkflowTerminal(row') => row'.lease = NoLease
  BY <1>1, <1>3 DEF WorkerInv, IsWorkflowTerminal
<1>10. TypeOK'
  <2>1. worker' \in [Workers -> WorkerState]
    BY DEF IInv, TypeOK
  <2> QED  BY <1>1, <2>1 DEF IInv, TypeOK, RestOK
<1> QED  BY <1>1, <1>6, <1>7, <1>8, <1>9, <1>10 DEF IInv, RowIsReadable

\* A call that keeps its snapshot and its token, with a new candidate.
LEMMA Proceeds ==
    ASSUME IInv, NEW w \in Workers, Holds(worker[w]), row' = row, canceller' = canceller, RestOK',
           NEW new \in WorkerState, worker' = [worker EXCEPT ![w] = new],
           Holds(new), new.snap = worker[w].snap,
           new.pc = "committing" =>
               /\ new.snap.cancellationRequested => new.next.cancellationRequested
               /\ ~new.release => ~IsWorkflowTerminal(new.next)
    PROVE  IInv'
<1>1. WorkerInv(row, worker[w])
  BY DEF IInv, WorkersInv
<1>2. WorkerInv(row, new)
  BY <1>1 DEF WorkerInv, Holds
<1> QED  BY <1>2, LocalStep

\* The end of a handler: the candidate is committed with the lease released.
LEMMA CommitNextStep ==
    ASSUME IInv, NEW w \in Workers, worker[w].pc = "handling", NEW n \in Snapshot,
           CommitNext(w, n), row' = row, canceller' = canceller, RestOK',
           worker[w].snap.cancellationRequested => n.cancellationRequested
    PROVE  IInv'
<1> DEFINE new == [worker[w] EXCEPT !.pc = "committing", !.next = n,
                                    !.release = TRUE, !.renewed = FALSE]
<1>1. worker[w] \in WorkerState
  BY DEF IInv, TypeOK
<1>2. /\ new \in WorkerState /\ new.pc = "committing" /\ new.snap = worker[w].snap
      /\ new.next = n /\ new.release = TRUE
  BY <1>1 DEF WorkerState
<1>3. worker' = [worker EXCEPT ![w] = new]
  BY DEF CommitNext
<1> HIDE DEF new
<1>4. Holds(worker[w]) /\ Holds(new)
  BY <1>2 DEF Holds
<1> QED  BY <1>2, <1>3, <1>4, Proceeds

\* The candidate of a handler that returned a value.
LEMMA HandlerSucceedsStep ==
    ASSUME IInv, NEW w \in Workers, HandlerSucceeds(w)
    PROVE  IInv'
<1> DEFINE s == worker[w].snap
           i == HandledStep(s)
           done == [s EXCEPT !.steps[i] = Recorded(@),
                             !.cancellationRequested = @ \/ CancellationObserved(w)]
           undone == [s EXCEPT !.steps[i] = [@ EXCEPT !.state = "compensated"]]
<1>1. s \in Snapshot /\ worker[w].renewed \in BOOLEAN
  BY DEF IInv, TypeOK, WorkerState
<1>2. RestOK' /\ row' = row /\ canceller' = canceller /\ worker[w].pc = "handling"
      /\ (CommitNext(w, done) \/ CommitNext(w, undone))
  BY DEF HandlerSucceeds, IInv, TypeOK, RestOK, history
<1> HIDE DEF i
<1>3. i \in Steps => [s.steps[i] EXCEPT !.state = "compensated"] \in StepSnapshot
  BY <1>1 DEF Snapshot, StepSnapshot, StepStates
<1>4. i \in Steps => Recorded(s.steps[i]) \in StepSnapshot
  BY <1>1 DEF Snapshot, StepSnapshot, StepStates, Recorded
<1>5. (s.cancellationRequested \/ CancellationObserved(w)) \in BOOLEAN
  BY <1>1 DEF Snapshot, CancellationObserved, Forward
<1>6. done \in Snapshot /\ (s.cancellationRequested => done.cancellationRequested)
  BY <1>1, <1>4, <1>5 DEF Snapshot
<1>7. undone \in Snapshot /\ (s.cancellationRequested => undone.cancellationRequested)
  BY <1>1, <1>3 DEF Snapshot
<1>8. CASE CommitNext(w, done)
  <2> HIDE DEF done
  <2> QED  BY <1>2, <1>6, <1>8, CommitNextStep
<1>9. CASE CommitNext(w, undone)
  <2> HIDE DEF undone
  <2> QED  BY <1>2, <1>7, <1>9, CommitNextStep
<1> QED  BY <1>2, <1>8, <1>9

\* The candidates of a handler that failed keep an accepted cancellation.
LEMMA HandlerFailureFits ==
    ASSUME NEW w \in Workers, worker[w].snap \in Snapshot,
           NEW o \in BOOLEAN, NEW n \in HandlerFailure(w, o)
    PROVE  n \in Snapshot /\ (worker[w].snap.cancellationRequested => n.cancellationRequested)
<1> DEFINE s == worker[w].snap
           i == HandledStep(s)
           b == [s EXCEPT !.steps[i].state = "pending", !.cancellationRequested = TRUE]
<1>1. \/ n = BeginCompensationOrCancel(b, TRUE)
      \/ n \in FinishForwardFailure(s, i)
      \/ n \in FinishCompensationFailure(s, i)
  BY DEF HandlerFailure
<1> HIDE DEF i
<1>2. i \in Steps => [s.steps[i] EXCEPT !.state = "pending"] \in StepSnapshot
  BY DEF Snapshot, StepSnapshot, StepStates
<1>3. b \in Snapshot /\ b.cancellationRequested = TRUE
  BY <1>2 DEF Snapshot
<1>4. CASE n = BeginCompensationOrCancel(b, TRUE)
  <2> HIDE DEF b
  <2> QED  BY <1>3, <1>4, BeginKeeps
<1>5. CASE n \in FinishForwardFailure(s, i)
  BY <1>5, ForwardFailureKeeps
<1>6. CASE n \in FinishCompensationFailure(s, i)
  BY <1>6, CompensationFailureKeeps
<1> QED  BY <1>1, <1>4, <1>5, <1>6

\* The other ends of a handler.
LEMMA HandlerFailsStep ==
    ASSUME IInv, NEW w \in Workers, HandlerFails(w) \/ HandlerReturnsNonJson(w)
    PROVE  IInv'
<1>1. worker[w].snap \in Snapshot /\ CancellationObserved(w) \in BOOLEAN
  BY DEF IInv, TypeOK, WorkerState, CancellationObserved, Forward
<1>2. RestOK' /\ row' = row /\ canceller' = canceller /\ worker[w].pc = "handling"
  BY DEF HandlerFails, HandlerReturnsNonJson, IInv, TypeOK, RestOK, history
<1>3. PICK o \in BOOLEAN : \E n \in HandlerFailure(w, o) : CommitNext(w, n)
  BY <1>1 DEF HandlerFails, HandlerReturnsNonJson
<1> PICK n \in HandlerFailure(w, o) : CommitNext(w, n)
  BY <1>3
<1>4. n \in Snapshot /\ (worker[w].snap.cancellationRequested => n.cancellationRequested)
  BY <1>1, HandlerFailureFits
<1> QED  BY <1>2, <1>4, CommitNextStep

\* A refused commit ends the call or leads to the second read.
LEMMA CommitRefusedStep ==
    ASSUME IInv, NEW w \in Workers, CommitRefused(w)
    PROVE  IInv'
<1> DEFINE new == [worker[w] EXCEPT !.pc = "rereading"]
<1>1. worker[w] \in WorkerState /\ "none" \in Errors
  BY DEF IInv, TypeOK, Errors
<1>2. new \in WorkerState /\ new.pc = "rereading" /\ new.snap = worker[w].snap
  BY <1>1 DEF WorkerState
<1>3. RestOK' /\ row' = row /\ canceller' = canceller /\ Holds(worker[w])
  BY DEF CommitRefused, IInv, TypeOK, RestOK, history, Holds
<1>4. \/ worker' = [worker EXCEPT ![w] = new]
      \/ worker' = [worker EXCEPT ![w] = IdleWorker("none")]
  BY DEF CommitRefused
<1> HIDE DEF new
<1>5. Holds(new)
  BY <1>2 DEF Holds
<1> QED  BY <1>1, <1>2, <1>3, <1>4, <1>5, Proceeds, GoesIdle

\* The second read takes over the row, whose token is still the call's.
LEMMA RereadStep ==
    ASSUME IInv, NEW w \in Workers, Reread(w)
    PROVE  IInv'
<1> DEFINE ws == worker[w]
           failed == [ws.next EXCEPT !.revision = row.revision, !.lease = row.lease,
                                     !.cancellationRequested = TRUE]
           refused == IF ws.next.state = "failed" THEN failed ELSE row
           next == BeginCompensationOrCancel(refused, TRUE)
           new == [ws EXCEPT !.pc = "committing", !.snap = row, !.release = TRUE, !.next = next]
<1>1. ws \in WorkerState /\ "none" \in Errors /\ row \in Snapshot
  BY DEF IInv, TypeOK, Errors
<1>2. RestOK' /\ row' = row /\ canceller' = canceller /\ ws.pc = "rereading"
  BY DEF Reread, IInv, TypeOK, RestOK, history
<1>3. \/ worker' = [worker EXCEPT ![w] = IdleWorker("none")]
      \/ /\ row.cancellationRequested /\ row.lease = ws.snap.lease
         /\ worker' = [worker EXCEPT ![w] = new]
  BY DEF Reread
<1>4. CASE worker' = [worker EXCEPT ![w] = IdleWorker("none")]
  BY <1>1, <1>2, <1>4, GoesIdle
<1>5. CASE /\ row.cancellationRequested /\ row.lease = ws.snap.lease
           /\ worker' = [worker EXCEPT ![w] = new]
  <2>1. failed \in Snapshot /\ failed.cancellationRequested = TRUE
    BY <1>1 DEF WorkerState, Snapshot
  <2> HIDE DEF failed
  <2>2. refused \in Snapshot /\ refused.cancellationRequested
    BY <1>1, <1>5, <2>1
  <2> HIDE DEF refused
  <2>3. next \in Snapshot /\ next.cancellationRequested
    BY <2>2, BeginKeeps
  <2> HIDE DEF next
  <2>4. /\ new \in WorkerState /\ new.pc = "committing" /\ new.snap = row
        /\ new.release = TRUE /\ new.next = next
    BY <1>1, <2>3 DEF WorkerState
  <2>5. Holds(new) /\ Holds(ws)
    BY <1>2, <2>4 DEF Holds
  <2>6. WorkerInv(row, ws) /\ row.revision \in Nat
    BY <1>1 DEF IInv, WorkersInv, Snapshot
  <2>7. WorkerInv(row, new)
    BY <1>5, <2>3, <2>4, <2>5, <2>6 DEF WorkerInv, Current
  <2> HIDE DEF new
  <2> QED  BY <1>2, <1>5, <2>4, <2>5, <2>7, LocalStep
<1> QED  BY <1>3, <1>4, <1>5

\* A heartbeat only changes what the call knows about its lease.
LEMMA RenewStep ==
    ASSUME IInv, NEW w \in Workers, Renew(w) \/ RenewMisses(w)
    PROVE  IInv'
<1> DEFINE seen == [worker[w] EXCEPT !.renewed = row.cancellationRequested]
           lost == [worker[w] EXCEPT !.leaseLost = TRUE]
<1>1. worker[w] \in WorkerState /\ row.cancellationRequested \in BOOLEAN
  BY DEF IInv, TypeOK, Snapshot
<1>2. RestOK' /\ row' = row /\ canceller' = canceller /\ worker[w].pc = "handling"
      /\ (worker' = [worker EXCEPT ![w] = seen] \/ worker' = [worker EXCEPT ![w] = lost])
  BY DEF Renew, RenewMisses, IInv, TypeOK, RestOK, history
<1>3. seen \in WorkerState /\ seen.pc = worker[w].pc /\ seen.snap = worker[w].snap
  BY <1>1 DEF WorkerState
<1>4. lost \in WorkerState /\ lost.pc = worker[w].pc /\ lost.snap = worker[w].snap
  BY <1>1 DEF WorkerState
<1> HIDE DEF seen, lost
<1>5. Holds(worker[w]) /\ Holds(seen) /\ Holds(lost)
  BY <1>2, <1>3, <1>4 DEF Holds
<1> QED  BY <1>2, <1>3, <1>4, <1>5, Proceeds

\* A commit the store accepts.
LEMMA CommitAcceptedStep ==
    ASSUME IInv, NEW w \in Workers, CommitReleased(w) \/ CommitStarted(w)
    PROVE  IInv'
<1>1. worker[w] \in WorkerState /\ RestOK
  BY DEF IInv, TypeOK, RestOK
<1>2. CommitWrites(w) /\ canceller' = canceller
  BY DEF CommitReleased, CommitStarted
<1>3. row' \in Snapshot
  BY <1>2, CommitWritesFits
<1>4. RestOK'
  <2>1. CASE CommitReleased(w)
    BY <1>1, <2>1 DEF CommitReleased, CommitWrites, RestOK, WorkerState, history
  <2>2. CASE CommitStarted(w)
    <3>1. leaseLive' \in BOOLEAN /\ retryDue' \in BOOLEAN
          /\ crashes' \in 0..MaxCrashes /\ expiries' \in 0..MaxExpiries
      BY <1>1, <2>2 DEF CommitStarted, CommitWrites, RestOK, WorkerState
    <3>2. \E i : \/ runs' = [runs EXCEPT ![i] = @ + 1] /\ undos' = undos
                    /\ (late' = late + 1 \/ late' = late + 0)
                 \/ undos' = [undos EXCEPT ![i] = @ + 1] /\ runs' = runs /\ late' = late
                 \/ runs' = runs /\ undos' = undos /\ late' = late
      BY <2>2 DEF CommitStarted, history
    <3> QED  BY <1>1, <3>1, <3>2 DEF RestOK
  <2> QED  BY <2>1, <2>2
<1>5. \E new \in WorkerState :
         /\ worker' = [worker EXCEPT ![w] = new]
         /\ new.pc = "idle" \/ (~worker[w].release /\ new.pc = "handling" /\ new.snap = row')
  <2> DEFINE none == IdleWorker("none")
             contract == IdleWorker("store_contract")
             handling == [worker[w] EXCEPT !.pc = "handling", !.snap = row',
                                           !.next = InitialSnapshot]
  <2>1. /\ none \in WorkerState /\ none.pc = "idle"
        /\ contract \in WorkerState /\ contract.pc = "idle"
    BY IdleFits DEF Errors
  <2>2. handling \in WorkerState /\ handling.pc = "handling" /\ handling.snap = row'
    BY <1>1, <1>3, InitialSnapshotFits DEF WorkerState
  <2>3. \/ worker' = [worker EXCEPT ![w] = none]
        \/ worker' = [worker EXCEPT ![w] = contract]
        \/ ~worker[w].release /\ worker' = [worker EXCEPT ![w] = handling]
    BY DEF CommitReleased, CommitStarted
  <2> HIDE DEF none, contract, handling
  <2> QED  BY <2>1, <2>2, <2>3
<1> QED  BY <1>2, <1>4, <1>5, CommitStep

\* Steps that end a call without a write.
LEMMA EndingSteps ==
    ASSUME IInv, NEW w \in Workers,
           \/ ClaimConflict(w) \/ CommitInvalid(w) \/ HandlerLosesLease(w) \/ Crash(w)
    PROVE  IInv'
<1>1. "none" \in Errors /\ "invalid_snapshot" \in Errors
  BY DEF Errors
<1>2. RestOK'
  <2>1. crashes' \in 0..MaxCrashes
    BY BoundsAssumption
       DEF ClaimConflict, CommitInvalid, HandlerLosesLease, Crash, IInv, TypeOK
  <2> QED  BY <2>1 DEF ClaimConflict, CommitInvalid, HandlerLosesLease, Crash,
                       IInv, TypeOK, RestOK, history
<1>3. row' = row /\ canceller' = canceller
  BY DEF ClaimConflict, CommitInvalid, HandlerLosesLease, Crash
<1>4. \E e \in Errors : worker' = [worker EXCEPT ![w] = IdleWorker(e)]
  BY <1>1 DEF ClaimConflict, CommitInvalid, HandlerLosesLease, Crash
<1> QED  BY <1>2, <1>3, <1>4, GoesIdle

\* The callers of cancel().
LEMMA CancelStep ==
    ASSUME IInv, NEW c \in Cancellers, CancelReads(c) \/ CancelRequests(c)
    PROVE  IInv'
<1> DEFINE returned == [pc |-> "returned", revision |-> 0]
           requesting == [pc |-> "requesting", revision |-> row.revision]
<1>1. row \in Snapshot /\ row.revision \in Nat /\ canceller[c].revision \in Nat
  BY DEF IInv, TypeOK, Snapshot
<1>2. RestOK' /\ worker' = worker
  BY DEF CancelReads, CancelRequests, IInv, TypeOK, RestOK, history
<1>3. canceller' \in [Cancellers -> [pc : {"start", "requesting", "returned"}, revision : Nat]]
  BY <1>1 DEF CancelReads, CancelRequests, IInv, TypeOK
<1>4. \A d \in Cancellers \ {c} : canceller'[d] = canceller[d]
  BY DEF CancelReads, CancelRequests, IInv, TypeOK
<1>5. CASE row' = row
  <2>1. CancellerInv(row, canceller'[c])
    BY <1>1, <1>5 DEF CancelReads, CancelRequests, CancellerInv, IInv, TypeOK
  <2>2. CancellersInv'
    BY <1>4, <1>5, <2>1 DEF CancellersInv, IInv
  <2>3. TypeOK'
    BY <1>2, <1>3, <1>5 DEF TypeOK, RestOK, IInv
  <2> QED  BY <1>2, <1>5, <2>2, <2>3
           DEF IInv, WorkersInv, TokensDiffer, RowIsReadable
<1>6. CASE /\ CancelRequests(c) /\ row' = CancelledRow(row)
           /\ CancellationAllowed(row, canceller[c].revision)
  <2>1. /\ row' \in Snapshot
        /\ row'.revision = row.revision + 1 /\ row'.lease = row.lease
        /\ row'.state = row.state /\ row'.steps = row.steps
        /\ row'.cancellationRequested = TRUE
    BY <1>1, <1>6, CancelledFits
  <2>2. row'.revision > row.revision
    BY <1>1, <2>1
  <2>3. ~row.cancellationRequested /\ ~IsWorkflowTerminal(row)
    BY <1>6 DEF CancelRequests, CancellationAllowed, IInv, CancellersInv, CancellerInv
  <2>4. ASSUME NEW w \in Workers PROVE WorkerInv(row', worker[w])
    <3>1. worker[w] \in WorkerState /\ WorkerInv(row, worker[w])
      BY DEF IInv, TypeOK, WorkersInv
    <3>2. worker[w].snap \in Snapshot
      BY <3>1 DEF WorkerState
    <3>3. Current(row, worker[w].snap) => Current(row', worker[w].snap)
      BY <1>1, <2>1, <2>3, <3>2 DEF Current, Snapshot
    <3>4. Holds(worker[w]) => worker[w].snap.lease # row'.lease \/ Current(row', worker[w].snap)
      BY <2>1, <3>1, <3>3 DEF WorkerInv
    <3> QED  BY <1>1, <2>1, <2>2, <3>1, <3>4, ForeignWrite
  <2>5. CancellersInv'
    <3>1. CancellerInv(row', canceller'[c])
      BY <1>6 DEF CancelRequests, CancellerInv, IInv, TypeOK
    <3>2. \A d \in Cancellers : CancellerInv(row', canceller[d])
      BY <2>1, <2>2, CancellersAfterWrite
    <3> QED  BY <1>4, <3>1, <3>2 DEF CancellersInv
  <2>6. ValidSnapshot(row')
    <3>1. ValidSnapshot(row) /\ row.state \notin TerminalForward
      BY <2>3 DEF IInv, RowIsReadable, IsWorkflowTerminal, TerminalForward
    <3> QED  BY <1>1, <2>1, <3>1, ValidUnderCancellation
  <2>7. TypeOK'
    BY <1>2, <1>3, <2>1 DEF TypeOK, RestOK, IInv
  <2>8. ~IsWorkflowTerminal(row')
    BY <2>1, <2>3 DEF IsWorkflowTerminal
  <2>9. WorkersInv' /\ TokensDiffer'
    BY <1>2, <2>4 DEF WorkersInv, TokensDiffer, IInv
  <2> QED  BY <2>5, <2>6, <2>7, <2>8, <2>9 DEF IInv, RowIsReadable
<1> QED  BY <1>5, <1>6 DEF CancelReads, CancelRequests

\* Time.
LEMMA ClockStep ==
    ASSUME IInv, AbandonedLeaseExpires \/ OwnedLeaseExpires \/ RetryBecomesDue
    PROVE  IInv'
<1>1. /\ row' = row /\ worker' = worker /\ canceller' = canceller /\ crashes' = crashes
      /\ leaseLive' \in BOOLEAN /\ retryDue' \in BOOLEAN
      /\ runs' = runs /\ undos' = undos /\ late' = late
  BY DEF AbandonedLeaseExpires, OwnedLeaseExpires, RetryBecomesDue, history, IInv, TypeOK
<1>2. expiries' \in 0..MaxExpiries
  BY BoundsAssumption
     DEF AbandonedLeaseExpires, OwnedLeaseExpires, RetryBecomesDue, IInv, TypeOK
<1> QED  BY <1>1, <1>2 DEF IInv, TypeOK, WorkersInv, TokensDiffer, CancellersInv, RowIsReadable

\* Every step keeps the invariant.
LEMMA NextIInv == IInv /\ [Next]_vars => IInv'
<1> SUFFICES ASSUME IInv, [Next]_vars PROVE IInv'
  OBVIOUS
<1>1. ASSUME NEW w \in Workers, WorkerStep(w) \/ Renew(w) \/ RenewMisses(w) \/ Crash(w)
      PROVE  IInv'
  BY <1>1, ObserveStep, ClaimStep, CommitAcceptedStep, CommitRefusedStep, RereadStep, RenewStep,
     HandlerSucceedsStep, HandlerFailsStep, EndingSteps DEF WorkerStep
<1>2. ASSUME NEW c \in Cancellers, CancelReads(c) \/ CancelRequests(c)
      PROVE  IInv'
  BY <1>2, CancelStep
<1>3. CASE UNCHANGED vars
  BY <1>3 DEF vars, IInv, TypeOK, WorkersInv, TokensDiffer, CancellersInv, RowIsReadable
<1> QED  BY <1>1, <1>2, <1>3, ClockStep DEF Next

\* IInv is an invariant of the specification.
LEMMA Inductive == Spec => []IInv
  BY InitIInv, NextIInv, PTL DEF Spec

(***************************************************************************)
(* Theorems.                                                               *)
(***************************************************************************)

\* Every snapshot stored, held or proposed has the shape of types.ts.
THEOREM TypeCorrect == Spec => []TypeOK
<1>1. IInv => TypeOK
  BY DEF IInv
<1> QED  BY <1>1, Inductive, PTL

\* The store never composes a row its readers refuse: the merge of a candidate
\* with a concurrent cancellation is a valid snapshot (store.ts commit).
THEOREM RowStaysReadable == Spec => []RowIsReadable
<1>1. IInv => RowIsReadable
  BY DEF IInv
<1> QED  BY <1>1, Inductive, PTL

\* Fencing: a call whose token is on the row works from what the row holds, up
\* to one cancellation, for any number of workers, crashes and lost leases.
THEOREM FencingHolds == Spec => []OwnerIsCurrent
<1>1. IInv => OwnerIsCurrent
  BY DEF IInv, WorkersInv, WorkerInv, OwnerIsCurrent, Owner, Holds, Current
<1> QED  BY <1>1, Inductive, PTL

\* A terminal row is never written again, and an accepted cancellation is
\* never taken back.
THEOREM EndsAreFinal == Spec => DecisionsAreFinal
<1> DEFINE Final == /\ IsWorkflowTerminal(row) => row' = row
                    /\ row.cancellationRequested => row'.cancellationRequested
<1>1. IInv /\ [Next]_vars => [Final]_vars
  <2> SUFFICES ASSUME IInv, Next PROVE Final
    BY DEF vars
  <2>1. ASSUME NEW w \in Workers, Claim(w) PROVE Final
    <3>1. worker[w].snap = row /\ ~IsWorkflowTerminal(row)
      BY <2>1 DEF IInv, WorkersInv, WorkerInv, Claim, ClaimAllowed
    <3> QED  BY <2>1, <3>1, ClaimedFits DEF Claim, IInv, TypeOK
  <2>2. ASSUME NEW w \in Workers, CommitReleased(w) \/ CommitStarted(w) PROVE Final
    <3>1. CommitWrites(w)
      BY <2>2 DEF CommitReleased, CommitStarted
    <3>2. /\ row \in Snapshot /\ leaseLive \in BOOLEAN
          /\ worker[w].next \in Snapshot /\ worker[w].release \in BOOLEAN
      BY DEF IInv, TypeOK, WorkerState
    <3>3. row.lease = worker[w].snap.lease
      BY <3>1, <3>2, AcceptedCommit DEF CommitWrites, Outcome
    <3>4. worker[w].snap.lease # NoLease
      BY <3>1, CommitWritesFits
    <3>5. row'.cancellationRequested
            = (worker[w].next.cancellationRequested \/ row.cancellationRequested)
      BY <3>1, <3>2, CommittedFits DEF CommitWrites
    <3> QED  BY <3>3, <3>4, <3>5 DEF IInv
  <2>3. ASSUME NEW c \in Cancellers, CancelRequests(c) PROVE Final
    BY <2>3, CancelledFits DEF CancelRequests, CancellationAllowed, IInv, TypeOK
  <2>4. \/ row' = row
        \/ \E w \in Workers : Claim(w) \/ CommitReleased(w) \/ CommitStarted(w)
        \/ \E c \in Cancellers : CancelRequests(c)
    BY DEF Next, WorkerStep, Observe, ClaimConflict, CommitInvalid, CommitRefused, Reread, Renew,
           RenewMisses,
           HandlerSucceeds, HandlerFails, HandlerReturnsNonJson, HandlerLosesLease, Crash,
           CancelReads, AbandonedLeaseExpires, OwnedLeaseExpires, RetryBecomesDue
  <2> QED  BY <2>1, <2>2, <2>3, <2>4
<1> QED  BY <1>1, Inductive, PTL DEF Spec, DecisionsAreFinal

(***************************************************************************)
(* The calls end well and the manager implements Saga.  The facts above say *)
(* which snapshot a call works from (IInv).  What is added here is what the *)
(* call may make of it: every candidate is one step of the saga away from   *)
(* its snapshot, pays for the handler it starts with an attempt, and is     *)
(* valid unless a cancellation came in.                                     *)
(***************************************************************************)
\* What the saga sees of a snapshot.
Phase(s) ==
    IF IsWorkflowTerminal(s) THEN s.state ELSE IF IsCompensating(s) THEN "undoing" ELSE "forward"

Seen(state) ==
    IF state = "compensated" THEN "undone" ELSE IF state \in OutputStates THEN "done" ELSE "todo"

Undoable(s) == {i \in Compensable : Seen(s.steps[i].state) = "done"}

SameSteps(s, n) == \A i \in Steps : Seen(n.steps[i].state) = Seen(s.steps[i].state)

\* The candidate n is a step of the saga from s, or none.
Stays(s, n) == SameSteps(s, n) /\ Phase(n) = Phase(s)
Completes(s, n) ==
    /\ SameSteps(s, n) /\ Phase(s) = "forward" /\ Phase(n) = "completed"
    /\ \A i \in Steps : Seen(s.steps[i].state) = "done"
Stops(s, n) ==
    /\ SameSteps(s, n) /\ Phase(s) = "forward"
    /\ Phase(n) \in (IF Undoable(s) = {} THEN {"failed", "cancelled"} ELSE {"undoing"})
Ends(s, n) ==
    /\ SameSteps(s, n) /\ Phase(s) = "undoing"
    /\ IF Undoable(s) = {} THEN Phase(n) \in {"compensated", "cancelled"} ELSE Phase(n) = "compensation_failed"
Moves(s, n, i, seen) ==
    /\ Phase(n) = Phase(s) /\ Seen(n.steps[i].state) = seen
    /\ \A j \in Steps \ {i} : Seen(n.steps[j].state) = Seen(s.steps[j].state)
Does(s, n, i) ==
    /\ Moves(s, n, i, "done") /\ Phase(s) = "forward" /\ Seen(s.steps[i].state) = "todo"
    /\ \A j \in Steps : j < i => Seen(s.steps[j].state) = "done"
Undoes(s, n, i) ==
    /\ Moves(s, n, i, "undone") /\ Phase(s) = "undoing" /\ i \in Undoable(s)
    /\ \A j \in Undoable(s) : j <= i

SagaStepTo(s, n) ==
    \/ Stays(s, n) \/ Completes(s, n) \/ Stops(s, n) \/ Ends(s, n)
    \/ \E i \in Steps : Does(s, n, i) \/ Undoes(s, n, i)

\* What validation does not ask of a snapshot, and the manager keeps.
Fresh(s) ==
    /\ \A i \in Steps :
          /\ s.steps[i].state \notin CompensationAttemptStates => s.steps[i].compensationAttempts = 0
          /\ s.steps[i].state = "pending" /\ ~s.cancellationRequested => s.steps[i].attempts = 0
          /\ s.state # "compensation_failed" => s.steps[i].state # "compensation_failed"
    /\ \A i, j \in Steps :
          i < j /\ j \in Compensable /\ s.steps[i].state = "compensated" => s.steps[j].state # "committed"

\* A held candidate has counted the attempt it starts, and no forward one knows of a cancellation.
Starts(s, n, i) ==
    \/ /\ n.state = "running" /\ n.steps[i].state = "running" /\ ~n.cancellationRequested
       /\ n.steps[i].attempts = s.steps[i].attempts + 1
    \/ /\ n.state = "compensating" /\ n.steps[i].state = "compensating"
       /\ n.steps[i].compensationAttempts = s.steps[i].compensationAttempts + 1

Candidate(s, n, release) ==
    /\ n.revision = s.revision
    /\ \A i \in Steps : /\ n.steps[i].attempts >= s.steps[i].attempts
                        /\ n.steps[i].compensationAttempts >= s.steps[i].compensationAttempts
    /\ Fresh(n) /\ SagaStepTo(s, n)
    /\ ~n.cancellationRequested => ValidSnapshot(n)
    /\ ~release => \E i \in Steps : Starts(s, n, i)

\* The handler a call waits for.
Handling(s) ==
    \/ s.state = "running" /\ InState(s, "running") # {}
    \/ s.state = "compensating" /\ InState(s, "compensating") # {}

\* A snapshot a call may work from.
Sound(s) == ValidSnapshot(s) /\ Fresh(s)

\* A call, while the row's cancellation flag is cancelled.
CallInv(ws, cancelled) ==
    /\ ws.pc # "idle" => /\ Sound(ws.snap) /\ ~IsWorkflowTerminal(ws.snap)
                         /\ ws.snap.cancellationRequested => cancelled
    /\ ws.pc \in {"committing", "rereading"} =>
          Candidate(ws.snap, ws.next, ws.release) /\ (ws.next.cancellationRequested => cancelled)
    /\ ws.pc = "rereading" => ws.next.state \in TerminalForward
    /\ ws.pc = "handling" => Handling(ws.snap)
    /\ ws.renewed => cancelled
    /\ ws.error # "store_contract" /\ (ws.error = "invalid_snapshot" => cancelled)

\* The forward start that a cancellation came too late for.
LateInv ==
    late > 0 => /\ late = 1 /\ row.cancellationRequested
                /\ \A w \in Workers : /\ worker[w].pc = "committing" /\ ~worker[w].release
                                      /\ worker[w].snap.lease = row.lease
                                      => worker[w].next.state # "running"

BudgetInv ==
    \A i \in Steps : runs[i] <= row.steps[i].attempts /\ undos[i] <= row.steps[i].compensationAttempts

SagaInv ==
    /\ IInv /\ Fresh(row)
    /\ \A w \in Workers : CallInv(worker[w], row.cancellationRequested)
    /\ LateInv /\ BudgetInv

(***************************************************************************)
(* Snapshots before compensation: committed steps up to k, one step that   *)
(* is under way or next, and pending steps.                                *)
(***************************************************************************)
ForwardAt(s, k) ==
    /\ k \in 0..NSteps
    /\ \A i \in Steps : /\ i <= k => s.steps[i].state = "committed"
                        /\ i = k + 1 => s.steps[i].state \in {"pending", "running", "waiting_retry"}
                        /\ i > k + 1 => s.steps[i].state = "pending"
    /\ s.state \in {"pending", "running", "waiting_retry"}
    /\ \A i \in Steps : s.steps[i].state \in {"running", "waiting_retry"} => s.state = s.steps[i].state

\* A valid snapshot that neither ended nor compensates has such a boundary.
LEMMA ForwardBoundary ==
    ASSUME NEW s \in Snapshot, ValidSnapshot(s), ~IsWorkflowTerminal(s), ~IsCompensating(s)
    PROVE  \E k \in 0..NSteps : ForwardAt(s, k)
<1>0. NSteps \in Nat /\ Steps = 1..NSteps
  BY DefinitionAssumption DEF Steps
<1>1. s.state \in {"pending", "running", "waiting_retry"}
  BY DEF Snapshot, WorkflowStates, IsWorkflowTerminal, IsCompensating
<1>2. AssertStateBoundary(s)
  BY DEF ValidSnapshot, AssertWorkflowSnapshot
<1>3. CASE s.state = "pending"
  <2>1. \A i \in Steps : s.steps[i].state = "pending"
    BY <1>2, <1>3 DEF AssertStateBoundary
  <2>2. 0 \in 0..NSteps /\ \A i \in Steps : ~(i <= 0)
    BY <1>0
  <2>3. ForwardAt(s, 0)
    BY <1>1, <2>1, <2>2 DEF ForwardAt
  <2> QED  BY <2>2, <2>3
<1>4. ASSUME s.state \in {"running", "waiting_retry"}
      PROVE  \E k \in 0..NSteps : ForwardAt(s, k)
  <2>1. AssertForwardBoundary(s, s.state, TRUE)
    BY <1>2, <1>4 DEF AssertStateBoundary, AssertForwardBoundary
  <2>2. PICK k \in 0..NSteps :
          /\ \A i \in 1..k : s.steps[i].state = "committed"
          /\ \/ /\ k < NSteps
                /\ s.steps[k + 1].state = s.state
                /\ \A i \in (k + 2)..NSteps : s.steps[i].state = "pending"
             \/ \A i \in (k + 1)..NSteps : s.steps[i].state = "pending"
    BY <2>1 DEF AssertForwardBoundary
  <2>3. ASSUME NEW i \in Steps
        PROVE  /\ i <= k => s.steps[i].state = "committed"
               /\ i = k + 1 => s.steps[i].state \in {"pending", s.state}
               /\ i > k + 1 => s.steps[i].state = "pending"
    BY <1>0, <2>2
  <2>4. \A i \in Steps : s.steps[i].state \in {"committed", "pending", s.state}
    <3> SUFFICES ASSUME NEW i \in Steps PROVE s.steps[i].state \in {"committed", "pending", s.state}
      OBVIOUS
    <3>1. i <= k \/ i = k + 1 \/ i > k + 1
      BY <1>0
    <3> QED  BY <2>3, <3>1
  <2> QED  BY <1>4, <2>3, <2>4 DEF ForwardAt
<1> QED  BY <1>1, <1>3, <1>4

\* Before compensation the saga sees committed steps as done and no other.
LEMMA ForwardSeen ==
    ASSUME NEW s \in Snapshot, NEW k \in 0..NSteps, ForwardAt(s, k), NEW i \in Steps
    PROVE  /\ Seen(s.steps[i].state) = (IF s.steps[i].state = "committed" THEN "done" ELSE "todo")
           /\ s.steps[i].state = "committed" <=> i <= k
           /\ Phase(s) = "forward"
<1>1. i \in Int /\ k \in Int
  BY DefinitionAssumption DEF Steps
<1>2. s.steps[i].state \in {"committed", "pending", "running", "waiting_retry"}
      /\ (s.steps[i].state = "committed" <=> i <= k)
  BY <1>1 DEF ForwardAt
<1> QED  BY <1>2 DEF Seen, OutputStates, Phase, IsWorkflowTerminal, IsCompensating, ForwardAt

(***************************************************************************)
(* Candidates that change one step, or none.                               *)
(***************************************************************************)
Restates(s, n, state) ==
    /\ n \in Snapshot /\ n.state = state
    /\ n.revision = s.revision /\ n.cancellationRequested = s.cancellationRequested

Changes(s, n, i, state, new) ==
    /\ Restates(s, n, state) /\ n.steps[i] = new
    /\ \A j \in Steps \ {i} : n.steps[j] = s.steps[j]

\* The numbers of a snapshot's steps.
LEMMA StepNumbers ==
    ASSUME NEW s \in Snapshot, NEW j \in Steps
    PROVE  s.steps[j].attempts \in Nat /\ s.steps[j].compensationAttempts \in Nat /\ j \in Int
<1>1. j \in Int
  BY DefinitionAssumption DEF Steps
<1>2. s.steps[j] \in StepSnapshot
  BY DEF Snapshot
<1> QED  BY <1>1, <1>2 DEF StepSnapshot

\* A single changed step passes assertStep and the definition's budget.
StepFits(i, step) ==
    /\ AssertStep(i, step)
    /\ step.attempts <= MaxAttempts[i] /\ step.compensationAttempts <= MaxAttempts[i]
    /\ step.state = "waiting_retry" => step.attempts < MaxAttempts[i]
    /\ step.state = "compensation_waiting_retry" => step.compensationAttempts < MaxAttempts[i]

\* Validity, one step at a time.
LEMMA ValidInParts ==
    ASSUME NEW s \in Snapshot
    PROVE  ValidSnapshot(s) <=>
             /\ \A i \in Steps : StepFits(i, s.steps[i])
             /\ AssertStateBoundary(s)
             /\ s.state = "failed" => \A i \in Compensable : s.steps[i].state # "committed"
             /\ s.state = "compensating" =>
                  \/ Active(s) # {}
                  \/ InState(s, "committed") \cap Compensable # {}
                  \/ InState(s, "compensated") # {}
<1>1. Compensable \subseteq Steps
  BY DefinitionAssumption
<1>2. MatchesDefinition(s) <=>
        /\ \A i \in Steps :
             /\ s.steps[i].attempts <= MaxAttempts[i]
             /\ s.steps[i].compensationAttempts <= MaxAttempts[i]
             /\ s.steps[i].state = "waiting_retry" => s.steps[i].attempts < MaxAttempts[i]
             /\ s.steps[i].state = "compensation_waiting_retry" =>
                  s.steps[i].compensationAttempts < MaxAttempts[i]
        /\ s.state = "failed" => \A i \in Compensable : s.steps[i].state # "committed"
        /\ s.state = "compensating" =>
             \/ Active(s) # {}
             \/ InState(s, "committed") \cap Compensable # {}
             \/ InState(s, "compensated") # {}
  BY Zenon, <1>1 DEF MatchesDefinition
<1> QED  BY Zenon, <1>2 DEF ValidSnapshot, AssertWorkflowSnapshot, StepFits

\* All steps are committed: the candidate is completed.
LEMMA CompleteCandidate ==
    ASSUME NEW s \in Snapshot, Sound(s), NEW k \in 0..NSteps, ForwardAt(s, k),
           \A i \in Steps : s.steps[i].state = "committed",
           NEW n, Restates(s, n, "completed"), n.steps = s.steps
    PROVE  Candidate(s, n, TRUE)
<1>1. Fresh(n)
  BY DEF Sound, Fresh, Restates
<1>2. SagaStepTo(s, n)
  <2>1. \A i \in Steps : Seen(s.steps[i].state) = "done"
    BY ForwardSeen
  <2>2. Phase(s) = "forward"
    BY DEF Phase, IsWorkflowTerminal, IsCompensating, ForwardAt
  <2>3. Phase(n) = "completed"
    BY DEF Phase, IsWorkflowTerminal, Restates
  <2> QED  BY <2>1, <2>2, <2>3 DEF SagaStepTo, Completes, SameSteps
<1>3. ~n.cancellationRequested => ValidSnapshot(n)
  <2> SUFFICES ASSUME ~n.cancellationRequested PROVE ValidSnapshot(n)
    OBVIOUS
  <2>1. AssertStateBoundary(n)
    BY DEF AssertStateBoundary, Restates
  <2>2. \A i \in Steps : StepFits(i, n.steps[i])
    BY ValidInParts DEF Sound
  <2> QED  BY <2>1, <2>2, ValidInParts DEF Restates
<1> QED  BY <1>1, <1>2, <1>3, StepNumbers DEF Candidate, Restates

\* A change of step i = k + 1 during forward execution.
ForwardMove(s, n, k, i, state, new) ==
    /\ Sound(s) /\ ForwardAt(s, k) /\ i = k + 1
    /\ Changes(s, n, i, state, new) /\ state # "compensation_failed"
    /\ new.state \in {"running", "waiting_retry", "failed"}
    /\ new.compensationAttempts = 0 /\ new.attempts >= s.steps[i].attempts

\* What a forward candidate that changes step k + 1 keeps.
LEMMA ForwardChange ==
    ASSUME NEW s \in Snapshot, NEW k \in 0..NSteps, NEW i \in Steps, NEW state, NEW new, NEW n,
           ForwardMove(s, n, k, i, state, new)
    PROVE  /\ Fresh(n) /\ SameSteps(s, n) /\ Phase(s) = "forward"
           /\ \A j \in Steps : /\ n.steps[j].attempts >= s.steps[j].attempts
                               /\ n.steps[j].compensationAttempts >= s.steps[j].compensationAttempts
           /\ \A j \in Steps : /\ j <= k => n.steps[j].state = "committed"
                               /\ j > k + 1 => n.steps[j].state = "pending"
<1>0. /\ Sound(s) /\ ForwardAt(s, k) /\ i = k + 1
      /\ Changes(s, n, i, state, new) /\ state # "compensation_failed"
      /\ new.state \in {"running", "waiting_retry", "failed"}
      /\ new.compensationAttempts = 0 /\ new.attempts >= s.steps[i].attempts
  BY DEF ForwardMove
<1>1. k \in Int /\ \A j \in Steps : j \in Int
  BY StepNumbers
<1>2. s.steps[i].state \in {"pending", "running", "waiting_retry"}
  BY <1>0 DEF ForwardAt
<1>3. Seen(n.steps[i].state) = "todo" /\ Seen(s.steps[i].state) = "todo"
  BY <1>0, <1>2 DEF Seen, OutputStates, Changes
<1>4. SameSteps(s, n)
  BY <1>0, <1>3 DEF SameSteps, Changes
<1>5. Phase(s) = "forward"
  BY <1>0 DEF Phase, IsWorkflowTerminal, IsCompensating, ForwardAt
<1>6. s.steps[i].compensationAttempts = 0
  BY <1>0, <1>2 DEF Sound, Fresh, CompensationAttemptStates
<1>7. \A j \in Steps : /\ j <= k => n.steps[j].state = "committed"
                       /\ j > k + 1 => n.steps[j].state = "pending"
  BY <1>0, <1>1 DEF ForwardAt, Changes
<1>8. \A j \in Steps : n.steps[j].state # "compensated"
  <2> SUFFICES ASSUME NEW j \in Steps PROVE n.steps[j].state # "compensated"
    OBVIOUS
  <2>1. j <= k \/ j = i \/ j > k + 1
    BY <1>0, <1>1
  <2> QED  BY <1>0, <1>7, <2>1 DEF Changes
<1>9. Fresh(n)
  <2>1. s.state # "compensation_failed" /\ n.cancellationRequested = s.cancellationRequested
    BY <1>0 DEF ForwardAt, Changes, Restates
  <2>2. ASSUME NEW j \in Steps
        PROVE  /\ n.steps[j].state \notin CompensationAttemptStates =>
                     n.steps[j].compensationAttempts = 0
               /\ n.steps[j].state = "pending" /\ ~n.cancellationRequested =>
                     n.steps[j].attempts = 0
               /\ n.steps[j].state # "compensation_failed"
    BY <1>0, <2>1 DEF Sound, Fresh, Changes
  <2> QED  BY <1>0, <1>8, <2>2 DEF Fresh
<1>10. ASSUME NEW j \in Steps
       PROVE  /\ n.steps[j].attempts >= s.steps[j].attempts
              /\ n.steps[j].compensationAttempts >= s.steps[j].compensationAttempts
  <2>1. CASE j = i
    BY <1>0, <1>6, <2>1 DEF Changes
  <2>2. CASE j # i
    <3>1. n.steps[j] = s.steps[j]
      BY <1>0, <2>2 DEF Changes
    <3> QED  BY <1>0, <3>1, StepNumbers
  <2> QED  BY <1>0, <2>1, <2>2
<1> QED  BY <1>0, <1>4, <1>5, <1>7, <1>9, <1>10

\* The boundary that validation asks of a snapshot in forward execution.
LEMMA MarkerBoundary ==
    ASSUME NEW n \in Snapshot, NEW k \in 0..NSteps, k + 1 \in Steps,
           \A j \in Steps : /\ j <= k => n.steps[j].state = "committed"
                            /\ j > k + 1 => n.steps[j].state = "pending"
    PROVE  AssertForwardBoundary(n, n.steps[k + 1].state, FALSE)
<1>1. k \in Int /\ NSteps \in Int /\ k < NSteps
  BY DefinitionAssumption DEF Steps
<1>2. \A j \in 1..k : n.steps[j].state = "committed"
  BY <1>1 DEF Steps
<1>3. \A j \in (k + 2)..NSteps : n.steps[j].state = "pending"
  BY <1>1 DEF Steps
<1> QED  BY <1>1, <1>2, <1>3 DEF AssertForwardBoundary

\* A candidate of forward execution: the state of the workflow is that of the changed step.
LEMMA ForwardCandidate ==
    ASSUME NEW s \in Snapshot, Sound(s), NEW k \in 0..NSteps, ForwardAt(s, k),
           NEW i \in Steps, i = k + 1, NEW new, NEW state, state = new.state,
           NEW n, Changes(s, n, i, state, new),
           new.state \in {"running", "waiting_retry"}, new.compensationAttempts = 0,
           new.attempts >= s.steps[i].attempts, StepFits(i, new),
           NEW release, ~release => Starts(s, n, i)
    PROVE  Candidate(s, n, release)
<1>0. ForwardMove(s, n, k, i, state, new)
  BY DEF ForwardMove
<1>1. /\ Fresh(n) /\ SameSteps(s, n) /\ Phase(s) = "forward"
      /\ \A j \in Steps : /\ n.steps[j].attempts >= s.steps[j].attempts
                          /\ n.steps[j].compensationAttempts >= s.steps[j].compensationAttempts
      /\ \A j \in Steps : /\ j <= k => n.steps[j].state = "committed"
                          /\ j > k + 1 => n.steps[j].state = "pending"
  BY <1>0, ForwardChange
<1>2. n \in Snapshot /\ n.state = new.state /\ n.steps[i] = new /\ n.revision = s.revision
  BY DEF Changes, Restates
<1>3. SagaStepTo(s, n)
  <2>1. Phase(n) = "forward"
    BY <1>2 DEF Phase, IsWorkflowTerminal, IsCompensating
  <2> QED  BY <1>1, <2>1 DEF SagaStepTo, Stays
<1>4. ValidSnapshot(n)
  <2>1. AssertForwardBoundary(n, n.state, FALSE) /\ AssertForwardBoundary(n, n.state, TRUE)
    <3>1. AssertForwardBoundary(n, n.state, FALSE)
      BY <1>1, <1>2, MarkerBoundary
    <3> QED  BY <3>1 DEF AssertForwardBoundary
  <2>2. AssertStateBoundary(n)
    BY <1>2, <2>1 DEF AssertStateBoundary
  <2>3. \A j \in Steps : StepFits(j, n.steps[j])
    <3>1. \A j \in Steps : StepFits(j, s.steps[j])
      BY ValidInParts DEF Sound
    <3> QED  BY <1>2, <3>1 DEF Changes
  <2> QED  BY <1>2, <2>2, <2>3, ValidInParts
<1> QED  BY <1>1, <1>2, <1>3, <1>4 DEF Candidate

\* The attempt that starts a handler is counted, and the budget covers it.
LEMMA StartForwardCandidate ==
    ASSUME NEW s \in Snapshot, Sound(s), NEW k \in 0..NSteps, ForwardAt(s, k),
           ~s.cancellationRequested,
           NEW i \in Steps, i = k + 1, s.steps[i].state # "running",
           NEW n, Changes(s, n, i, "running", StartForward(s.steps[i]))
    PROVE  Candidate(s, n, FALSE)
<1> DEFINE step == s.steps[i]
           new == StartForward(step)
<1>1. step \in StepSnapshot /\ step.state \in {"pending", "waiting_retry"} /\ StepFits(i, step)
  BY ValidInParts DEF ForwardAt, Snapshot, Sound
<1>2. MaxAttempts[i] \in Nat /\ MaxAttempts[i] >= 1
  BY DefinitionAssumption
<1>3. step.attempts \in Nat /\ step.attempts < MaxAttempts[i] /\ step.compensationAttempts = 0
  BY <1>1, <1>2 DEF StepFits, Sound, Fresh, CompensationAttemptStates, StepSnapshot
<1>4. /\ new.state = "running" /\ new.attempts = step.attempts + 1
      /\ new.compensationAttempts = 0 /\ new.has = step.has \ {"retryAt", "error"}
  BY <1>1, <1>3 DEF StartForward, StepSnapshot
<1> HIDE DEF new
<1>5. StepFits(i, new)
  BY <1>1, <1>2, <1>3, <1>4
     DEF StepFits, AssertStep, OutputStates, AttemptStates, CompensationAttemptStates,
         WaitingStates, ErrorStates
<1>6. Starts(s, n, i) /\ Changes(s, n, i, new.state, new)
  BY <1>4 DEF Starts, Changes, Restates, new
<1>7. new.attempts >= step.attempts
  BY <1>3, <1>4
<1> QED  BY <1>4, <1>5, <1>6, <1>7, ForwardCandidate

\* A failed attempt waits for a retry while the budget lasts.
LEMMA WaitForwardCandidate ==
    ASSUME NEW s \in Snapshot, Sound(s), NEW k \in 0..NSteps, ForwardAt(s, k),
           NEW i \in Steps, i = k + 1, s.steps[i].state = "running",
           s.steps[i].attempts < MaxAttempts[i],
           NEW n, Changes(s, n, i, "waiting_retry", WaitForward(s.steps[i]))
    PROVE  Candidate(s, n, TRUE)
<1> DEFINE step == s.steps[i]
           new == WaitForward(step)
<1>1. step \in StepSnapshot /\ StepFits(i, step)
  BY ValidInParts DEF Snapshot, Sound
<1>2. MaxAttempts[i] \in Nat
  BY DefinitionAssumption
<1>3. step.attempts \in Nat /\ step.compensationAttempts = 0
  BY <1>1 DEF Sound, Fresh, CompensationAttemptStates, StepSnapshot
<1>4. /\ new.state = "waiting_retry" /\ new.attempts = step.attempts
      /\ new.compensationAttempts = 0 /\ new.has = step.has \cup {"error", "retryAt"}
  BY <1>1, <1>3 DEF WaitForward, StepSnapshot
<1> HIDE DEF new
<1>5. StepFits(i, new)
  BY <1>1, <1>2, <1>3, <1>4
     DEF StepFits, AssertStep, OutputStates, AttemptStates, CompensationAttemptStates,
         WaitingStates, ErrorStates
<1>6. Changes(s, n, i, new.state, new)
  BY <1>4 DEF new
<1>7. new.attempts >= step.attempts
  BY <1>3, <1>4
<1> QED  BY <1>4, <1>5, <1>6, <1>7, ForwardCandidate

\* What beginCompensationOrCancel decides.
LEMMA BeginDecides ==
    ASSUME NEW s \in Snapshot, NEW c \in BOOLEAN
    PROVE  BeginCompensationOrCancel(s, c).state =
             IF \E j \in Compensable : s.steps[j].state = "committed" THEN "compensating"
             ELSE IF c THEN "cancelled" ELSE "failed"
  BY DEF BeginCompensationOrCancel, Snapshot, WorkflowStates

\* A forward snapshot that stops: to the saga, what is undoable is what committed.
LEMMA ForwardUndoable ==
    ASSUME NEW s \in Snapshot, NEW k \in 0..NSteps, ForwardAt(s, k)
    PROVE  /\ Undoable(s) = {j \in Compensable : s.steps[j].state = "committed"}
           /\ Phase(s) = "forward"
<1>1. Compensable \subseteq Steps
  BY DefinitionAssumption
<1>2. Phase(s) = "forward"
  BY DEF Phase, IsWorkflowTerminal, IsCompensating, ForwardAt
<1>3. \A j \in Steps : Seen(s.steps[j].state) = "done" <=> s.steps[j].state = "committed"
  BY ForwardSeen
<1> QED  BY <1>1, <1>2, <1>3 DEF Undoable

\* A step that failed for good, with nothing committed to compensate, or with something.
LEMMA FailForwardCandidate ==
    ASSUME NEW s \in Snapshot, Sound(s), NEW k \in 0..NSteps, ForwardAt(s, k),
           NEW i \in Steps, i = k + 1, s.steps[i].state = "running",
           NEW state,
           state = (IF \E j \in Compensable : s.steps[j].state = "committed"
                    THEN "compensating" ELSE "failed"),
           NEW new, new = [s.steps[i] EXCEPT !.state = "failed", !.has = @ \cup {"error"}],
           NEW n, Changes(s, n, i, state, new)
    PROVE  Candidate(s, n, TRUE)
<1> DEFINE step == s.steps[i]
<1>1. step \in StepSnapshot /\ StepFits(i, step)
  BY ValidInParts DEF Snapshot, Sound
<1>2. step.attempts \in Nat /\ step.compensationAttempts = 0
  BY <1>1 DEF Sound, Fresh, CompensationAttemptStates, StepSnapshot
<1>3. /\ new.state = "failed" /\ new.attempts = step.attempts
      /\ new.compensationAttempts = 0 /\ new.has = step.has \cup {"error"}
  BY <1>1, <1>2 DEF StepSnapshot
<1>5. StepFits(i, new)
  BY <1>1, <1>2, <1>3
     DEF StepFits, AssertStep, OutputStates, AttemptStates, CompensationAttemptStates,
         WaitingStates, ErrorStates
<1>6. ForwardMove(s, n, k, i, state, new)
  <2>1. state # "compensation_failed" /\ new.attempts >= step.attempts
    BY <1>2, <1>3
  <2> QED  BY <1>3, <2>1 DEF ForwardMove
<1>7. /\ Fresh(n) /\ SameSteps(s, n) /\ Phase(s) = "forward"
      /\ \A j \in Steps : /\ n.steps[j].attempts >= s.steps[j].attempts
                          /\ n.steps[j].compensationAttempts >= s.steps[j].compensationAttempts
      /\ \A j \in Steps : /\ j <= k => n.steps[j].state = "committed"
                          /\ j > k + 1 => n.steps[j].state = "pending"
  BY <1>6, ForwardChange
<1>8. /\ n \in Snapshot /\ n.state = state /\ n.steps[i] = new /\ n.revision = s.revision
      /\ n.cancellationRequested = s.cancellationRequested
      /\ \A j \in Steps \ {i} : n.steps[j] = s.steps[j]
  BY DEF Changes, Restates
<1>9. SagaStepTo(s, n)
  <2>1. Phase(n) = IF state = "compensating" THEN "undoing" ELSE "failed"
    BY <1>8 DEF Phase, IsWorkflowTerminal, IsCompensating
  <2>2. Undoable(s) = {} <=> state = "failed"
    BY ForwardUndoable
  <2> QED  BY <1>7, <2>1, <2>2 DEF SagaStepTo, Stops
<1>10. ASSUME ~n.cancellationRequested PROVE ValidSnapshot(n)
  <2>1. \A j \in Steps : StepFits(j, n.steps[j])
    <3>1. \A j \in Steps : StepFits(j, s.steps[j])
      BY ValidInParts DEF Sound
    <3>2. \A j \in Steps \ {i} : StepFits(j, n.steps[j])
      BY <1>8, <3>1
    <3> QED  BY <1>5, <1>8, <3>2
  <2>2. \A j \in Steps : n.steps[j].state \in {"committed", "failed", "pending"}
                         /\ (n.steps[j].state = "failed" <=> j = i)
    <3> SUFFICES ASSUME NEW j \in Steps
                 PROVE  n.steps[j].state \in {"committed", "failed", "pending"}
                        /\ (n.steps[j].state = "failed" <=> j = i)
      OBVIOUS
    <3>1. j <= k \/ j = i \/ j > k + 1
      BY StepNumbers
    <3>2. (j <= k \/ j > k + 1) => j # i
      BY StepNumbers
    <3> QED  BY <1>3, <1>7, <1>8, <3>1, <3>2
  <2>3. CASE state = "failed"
    <3>1. AssertForwardBoundary(n, "failed", FALSE)
      <4>1. k + 1 \in Steps /\ n.steps[k + 1].state = "failed" /\ n \in Snapshot
        BY <1>3, <1>8
      <4> QED  BY <1>7, <4>1, MarkerBoundary
    <3>2. AssertStateBoundary(n)
      BY <1>8, <1>10, <2>3, <3>1 DEF AssertStateBoundary
    <3>3. \A j \in Compensable : n.steps[j].state # "committed"
      <4>1. \A j \in Compensable : s.steps[j].state # "committed"
        BY <2>3
      <4> QED  BY <1>3, <1>8, <4>1, DefinitionAssumption
    <3> QED  BY <1>8, <2>1, <2>3, <3>2, <3>3, ValidInParts
  <2>4. CASE state = "compensating"
    <3>1. PICK c \in Compensable : s.steps[c].state = "committed"
      BY <2>4
    <3>2. c \in Steps /\ c # i /\ n.steps[c].state = "committed"
      BY <1>8, <3>1, DefinitionAssumption
    <3>3. Active(n) = {} /\ InState(n, "failed") = {i}
      BY <2>2 DEF Active, ActiveStates, InState
    <3>4. \A a, b \in Steps : a < b /\ n.steps[a].state = "pending" => n.steps[b].state = "pending"
      <4> SUFFICES ASSUME NEW a \in Steps, NEW b \in Steps, a < b, n.steps[a].state = "pending"
                   PROVE  n.steps[b].state = "pending"
        OBVIOUS
      <4>1. a > k + 1
        <5>1. ~(a <= k) /\ a # i
          BY <1>3, <1>7, <1>8
        <5> QED  BY <5>1, StepNumbers
      <4>2. b > k + 1
        BY <4>1, StepNumbers
      <4> QED  BY <1>7, <4>2
    <3>5. AssertCompensationBoundary(n)
      BY <1>8, <2>2, <2>4, <3>2, <3>3, <3>4
         DEF AssertCompensationBoundary, AtMostOne, ActiveStates
    <3>6. AssertStateBoundary(n)
      BY <1>8, <2>4, <3>5 DEF AssertStateBoundary
    <3>7. InState(n, "committed") \cap Compensable # {}
      BY <3>1, <3>2 DEF InState
    <3> QED  BY <1>8, <2>1, <2>4, <3>6, <3>7, ValidInParts
  <2> QED  BY <2>3, <2>4
<1> QED  BY <1>7, <1>8, <1>9, <1>10 DEF Candidate

\* The handler of the next step returned: the step is done.
LEMMA DoneCandidate ==
    ASSUME NEW s \in Snapshot, Sound(s), NEW k \in 0..NSteps, ForwardAt(s, k),
           NEW i \in Steps, i = k + 1, s.steps[i].state = "running",
           NEW n \in Snapshot, n.state = "running", n.revision = s.revision,
           n.steps[i] = Recorded(s.steps[i]), \A j \in Steps \ {i} : n.steps[j] = s.steps[j],
           s.cancellationRequested => n.cancellationRequested
    PROVE  Candidate(s, n, TRUE)
<1> DEFINE step == s.steps[i]
           new == Recorded(step)
<1>1. step \in StepSnapshot /\ StepFits(i, step)
  BY ValidInParts DEF Snapshot, Sound
<1>2. step.attempts \in Nat /\ step.compensationAttempts = 0
  BY <1>1 DEF Sound, Fresh, CompensationAttemptStates, StepSnapshot
<1>3. /\ new.state = "committed" /\ new.attempts = step.attempts
      /\ new.compensationAttempts = 0 /\ new.has = step.has \cup {"output"}
  BY <1>1, <1>2 DEF Recorded, StepSnapshot
<1>4. n.steps[i] = new
  OBVIOUS
<1> HIDE DEF new
<1>5. StepFits(i, new)
  BY <1>1, <1>2, <1>3
     DEF StepFits, AssertStep, OutputStates, AttemptStates, CompensationAttemptStates,
         WaitingStates, ErrorStates
<1>6. /\ \A j \in Steps : /\ j <= k + 1 => n.steps[j].state = "committed"
                          /\ j > k + 1 => n.steps[j].state = "pending"
      /\ k + 1 \in 0..NSteps
  <2>1. k \in Int /\ k + 1 \in 0..NSteps
    BY DefinitionAssumption DEF Steps
  <2>2. ASSUME NEW j \in Steps
        PROVE  /\ j <= k + 1 => n.steps[j].state = "committed"
               /\ j > k + 1 => n.steps[j].state = "pending"
    <3>1. j <= k + 1 => j <= k \/ j = i
      BY <2>1, StepNumbers
    <3>2. j <= k \/ j > k + 1 => j # i
      BY <2>1, StepNumbers
    <3> QED  BY <1>3, <1>4, <3>1, <3>2 DEF ForwardAt
  <2> QED  BY <2>1, <2>2
<1>7. Fresh(n)
  <2>1. \A j \in Steps : n.steps[j].state \in {"committed", "pending"}
    <3>1. \A j \in Steps : j <= k + 1 \/ j > k + 1
      BY StepNumbers
    <3> QED  BY <1>6, <3>1
  <2>2. ASSUME NEW j \in Steps
        PROVE  /\ n.steps[j].compensationAttempts = 0
               /\ n.steps[j].state = "pending" /\ ~n.cancellationRequested =>
                     n.steps[j].attempts = 0
    <3>1. CASE j = i
      BY <1>3, <1>4, <3>1
    <3>2. CASE j # i
      <4>1. n.steps[j] = s.steps[j]
        BY <3>2
      <4>2. s.steps[j].state \notin CompensationAttemptStates
        BY <2>1, <4>1 DEF CompensationAttemptStates
      <4> QED  BY <4>1, <4>2 DEF Sound, Fresh
    <3> QED  BY <3>1, <3>2
  <2> QED  BY <2>1, <2>2 DEF Fresh
<1>8. \A j \in Steps : /\ n.steps[j].attempts >= s.steps[j].attempts
                       /\ n.steps[j].compensationAttempts >= s.steps[j].compensationAttempts
  <2>1. /\ n.steps[i].attempts >= s.steps[i].attempts
        /\ n.steps[i].compensationAttempts >= s.steps[i].compensationAttempts
    BY <1>2, <1>3, <1>4
  <2>2. ASSUME NEW j \in Steps, j # i
        PROVE  /\ n.steps[j].attempts >= s.steps[j].attempts
               /\ n.steps[j].compensationAttempts >= s.steps[j].compensationAttempts
    BY <2>2, StepNumbers
  <2> QED  BY <2>1, <2>2
<1>9. SagaStepTo(s, n)
  <2>1. Phase(s) = "forward" /\ Phase(n) = "forward"
    BY DEF Phase, IsWorkflowTerminal, IsCompensating, ForwardAt
  <2>2. Seen(n.steps[i].state) = "done" /\ Seen(s.steps[i].state) = "todo"
    BY <1>3, <1>4 DEF Seen, OutputStates
  <2>3. \A j \in Steps : j < i => Seen(s.steps[j].state) = "done"
    <3> SUFFICES ASSUME NEW j \in Steps, j < i PROVE Seen(s.steps[j].state) = "done"
      OBVIOUS
    <3>1. j <= k
      BY StepNumbers
    <3> QED  BY <3>1, ForwardSeen
  <2>4. \A j \in Steps \ {i} : Seen(n.steps[j].state) = Seen(s.steps[j].state)
    OBVIOUS
  <2> QED  BY <2>1, <2>2, <2>3, <2>4 DEF SagaStepTo, Does, Moves
<1>10. ValidSnapshot(n)
  <2>1. \A j \in Steps : StepFits(j, n.steps[j])
    <3>1. \A j \in Steps \ {i} : StepFits(j, n.steps[j])
      BY ValidInParts DEF Sound
    <3> QED  BY <1>4, <1>5, <3>1
  <2>2. AssertForwardBoundary(n, "running", TRUE)
    <3> DEFINE m == k + 1
    <3>0. m \in 0..NSteps /\ NSteps \in Int
      BY <1>6, DefinitionAssumption
    <3>1. /\ \A j \in 1..m : n.steps[j].state = "committed"
          /\ \A j \in (m + 1)..NSteps : n.steps[j].state = "pending"
      <4>1. \A j \in Steps : /\ j <= m => n.steps[j].state = "committed"
                             /\ j > m => n.steps[j].state = "pending"
        BY <1>6
      <4> HIDE DEF m
      <4>2. 1..m \subseteq Steps /\ (m + 1)..NSteps \subseteq Steps
        BY <3>0 DEF Steps
      <4>3. (\A j \in 1..m : j <= m) /\ \A j \in (m + 1)..NSteps : j > m
        BY <3>0
      <4> QED  BY <4>1, <4>2, <4>3
    <3> HIDE DEF m
    <3> QED  BY <3>0, <3>1 DEF AssertForwardBoundary
  <2>3. AssertStateBoundary(n)
    BY <2>2 DEF AssertStateBoundary
  <2> QED  BY <2>1, <2>3, ValidInParts
<1> QED  BY <1>7, <1>8, <1>9, <1>10 DEF Candidate

\* A cancellation before compensation: a step that was under way goes back to pending.
LEMMA CancelCandidate ==
    ASSUME NEW s \in Snapshot, Sound(s), NEW k \in 0..NSteps, ForwardAt(s, k),
           NEW n \in Snapshot, n.revision = s.revision, n.cancellationRequested,
           n.state = (IF \E j \in Compensable : n.steps[j].state = "committed"
                      THEN "compensating" ELSE "cancelled"),
           \A j \in Steps :
              \/ n.steps[j] = s.steps[j]
              \/ /\ s.steps[j].state \in {"running", "waiting_retry"}
                 /\ n.steps[j].state = "pending"
                 /\ n.steps[j].attempts = s.steps[j].attempts
                 /\ n.steps[j].compensationAttempts = s.steps[j].compensationAttempts
    PROVE  Candidate(s, n, TRUE)
<1>1. ASSUME NEW j \in Steps
      PROVE  /\ s.steps[j].state \in {"committed", "pending", "running", "waiting_retry"}
             /\ n.steps[j].state \in {"committed", "pending", "running", "waiting_retry"}
             /\ n.steps[j].state = "committed" <=> s.steps[j].state = "committed"
             /\ n.steps[j].attempts = s.steps[j].attempts
             /\ n.steps[j].compensationAttempts = s.steps[j].compensationAttempts
             /\ n.steps[j].compensationAttempts = 0
  <2>1. s.steps[j].state \in {"committed", "pending", "running", "waiting_retry"}
    <3>1. j <= k \/ j = k + 1 \/ j > k + 1
      BY StepNumbers
    <3> QED  BY <3>1 DEF ForwardAt
  <2>2. s.steps[j].compensationAttempts = 0
    BY <2>1 DEF Sound, Fresh, CompensationAttemptStates
  <2>3. /\ n.steps[j].state \in {"committed", "pending", "running", "waiting_retry"}
        /\ n.steps[j].state = "committed" <=> s.steps[j].state = "committed"
    BY <2>1
  <2>4. /\ n.steps[j].attempts = s.steps[j].attempts
        /\ n.steps[j].compensationAttempts = s.steps[j].compensationAttempts
    OBVIOUS
  <2> QED  BY <2>1, <2>2, <2>3, <2>4
<1>2. Fresh(n)
  <2>1. \A j \in Steps : n.steps[j].state \notin {"compensated", "compensation_failed"}
    BY <1>1
  <2> QED  BY <1>1, <2>1 DEF Fresh
<1>3. SagaStepTo(s, n)
  <2>1. SameSteps(s, n)
    BY <1>1 DEF SameSteps, Seen, OutputStates
  <2>2. Phase(n) = IF n.state = "compensating" THEN "undoing" ELSE "cancelled"
    BY DEF Phase, IsWorkflowTerminal, IsCompensating
  <2>3. Undoable(s) = {} <=> n.state = "cancelled"
    <3>1. \A j \in Compensable : n.steps[j].state = "committed" <=> s.steps[j].state = "committed"
      BY <1>1, DefinitionAssumption
    <3> QED  BY <3>1, ForwardUndoable
  <2>4. n.state \in {"compensating", "cancelled"} /\ Phase(s) = "forward"
    BY ForwardUndoable
  <2> QED  BY <2>1, <2>2, <2>3, <2>4 DEF SagaStepTo, Stops
<1> QED  BY <1>1, <1>2, <1>3, StepNumbers DEF Candidate

(***************************************************************************)
(* Snapshots in compensation: the last step that is not undone is the one  *)
(* to work on, and no other one is under way.                              *)
(***************************************************************************)
Open(s) == {i \in Compensable :
               s.steps[i].state \in {"committed", "compensation_waiting_retry", "compensating"}}

LastOpen(s, i) == i \in Open(s) /\ \A j \in Open(s) : j <= i

\* What the saga calls undoable are the open steps, those under way included.
LEMMA CompensationFacts ==
    ASSUME NEW s \in Snapshot, Sound(s), IsCompensating(s)
    PROVE  /\ AssertCompensationBoundary(s) /\ Phase(s) = "undoing"
           /\ \A i \in Steps : s.steps[i].state \notin {"running", "waiting_retry", "compensation_failed"}
           /\ Open(s) = Undoable(s) /\ Active(s) \subseteq Open(s) /\ Open(s) \subseteq Steps
<1>1. AssertCompensationBoundary(s)
  BY DEF Sound, ValidSnapshot, AssertWorkflowSnapshot, AssertStateBoundary, IsCompensating
<1>2. Phase(s) = "undoing"
  BY DEF Phase, IsWorkflowTerminal, IsCompensating
<1>3. \A i \in Steps : s.steps[i].state \notin {"running", "waiting_retry", "compensation_failed"}
  BY <1>1 DEF AssertCompensationBoundary, Sound, Fresh, IsCompensating
<1>4. Compensable \subseteq Steps
  BY DefinitionAssumption
<1>5. Open(s) = Undoable(s)
  <2>1. ASSUME NEW i \in Compensable
        PROVE  Seen(s.steps[i].state) = "done" <=>
                 s.steps[i].state \in {"committed", "compensation_waiting_retry", "compensating"}
    BY <1>3, <1>4 DEF Seen, OutputStates
  <2> QED  BY <2>1 DEF Open, Undoable
<1>6. Active(s) \subseteq Open(s)
  <2> SUFFICES ASSUME NEW i \in Active(s) PROVE i \in Open(s)
    OBVIOUS
  <2>1. i \in Steps /\ s.steps[i].state \in {"compensating", "compensation_waiting_retry"}
    BY DEF Active, ActiveStates
  <2>2. i \in Compensable
    BY <2>1, ValidInParts DEF Sound, StepFits, AssertStep, CompensationAttemptStates
  <2> QED  BY <2>1, <2>2 DEF Open
<1> QED  BY <1>1, <1>2, <1>3, <1>4, <1>5, <1>6 DEF Open

\* Around the last open step, compensation has run in reverse order.
LEMMA LastOpenFacts ==
    ASSUME NEW s \in Snapshot, Sound(s), IsCompensating(s), NEW i \in Steps, LastOpen(s, i)
    PROVE  ReverseOrderAround(s, i) /\ Active(s) \subseteq {i}
<1>1. /\ AssertCompensationBoundary(s) /\ Active(s) \subseteq Open(s)
      /\ i \in Open(s) /\ i \in Compensable
      /\ s.steps[i].state \in {"committed", "compensation_waiting_retry", "compensating"}
  BY CompensationFacts DEF LastOpen, Open
<1>2. Active(s) \subseteq {i}
  <2> SUFFICES ASSUME NEW a \in Active(s), a # i PROVE FALSE
    OBVIOUS
  <2>1. a \in Steps /\ a <= i
    BY <1>1 DEF LastOpen, Active
  <2>2. i > a
    BY <2>1, StepNumbers
  <2>3. s.steps[i].state # "committed"
    BY <1>1, <2>2 DEF AssertCompensationBoundary, ReverseOrderAround
  <2>4. i \in Active(s)
    BY <1>1, <2>3 DEF Active, ActiveStates
  <2> QED  BY <1>1, <2>4 DEF AssertCompensationBoundary, AtMostOne
<1>3. \A j \in Steps : j > i /\ j \in Compensable => s.steps[j].state # "committed"
  <2> SUFFICES ASSUME NEW j \in Steps, j > i, j \in Compensable, s.steps[j].state = "committed"
               PROVE  FALSE
    OBVIOUS
  <2>1. j \in Open(s)
    BY DEF Open
  <2>2. j <= i
    BY <2>1 DEF LastOpen
  <2> QED  BY <2>2, StepNumbers
<1>4. \A j \in Steps : j < i => s.steps[j].state # "compensated"
  <2>1. CASE s.steps[i].state = "committed"
    BY <1>1, <2>1 DEF Sound, Fresh
  <2>2. CASE s.steps[i].state # "committed"
    <3>1. i \in Active(s)
      BY <1>1, <2>2 DEF Active, ActiveStates
    <3> QED  BY <1>1, <3>1 DEF AssertCompensationBoundary, ReverseOrderAround
  <2> QED  BY <2>1, <2>2
<1> QED  BY <1>2, <1>3, <1>4 DEF ReverseOrderAround

\* A change of the last open step during compensation.
CompensationMove(s, n, i, state, new) ==
    /\ Sound(s) /\ IsCompensating(s) /\ LastOpen(s, i)
    /\ Changes(s, n, i, state, new) /\ StepFits(i, new)
    /\ new.attempts >= s.steps[i].attempts
    /\ new.compensationAttempts >= s.steps[i].compensationAttempts
    /\ \/ new.state = state /\ state \in ActiveStates \cup {"compensation_failed"}
       \/ new.state = "compensated" /\ state = "compensating"

\* The changed snapshot is valid.
LEMMA CompensationMoveValid ==
    ASSUME NEW s \in Snapshot, NEW i \in Steps, NEW state, NEW new, NEW n,
           CompensationMove(s, n, i, state, new)
    PROVE  ValidSnapshot(n)
<1>1. /\ Sound(s) /\ IsCompensating(s) /\ LastOpen(s, i) /\ StepFits(i, new)
      /\ n \in Snapshot /\ n.state = state /\ n.steps[i] = new
      /\ \A j \in Steps \ {i} : n.steps[j] = s.steps[j]
      /\ \/ new.state = state /\ state \in ActiveStates \cup {"compensation_failed"}
         \/ new.state = "compensated" /\ state = "compensating"
  BY DEF CompensationMove, Changes, Restates
<1>2. /\ AssertCompensationBoundary(s)
      /\ \A j \in Steps : s.steps[j].state \notin {"running", "waiting_retry", "compensation_failed"}
      /\ s.steps[i].state \in {"committed", "compensation_waiting_retry", "compensating"}
  BY <1>1, CompensationFacts DEF LastOpen, Open
<1>3. ReverseOrderAround(s, i) /\ Active(s) \subseteq {i}
  BY <1>1, LastOpenFacts
<1>4. new.state \in {"compensating", "compensation_waiting_retry", "compensation_failed", "compensated"}
      /\ state \in {"compensating", "compensation_waiting_retry", "compensation_failed"}
  BY <1>1 DEF ActiveStates
<1>5. ReverseOrderAround(n, i)
  <2>1. \A j \in Steps : j > i \/ j < i => j # i
    BY StepNumbers
  <2> QED  BY <1>1, <1>3, <2>1 DEF ReverseOrderAround
<1>6. /\ Active(n) \subseteq {i} /\ (i \in Active(n) <=> new.state \in ActiveStates)
      /\ InState(n, "compensation_failed") \subseteq {i}
      /\ (i \in InState(n, "compensation_failed") <=> new.state = "compensation_failed")
  <2>1. \A j \in Steps \ {i} : s.steps[j].state \notin ActiveStates
    BY <1>3 DEF Active
  <2>2. \A j \in Steps \ {i} : n.steps[j].state \notin ActiveStates \cup {"compensation_failed"}
    BY <1>1, <1>2, <2>1
  <2> QED  BY <1>1, <2>2 DEF Active, InState
<1>7. InState(n, "failed") = InState(s, "failed")
  <2>1. \A j \in Steps : n.steps[j].state = "failed" <=> s.steps[j].state = "failed"
    BY <1>1, <1>2, <1>4
  <2> QED  BY <2>1 DEF InState
<1>8. \A a, b \in Steps : a < b /\ n.steps[a].state = "pending" => n.steps[b].state = "pending"
  <2>1. \A j \in Steps : n.steps[j].state = "pending" <=> s.steps[j].state = "pending"
    BY <1>1, <1>2, <1>4
  <2> QED  BY <1>2, <2>1 DEF AssertCompensationBoundary
<1>9. \A j \in Steps : n.steps[j].state \notin {"running", "waiting_retry"}
  BY <1>1, <1>2, <1>4
<1>10. AssertCompensationBoundary(n)
  <2>1. AtMostOne(Active(n)) /\ AtMostOne(InState(n, "compensation_failed"))
    BY <1>6 DEF AtMostOne
  <2>2. AtMostOne(InState(n, "failed"))
    BY <1>2, <1>7 DEF AssertCompensationBoundary
  <2>3. n.state \in ActiveStates => \A j \in Active(n) : n.steps[j].state = n.state
    BY <1>1, <1>6 DEF ActiveStates
  <2>4. n.state = "compensation_waiting_retry" => Active(n) # {}
    BY <1>1, <1>6 DEF ActiveStates
  <2>5. n.state \notin ActiveStates => Active(n) = {}
    BY <1>1, <1>6 DEF ActiveStates
  <2>6. \E j \in Steps : n.steps[j].state # "pending"
    BY <1>1, <1>4
  <2>7. n.state = "compensation_failed" => InState(n, "compensation_failed") # {}
    BY <1>1, <1>6
  <2>8. \A j \in Active(n) \cup InState(n, "compensation_failed") : ReverseOrderAround(n, j)
    BY <1>5, <1>6
  <2> QED  BY <1>1, <1>4, <1>8, <1>9, <2>1, <2>2, <2>3, <2>4, <2>5, <2>6, <2>7, <2>8
           DEF AssertCompensationBoundary
<1>11. AssertStateBoundary(n)
  BY <1>1, <1>4, <1>10 DEF AssertStateBoundary
<1>12. \A j \in Steps : StepFits(j, n.steps[j])
  <2>1. \A j \in Steps : StepFits(j, s.steps[j])
    BY <1>1, ValidInParts DEF Sound
  <2>2. \A j \in Steps \ {i} : StepFits(j, n.steps[j])
    BY <1>1, <2>1
  <2> QED  BY <1>1, <2>2
<1>13. n.state = "compensating" => Active(n) # {} \/ InState(n, "compensated") # {}
  <2>1. new.state = "compensated" => i \in InState(n, "compensated")
    BY <1>1 DEF InState
  <2> QED  BY <1>1, <1>6, <2>1 DEF ActiveStates
<1> QED  BY <1>1, <1>4, <1>11, <1>12, <1>13, ValidInParts

\* A change of the last open step is a candidate.
LEMMA CompensationCandidate ==
    ASSUME NEW s \in Snapshot, NEW i \in Steps, NEW state, NEW new, NEW n,
           CompensationMove(s, n, i, state, new),
           NEW release, ~release => Starts(s, n, i)
    PROVE  Candidate(s, n, release)
<1>1. /\ Sound(s) /\ IsCompensating(s) /\ LastOpen(s, i)
      /\ n \in Snapshot /\ n.state = state /\ n.steps[i] = new /\ n.revision = s.revision
      /\ n.cancellationRequested = s.cancellationRequested
      /\ \A j \in Steps \ {i} : n.steps[j] = s.steps[j]
      /\ new.attempts >= s.steps[i].attempts
      /\ new.compensationAttempts >= s.steps[i].compensationAttempts
      /\ \/ new.state = state /\ state \in ActiveStates \cup {"compensation_failed"}
         \/ new.state = "compensated" /\ state = "compensating"
  BY DEF CompensationMove, Changes, Restates
<1>2. /\ \A j \in Steps : s.steps[j].state # "compensation_failed"
      /\ Phase(s) = "undoing" /\ Open(s) = Undoable(s)
      /\ s.steps[i].state \in {"committed", "compensation_waiting_retry", "compensating"}
  BY <1>1, CompensationFacts DEF LastOpen, Open
<1>3. ReverseOrderAround(s, i)
  BY <1>1, LastOpenFacts
<1>4. new.state \in {"compensating", "compensation_waiting_retry", "compensation_failed", "compensated"}
  BY <1>1 DEF ActiveStates
<1>5. ASSUME NEW j \in Steps
      PROVE  /\ n.steps[j].attempts >= s.steps[j].attempts
             /\ n.steps[j].compensationAttempts >= s.steps[j].compensationAttempts
  <2>1. CASE j = i
    BY <1>1, <2>1
  <2>2. CASE j # i
    <3>1. n.steps[j] = s.steps[j]
      BY <1>1, <2>2
    <3> QED  BY <3>1, StepNumbers
  <2> QED  BY <2>1, <2>2
<1>6. Fresh(n)
  <2>1. ASSUME NEW j \in Steps
        PROVE  /\ n.steps[j].state \notin CompensationAttemptStates =>
                     n.steps[j].compensationAttempts = 0
               /\ n.steps[j].state = "pending" /\ ~n.cancellationRequested =>
                     n.steps[j].attempts = 0
               /\ n.state # "compensation_failed" => n.steps[j].state # "compensation_failed"
    <3>1. CASE j = i
      BY <1>1, <1>4, <3>1 DEF CompensationAttemptStates
    <3>2. CASE j # i
      <4>1. n.steps[j] = s.steps[j]
        BY <1>1, <3>2
      <4> QED  BY <1>1, <1>2, <4>1 DEF Sound, Fresh
    <3> QED  BY <3>1, <3>2
  <2>2. ASSUME NEW a \in Steps, NEW b \in Steps,
               a < b, b \in Compensable, n.steps[a].state = "compensated"
        PROVE  n.steps[b].state # "committed"
    <3>1. CASE b = i
      BY <1>1, <1>4, <3>1
    <3>2. CASE b # i /\ a = i
      <4>1. b > i
        BY <2>2, <3>2, StepNumbers
      <4> QED  BY <1>1, <1>3, <2>2, <3>2, <4>1 DEF ReverseOrderAround
    <3>3. CASE b # i /\ a # i
      BY <1>1, <2>2, <3>3 DEF Sound, Fresh
    <3> QED  BY <3>1, <3>2, <3>3
  <2> QED  BY <2>1, <2>2 DEF Fresh
<1>7. SagaStepTo(s, n)
  <2>1. \A j \in Steps \ {i} : Seen(n.steps[j].state) = Seen(s.steps[j].state)
    BY <1>1
  <2>2. Seen(s.steps[i].state) = "done" /\ i \in Undoable(s) /\ \A j \in Undoable(s) : j <= i
    BY <1>1, <1>2 DEF Seen, OutputStates, LastOpen
  <2>3. CASE new.state = "compensated"
    <3>1. Seen(n.steps[i].state) = "undone"
      BY <1>1, <2>3 DEF Seen
    <3>2. n.state = "compensating"
      BY <1>1, <2>3 DEF ActiveStates
    <3>3. Phase(n) = "undoing"
      BY <3>2 DEF Phase, IsWorkflowTerminal, IsCompensating
    <3> QED  BY <3>3, <1>2, <2>1, <2>2, <3>1 DEF SagaStepTo, Undoes, Moves
  <2>4. CASE new.state # "compensated"
    <3>1. Seen(n.steps[i].state) = "done"
      BY <1>1, <1>4, <2>4 DEF Seen, OutputStates
    <3>2. SameSteps(s, n)
      BY <2>1, <2>2, <3>1 DEF SameSteps
    <3>3. Phase(n) = "undoing" \/ Phase(n) = "compensation_failed"
      BY <1>1, <1>4, <2>4 DEF Phase, IsWorkflowTerminal, IsCompensating
    <3> QED  BY <1>2, <2>2, <3>2, <3>3 DEF SagaStepTo, Stays, Ends
  <2> QED  BY <2>3, <2>4
<1>8. ValidSnapshot(n)
  BY CompensationMoveValid
<1> QED  BY <1>1, <1>5, <1>6, <1>7, <1>8 DEF Candidate

\* No step is open: the workflow ends as compensated, or as cancelled.
LEMMA UndoneCandidate ==
    ASSUME NEW s \in Snapshot, Sound(s), IsCompensating(s), Open(s) = {},
           NEW state, state = (IF s.cancellationRequested THEN "cancelled" ELSE "compensated"),
           NEW n, Restates(s, n, state), n.steps = s.steps
    PROVE  Candidate(s, n, TRUE)
<1>1. /\ AssertCompensationBoundary(s) /\ Phase(s) = "undoing"
      /\ \A j \in Steps : s.steps[j].state # "compensation_failed"
      /\ Undoable(s) = {} /\ Active(s) = {}
  BY CompensationFacts
<1>2. /\ n \in Snapshot /\ n.state = state /\ n.revision = s.revision /\ n.steps = s.steps
      /\ n.cancellationRequested = s.cancellationRequested
      /\ n.state \in {"cancelled", "compensated"}
  BY DEF Restates
<1>3. Fresh(n)
  BY <1>1, <1>2 DEF Sound, Fresh
<1>4. SagaStepTo(s, n)
  <2>1. Phase(n) = n.state
    BY <1>2 DEF Phase, IsWorkflowTerminal
  <2> QED  BY <1>1, <1>2, <2>1 DEF SagaStepTo, Ends, SameSteps
<1>5. ASSUME ~n.cancellationRequested PROVE ValidSnapshot(n)
  <2>1. n.state = "compensated" /\ s.state = "compensating"
    BY <1>1, <1>2, <1>5 DEF AssertCompensationBoundary, IsCompensating
  <2>2. Active(n) = {} /\ \A x : InState(n, x) = InState(s, x)
    BY <1>1, <1>2 DEF Active, InState
  <2>3. \A j \in Compensable : s.steps[j].state # "committed"
    BY DEF Open
  <2>4. InState(s, "compensated") # {}
    <3>1. InState(s, "committed") \cap Compensable = {}
      BY <2>3 DEF InState
    <3> QED  BY <1>1, <2>1, <3>1, ValidInParts DEF Sound
  <2>5. AssertCompensationBoundary(n)
    BY <1>1, <1>2, <2>1, <2>2, <2>3, <2>4 DEF AssertCompensationBoundary, ActiveStates
  <2>6. AssertStateBoundary(n)
    BY <2>1, <2>5 DEF AssertStateBoundary
  <2>7. \A j \in Steps : StepFits(j, n.steps[j])
    BY <1>2, ValidInParts DEF Sound
  <2> QED  BY <1>2, <2>1, <2>6, <2>7, ValidInParts
<1> QED  BY <1>2, <1>3, <1>4, <1>5, StepNumbers DEF Candidate

\* The attempt that starts a compensation is counted, and the budget covers it.
LEMMA StartCompensationCandidate ==
    ASSUME NEW s \in Snapshot, Sound(s), IsCompensating(s), NEW i \in Steps, LastOpen(s, i),
           s.steps[i].state # "compensating",
           NEW n, Changes(s, n, i, "compensating", StartCompensation(s.steps[i]))
    PROVE  Candidate(s, n, FALSE)
<1> DEFINE step == s.steps[i]
<1>1. PICK new : new = StartCompensation(step)
  OBVIOUS
<1>2. step \in StepSnapshot /\ StepFits(i, step) /\ i \in Compensable
      /\ step.state \in {"committed", "compensation_waiting_retry"}
  BY ValidInParts DEF Snapshot, Sound, LastOpen, Open
<1>3. MaxAttempts[i] \in Nat /\ MaxAttempts[i] >= 1
  BY DefinitionAssumption
<1>4. /\ step.attempts \in Nat /\ step.compensationAttempts \in Nat
      /\ step.compensationAttempts < MaxAttempts[i]
  BY <1>2, <1>3 DEF StepFits, Sound, Fresh, CompensationAttemptStates, StepSnapshot
<1>5. /\ new.state = "compensating" /\ new.attempts = step.attempts
      /\ new.compensationAttempts = step.compensationAttempts + 1
      /\ new.has = step.has \ {"retryAt", "error"}
  BY <1>1, <1>2 DEF StartCompensation, StepSnapshot
<1>6. StepFits(i, new)
  BY <1>2, <1>3, <1>4, <1>5
     DEF StepFits, AssertStep, OutputStates, AttemptStates, CompensationAttemptStates,
         WaitingStates, ErrorStates
<1>7. CompensationMove(s, n, i, "compensating", new)
  <2>1. Changes(s, n, i, "compensating", new)
    BY <1>1
  <2>2. new.attempts >= step.attempts /\ new.compensationAttempts >= step.compensationAttempts
    BY <1>4, <1>5
  <2> QED  BY <1>5, <1>6, <2>1, <2>2 DEF CompensationMove, ActiveStates
<1>8. Starts(s, n, i)
  BY <1>1, <1>5 DEF Starts, Changes, Restates
<1> QED  BY <1>7, <1>8, CompensationCandidate

\* A failed compensation waits for a retry while the budget lasts.
LEMMA WaitCompensationCandidate ==
    ASSUME NEW s \in Snapshot, Sound(s), IsCompensating(s), NEW i \in Steps, LastOpen(s, i),
           s.steps[i].state = "compensating", s.steps[i].compensationAttempts < MaxAttempts[i],
           NEW n,
           Changes(s, n, i, "compensation_waiting_retry",
                   [s.steps[i] EXCEPT !.state = "compensation_waiting_retry",
                                      !.has = @ \cup {"error", "retryAt"}])
    PROVE  Candidate(s, n, TRUE)
<1> DEFINE step == s.steps[i]
<1>1. PICK new : new = [step EXCEPT !.state = "compensation_waiting_retry",
                                    !.has = @ \cup {"error", "retryAt"}]
  OBVIOUS
<1>2. step \in StepSnapshot /\ StepFits(i, step) /\ i \in Compensable
  BY ValidInParts DEF Snapshot, Sound, LastOpen, Open
<1>3. MaxAttempts[i] \in Nat /\ step.attempts \in Nat /\ step.compensationAttempts \in Nat
  BY <1>2, DefinitionAssumption DEF StepSnapshot
<1>4. /\ new.state = "compensation_waiting_retry" /\ new.attempts = step.attempts
      /\ new.compensationAttempts = step.compensationAttempts
      /\ new.has = step.has \cup {"error", "retryAt"}
  BY <1>1, <1>2 DEF StepSnapshot
<1>5. StepFits(i, new)
  BY <1>2, <1>3, <1>4
     DEF StepFits, AssertStep, OutputStates, AttemptStates, CompensationAttemptStates,
         WaitingStates, ErrorStates
<1>6. CompensationMove(s, n, i, "compensation_waiting_retry", new)
  <2>1. Changes(s, n, i, "compensation_waiting_retry", new)
    BY <1>1
  <2>2. new.attempts >= step.attempts /\ new.compensationAttempts >= step.compensationAttempts
    BY <1>3, <1>4
  <2> QED  BY <1>4, <1>5, <2>1, <2>2 DEF CompensationMove, ActiveStates
<1> QED  BY <1>6, CompensationCandidate

\* A compensation that failed for good ends the workflow.
LEMMA FailCompensationCandidate ==
    ASSUME NEW s \in Snapshot, Sound(s), IsCompensating(s), NEW i \in Steps, LastOpen(s, i),
           s.steps[i].state = "compensating",
           NEW n,
           Changes(s, n, i, "compensation_failed",
                   [s.steps[i] EXCEPT !.state = "compensation_failed", !.has = @ \cup {"error"}])
    PROVE  Candidate(s, n, TRUE)
<1> DEFINE step == s.steps[i]
<1>1. PICK new : new = [step EXCEPT !.state = "compensation_failed", !.has = @ \cup {"error"}]
  OBVIOUS
<1>2. step \in StepSnapshot /\ StepFits(i, step) /\ i \in Compensable
  BY ValidInParts DEF Snapshot, Sound, LastOpen, Open
<1>3. step.attempts \in Nat /\ step.compensationAttempts \in Nat
  BY <1>2 DEF StepSnapshot
<1>4. /\ new.state = "compensation_failed" /\ new.attempts = step.attempts
      /\ new.compensationAttempts = step.compensationAttempts /\ new.has = step.has \cup {"error"}
  BY <1>1, <1>2 DEF StepSnapshot
<1>5. StepFits(i, new)
  BY <1>2, <1>3, <1>4
     DEF StepFits, AssertStep, OutputStates, AttemptStates, CompensationAttemptStates,
         WaitingStates, ErrorStates
<1>6. CompensationMove(s, n, i, "compensation_failed", new)
  <2>1. Changes(s, n, i, "compensation_failed", new)
    BY <1>1
  <2>2. new.attempts >= step.attempts /\ new.compensationAttempts >= step.compensationAttempts
    BY <1>3, <1>4
  <2> QED  BY <1>4, <1>5, <2>1, <2>2 DEF CompensationMove
<1> QED  BY <1>6, CompensationCandidate

\* The compensation returned: the step is undone.
LEMMA UndoCandidate ==
    ASSUME NEW s \in Snapshot, Sound(s), s.state = "compensating",
           NEW i \in Steps, LastOpen(s, i), s.steps[i].state = "compensating",
           NEW n, Changes(s, n, i, "compensating", [s.steps[i] EXCEPT !.state = "compensated"])
    PROVE  Candidate(s, n, TRUE)
<1> DEFINE step == s.steps[i]
<1>1. PICK new : new = [step EXCEPT !.state = "compensated"]
  OBVIOUS
<1>2. step \in StepSnapshot /\ StepFits(i, step) /\ i \in Compensable
  BY ValidInParts DEF Snapshot, Sound, LastOpen, Open
<1>3. step.attempts \in Nat /\ step.compensationAttempts \in Nat
  BY <1>2 DEF StepSnapshot
<1>4. /\ new.state = "compensated" /\ new.attempts = step.attempts
      /\ new.compensationAttempts = step.compensationAttempts /\ new.has = step.has
  BY <1>1, <1>2 DEF StepSnapshot
<1>5. StepFits(i, new)
  BY <1>2, <1>3, <1>4
     DEF StepFits, AssertStep, OutputStates, AttemptStates, CompensationAttemptStates,
         WaitingStates, ErrorStates
<1>6. CompensationMove(s, n, i, "compensating", new)
  <2>1. Changes(s, n, i, "compensating", new)
    BY <1>1
  <2>2. new.attempts >= step.attempts /\ new.compensationAttempts >= step.compensationAttempts
    BY <1>3, <1>4
  <2> QED  BY <1>4, <1>5, <2>1, <2>2 DEF CompensationMove, IsCompensating
<1> QED  BY <1>6, CompensationCandidate

(***************************************************************************)
(* Every candidate the manager builds.                                     *)
(***************************************************************************)

\* finishForwardFailure.
LEMMA ForwardFailureCandidate ==
    ASSUME NEW s \in Snapshot, Sound(s), NEW k \in 0..NSteps, ForwardAt(s, k),
           NEW i \in Steps, i = k + 1, s.steps[i].state = "running",
           NEW n \in FinishForwardFailure(s, i)
    PROVE  Candidate(s, n, TRUE)
<1>1. PICK failed, waiting :
         /\ failed = [s.steps[i] EXCEPT !.state = "failed", !.has = @ \cup {"error"}]
         /\ waiting = WaitForward(s.steps[i])
  OBVIOUS
<1>2. PICK t, u : /\ t = [s EXCEPT !.steps[i] = failed, !.state = "failed"]
                  /\ u = [s EXCEPT !.steps[i] = waiting, !.state = "waiting_retry"]
  OBVIOUS
<1>3. \/ n = BeginCompensationOrCancel(t, FALSE)
      \/ n = u /\ s.steps[i].attempts < MaxAttempts[i]
  BY <1>1, <1>2 DEF FinishForwardFailure
<1>4. failed \in StepSnapshot /\ waiting \in StepSnapshot /\ failed.state = "failed"
  <2>1. s.steps[i] \in StepSnapshot
    BY DEF Snapshot
  <2> QED  BY <1>1, <2>1 DEF StepSnapshot, StepStates, WaitForward
<1>5. CASE n = u /\ s.steps[i].attempts < MaxAttempts[i]
  <2>1. Changes(s, u, i, "waiting_retry", waiting)
    BY <1>2, <1>4 DEF Changes, Restates, Snapshot, WorkflowStates
  <2> QED  BY <1>1, <1>5, <2>1, WaitForwardCandidate
<1>6. CASE n = BeginCompensationOrCancel(t, FALSE)
  <2>1. /\ t \in Snapshot /\ t.revision = s.revision
        /\ t.cancellationRequested = s.cancellationRequested
        /\ t.steps = [s.steps EXCEPT ![i] = failed]
    BY <1>2, <1>4 DEF Snapshot, WorkflowStates
  <2>2. t.steps[i] = failed /\ \A j \in Steps \ {i} : t.steps[j] = s.steps[j]
    BY <2>1 DEF Snapshot
  <2>3. /\ n \in Snapshot /\ n.revision = t.revision /\ n.steps = t.steps
        /\ n.cancellationRequested = t.cancellationRequested
    BY <1>6, <2>1, BeginKeeps
  <2>4. n.state = IF \E j \in Compensable : t.steps[j].state = "committed"
                  THEN "compensating" ELSE "failed"
    BY <1>6, <2>1, BeginDecides
  <2>5. \A j \in Compensable : t.steps[j].state = "committed" <=> s.steps[j].state = "committed"
    BY <1>4, <2>2, DefinitionAssumption
  <2>6. n.state = IF \E j \in Compensable : s.steps[j].state = "committed"
                  THEN "compensating" ELSE "failed"
    BY <2>4, <2>5
  <2>7. Changes(s, n, i, n.state, failed)
    BY <2>1, <2>2, <2>3 DEF Changes, Restates
  <2> QED  BY <1>1, <2>6, <2>7, FailForwardCandidate
<1> QED  BY <1>3, <1>5, <1>6

\* finishCompensationFailure.
LEMMA CompensationFailureCandidate ==
    ASSUME NEW s \in Snapshot, Sound(s), IsCompensating(s), NEW i \in Steps, LastOpen(s, i),
           s.steps[i].state = "compensating",
           NEW n \in FinishCompensationFailure(s, i)
    PROVE  Candidate(s, n, TRUE)
<1>1. PICK failed, waiting :
         /\ failed = [s.steps[i] EXCEPT !.state = "compensation_failed", !.has = @ \cup {"error"}]
         /\ waiting = [s.steps[i] EXCEPT !.state = "compensation_waiting_retry",
                                         !.has = @ \cup {"error", "retryAt"}]
  OBVIOUS
<1>2. PICK t, u : /\ t = [s EXCEPT !.steps[i] = failed, !.state = "compensation_failed"]
                  /\ u = [s EXCEPT !.steps[i] = waiting, !.state = "compensation_waiting_retry"]
  OBVIOUS
<1>3. n = t \/ (n = u /\ s.steps[i].compensationAttempts < MaxAttempts[i])
  BY <1>1, <1>2 DEF FinishCompensationFailure
<1>4. failed \in StepSnapshot /\ waiting \in StepSnapshot
  <2>1. s.steps[i] \in StepSnapshot
    BY DEF Snapshot
  <2> QED  BY <1>1, <2>1 DEF StepSnapshot, StepStates
<1>5. /\ Changes(s, t, i, "compensation_failed", failed)
      /\ Changes(s, u, i, "compensation_waiting_retry", waiting)
  BY <1>2, <1>4 DEF Changes, Restates, Snapshot, WorkflowStates
<1> QED  BY <1>1, <1>3, <1>5, WaitCompensationCandidate, FailCompensationCandidate

\* execute: the first step that is not committed is the one after the boundary.
LEMMA ExecuteCandidate ==
    ASSUME NEW s \in Snapshot, Sound(s), NEW k \in 0..NSteps, ForwardAt(s, k),
           ~s.cancellationRequested, NEW plan \in Execute(s)
    PROVE  Candidate(s, plan.next, plan.release)
<1> DEFINE First(i) == /\ s.steps[i].state # "committed"
                       /\ \A j \in 1..(i - 1) : s.steps[j].state = "committed"
<1>1. CASE \A i \in Steps : s.steps[i].state = "committed"
  <2>1. plan = Release([s EXCEPT !.state = "completed"])
    BY <1>1 DEF Execute
  <2>2. PICK n : n = [s EXCEPT !.state = "completed"]
    OBVIOUS
  <2>3. Restates(s, n, "completed") /\ n.steps = s.steps
    BY <2>2 DEF Restates, Snapshot, WorkflowStates
  <2>4. plan.next = n /\ plan.release = TRUE
    BY <2>1, <2>2 DEF Release
  <2> QED  BY <1>1, <2>3, <2>4, CompleteCandidate
<1>2. CASE ~\A i \in Steps : s.steps[i].state = "committed"
  <2>1. \A i \in Steps : s.steps[i].state = "committed" <=> i <= k
    BY ForwardSeen
  <2>2. k + 1 \in Steps
    <3>1. PICK i \in Steps : ~(i <= k)
      BY <1>2, <2>1
    <3> QED  BY <3>1, DefinitionAssumption DEF Steps
  <2>3. First(k + 1)
    <3>1. \A j \in 1..((k + 1) - 1) : j \in Steps /\ j <= k
      BY DefinitionAssumption DEF Steps
    <3>2. ~(k + 1 <= k)
      OBVIOUS
    <3> QED  BY <2>1, <2>2, <3>1, <3>2
  <2>4. PICK i : i = CHOOSE j \in Steps : First(j)
    OBVIOUS
  <2>5. i \in Steps /\ First(i)
    BY <2>2, <2>3, <2>4
  <2>6. i = k + 1
    <3>1. ~(i <= k)
      BY <2>1, <2>5
    <3>2. i > k + 1 => FALSE
      <4> SUFFICES ASSUME i > k + 1 PROVE FALSE
        OBVIOUS
      <4>1. k + 1 \in 1..(i - 1)
        BY <2>5 DEF Steps
      <4> QED  BY <2>3, <2>5, <4>1
    <3> QED  BY <2>5, <3>1, <3>2, StepNumbers
  <2>7. CASE s.steps[i].state = "running"
    <3>1. \E n \in FinishForwardFailure(s, i) : plan = Release(n)
      BY <1>2, <2>4, <2>7 DEF Execute
    <3>2. plan.next \in FinishForwardFailure(s, i) /\ plan.release = TRUE
      BY <3>1 DEF Release
    <3> QED  BY <2>5, <2>6, <2>7, <3>2, ForwardFailureCandidate
  <2>8. CASE s.steps[i].state # "running"
    <3>1. plan = Hold([s EXCEPT !.state = "running", !.steps[i] = StartForward(@)])
      BY <1>2, <2>4, <2>8 DEF Execute
    <3>2. PICK new, n : /\ new = StartForward(s.steps[i])
                        /\ n = [s EXCEPT !.state = "running", !.steps[i] = new]
      OBVIOUS
    <3>3. plan.next = n /\ plan.release = FALSE
      BY <3>1, <3>2 DEF Hold
    <3>4. new \in StepSnapshot
      BY <2>5, <3>2, StartTypes DEF Snapshot
    <3>5. Changes(s, n, i, "running", new)
      BY <2>5, <3>2, <3>4 DEF Changes, Restates, Snapshot, WorkflowStates
    <3> QED  BY <2>5, <2>6, <2>8, <3>2, <3>3, <3>5, StartForwardCandidate
  <2> QED  BY <2>7, <2>8
<1> QED  BY <1>1, <1>2

\* A set of steps that is not empty has a last one.
LEMMA LastStepExists ==
    ASSUME NEW S \in SUBSET Steps, S # {}
    PROVE  \E i \in S : \A j \in S : j <= i
<1> DEFINE T == {NSteps - i : i \in S}
           Less == OpToRel(<, Nat)
<1>1. NSteps \in Nat /\ \A i \in S : i \in 1..NSteps
  BY DefinitionAssumption DEF Steps
<1>2. T \subseteq Nat /\ T # {}
  BY <1>1
<1>3. IsWellFoundedOn(Less, Nat)
  BY NatLessThanWellFounded
<1>4. \A x, y \in Nat : <<y, x>> \in Less <=> y < x
  BY DEF OpToRel
<1> HIDE DEF T, Less
<1>5. PICK x \in T : \A y \in T : ~(<<y, x>> \in Less)
  BY <1>2, <1>3, WFMin
<1>6. ASSUME NEW y \in T PROVE x <= y
  <2>1. x \in Nat /\ y \in Nat
    BY <1>2
  <2>2. ~(y < x)
    BY <1>4, <1>5, <2>1
  <2> QED  BY <2>1, <2>2
<1>7. PICK i \in S : x = NSteps - i
  BY DEF T
<1>8. ASSUME NEW j \in S PROVE j <= i
  <2>1. NSteps - j \in T
    BY DEF T
  <2>2. NSteps - i <= NSteps - j
    BY <1>6, <1>7, <2>1
  <2> QED  BY <1>1, <2>2
<1> QED  BY <1>8

\* compensate: the step it works on is the last open one.
LEMMA CompensateCandidate ==
    ASSUME NEW s \in Snapshot, Sound(s), IsCompensating(s), NEW plan \in Compensate(s)
    PROVE  Candidate(s, plan.next, plan.release)
<1>1. CASE Open(s) = {}
  <2>1. plan = Release([s EXCEPT !.state = IF s.cancellationRequested
                                           THEN "cancelled" ELSE "compensated"])
    BY <1>1 DEF Compensate, Open
  <2>2. PICK state, n : /\ state = (IF s.cancellationRequested THEN "cancelled" ELSE "compensated")
                        /\ n = [s EXCEPT !.state = state]
    OBVIOUS
  <2>3. Restates(s, n, state) /\ n.steps = s.steps
    BY <2>2 DEF Restates, Snapshot, WorkflowStates
  <2>4. plan.next = n /\ plan.release = TRUE
    BY <2>1, <2>2 DEF Release
  <2>5. Candidate(s, n, TRUE)
    BY Zenon, <1>1, <2>2, <2>3, UndoneCandidate
  <2> QED  BY <2>4, <2>5
<1>2. CASE Open(s) # {}
  <2>1. PICK i : i = CHOOSE k \in Open(s) : \A j \in Open(s) : j <= k
    OBVIOUS
  <2>2. LastOpen(s, i) /\ i \in Steps
    <3>1. \E k \in Open(s) : \A j \in Open(s) : j <= k
      BY <1>2, CompensationFacts, LastStepExists
    <3> QED  BY <2>1, <3>1, CompensationFacts DEF LastOpen
  <2>3. CASE s.steps[i].state = "compensating"
    <3>1. \E n \in FinishCompensationFailure(s, i) : plan = Release(n)
      BY <1>2, <2>1, <2>3 DEF Compensate, Open
    <3>2. plan.next \in FinishCompensationFailure(s, i) /\ plan.release = TRUE
      BY <3>1 DEF Release
    <3> QED  BY <2>2, <2>3, <3>2, CompensationFailureCandidate
  <2>4. CASE s.steps[i].state # "compensating"
    <3>1. plan = Hold([s EXCEPT !.state = "compensating", !.steps[i] = StartCompensation(@)])
      BY <1>2, <2>1, <2>4 DEF Compensate, Open
    <3>2. PICK new, n : /\ new = StartCompensation(s.steps[i])
                        /\ n = [s EXCEPT !.state = "compensating", !.steps[i] = new]
      OBVIOUS
    <3>3. plan.next = n /\ plan.release = FALSE
      BY <3>1, <3>2 DEF Hold
    <3>4. new \in StepSnapshot
      BY <2>2, <3>2, StartTypes DEF Snapshot
    <3>5. Changes(s, n, i, "compensating", new)
      BY <2>2, <3>2, <3>4 DEF Changes, Restates, Snapshot, WorkflowStates
    <3> QED  BY <2>2, <2>4, <3>2, <3>3, <3>5, StartCompensationCandidate
  <2> QED  BY <2>3, <2>4
<1> QED  BY <1>1, <1>2

\* advance: every plan from a snapshot that has not ended is a candidate.
LEMMA AdvanceCandidate ==
    ASSUME NEW s \in Snapshot, Sound(s), ~IsWorkflowTerminal(s), NEW plan \in Advance(s)
    PROVE  Candidate(s, plan.next, plan.release)
<1>1. CASE IsCompensating(s)
  BY <1>1, CompensateCandidate DEF Advance
<1>2. CASE ~IsCompensating(s)
  <2>1. PICK k \in 0..NSteps : ForwardAt(s, k)
    BY <1>2, ForwardBoundary DEF Sound
  <2>2. CASE ~s.cancellationRequested
    BY <1>2, <2>1, <2>2, ExecuteCandidate DEF Advance
  <2>3. CASE s.cancellationRequested
    <3>1. PICK d, n : d = DropForwardRetry(s) /\ n = BeginCompensationOrCancel(d, TRUE)
      OBVIOUS
    <3>2. plan.next = n /\ plan.release = TRUE
      <4>1. Advance(s) = {Release(n)}
        BY <1>2, <2>3, <3>1 DEF Advance
      <4> QED  BY <4>1 DEF Release
    <3>3. ASSUME NEW step \in StepSnapshot
          PROVE  LET new == [step EXCEPT !.state = "pending", !.has = @ \ {"retryAt", "error"}]
                 IN  /\ new \in StepSnapshot /\ new.state = "pending"
                     /\ new.attempts = step.attempts
                     /\ new.compensationAttempts = step.compensationAttempts
      <4>1. step.has \ {"retryAt", "error"} \in SUBSET {"output", "retryAt", "error"}
        BY DEF StepSnapshot
      <4> QED  BY <4>1 DEF StepSnapshot, StepStates
    <3>4. /\ d.revision = s.revision /\ d.cancellationRequested = s.cancellationRequested
          /\ d.steps = [j \in Steps |->
                IF s.steps[j].state = "waiting_retry"
                THEN [s.steps[j] EXCEPT !.state = "pending", !.has = @ \ {"retryAt", "error"}]
                ELSE s.steps[j]]
      BY <3>1 DEF DropForwardRetry, Snapshot
    <3>5. d \in Snapshot
      <4>1. \A j \in Steps : s.steps[j] \in StepSnapshot
        BY DEF Snapshot
      <4>2. d.steps \in [Steps -> StepSnapshot]
        BY <3>3, <3>4, <4>1
      <4>3. d = [s EXCEPT !.steps = d.steps]
        BY <3>1, <3>4 DEF DropForwardRetry
      <4> QED  BY <4>2, <4>3 DEF Snapshot
    <3>6. /\ n \in Snapshot /\ n.revision = s.revision /\ n.cancellationRequested
          /\ n.steps = d.steps
      BY <2>3, <3>1, <3>4, <3>5, BeginKeeps
    <3>7. n.state = (IF \E j \in Compensable : n.steps[j].state = "committed"
                     THEN "compensating" ELSE "cancelled")
      BY <3>1, <3>5, <3>6, BeginDecides
    <3>8. ASSUME NEW j \in Steps
          PROVE  \/ n.steps[j] = s.steps[j]
                 \/ /\ s.steps[j].state \in {"running", "waiting_retry"}
                    /\ n.steps[j].state = "pending"
                    /\ n.steps[j].attempts = s.steps[j].attempts
                    /\ n.steps[j].compensationAttempts = s.steps[j].compensationAttempts
      <4>1. s.steps[j] \in StepSnapshot
        BY DEF Snapshot
      <4>2. CASE s.steps[j].state = "waiting_retry"
        <5>1. n.steps[j] = [s.steps[j] EXCEPT !.state = "pending", !.has = @ \ {"retryAt", "error"}]
          <6>1. d.steps[j] = IF s.steps[j].state = "waiting_retry"
                  THEN [s.steps[j] EXCEPT !.state = "pending", !.has = @ \ {"retryAt", "error"}]
                  ELSE s.steps[j]
            BY Zenon, <3>4
          <6> QED  BY Zenon, <3>6, <4>2, <6>1
        <5>2. PICK step \in StepSnapshot : step = s.steps[j]
          BY <4>1
        <5>3. PICK new : new = [step EXCEPT !.state = "pending", !.has = @ \ {"retryAt", "error"}]
          OBVIOUS
        <5>4. /\ new.state = "pending" /\ new.attempts = step.attempts
              /\ new.compensationAttempts = step.compensationAttempts
          BY <3>3, <5>3
        <5> QED  BY <4>2, <5>1, <5>2, <5>3, <5>4
      <4>3. CASE s.steps[j].state # "waiting_retry"
        BY <3>4, <3>6, <4>3
      <4> QED  BY <4>2, <4>3
    <3> QED  BY <2>1, <3>2, <3>6, <3>7, <3>8, CancelCandidate
  <2> QED  BY <2>2, <2>3
<1> QED  BY <1>1, <1>2

(***************************************************************************)
(* The ends of a handler.                                                  *)
(***************************************************************************)

\* The running step is the one after the boundary, and the handled one.
LEMMA HandledForward ==
    ASSUME NEW s \in Snapshot, ValidSnapshot(s), s.state = "running",
           NEW i \in Steps, s.steps[i].state = "running"
    PROVE  HandledStep(s) = i /\ \E k \in 0..NSteps : ForwardAt(s, k) /\ i = k + 1
<1>1. PICK k \in 0..NSteps : ForwardAt(s, k)
  BY ForwardBoundary DEF IsWorkflowTerminal, IsCompensating
<1>2. ASSUME NEW j \in Steps, s.steps[j].state \in {"running", "compensating"}
      PROVE  j = k + 1
  <2>1. j <= k \/ j = k + 1 \/ j > k + 1
    BY StepNumbers
  <2> QED  BY <1>1, <1>2, <2>1 DEF ForwardAt
<1>3. i = k + 1
  BY <1>2
<1>4. \A j \in Steps : s.steps[j].state \in {"running", "compensating"} <=> j = i
  BY <1>2, <1>3
<1> QED  BY <1>1, <1>3, <1>4 DEF HandledStep

\* The compensating step is the last open one, and the handled one.
LEMMA HandledBackward ==
    ASSUME NEW s \in Snapshot, Sound(s), s.state = "compensating",
           NEW i \in Steps, s.steps[i].state = "compensating"
    PROVE  HandledStep(s) = i /\ LastOpen(s, i)
<1>1. /\ IsCompensating(s) /\ AssertCompensationBoundary(s) /\ Active(s) \subseteq Open(s)
      /\ Open(s) \subseteq Steps /\ \A j \in Steps : s.steps[j].state # "running"
      /\ i \in Active(s)
  BY CompensationFacts DEF IsCompensating, Active, ActiveStates
<1>2. AtMostOne(Active(s)) /\ ReverseOrderAround(s, i)
  BY <1>1 DEF AssertCompensationBoundary
<1>3. \A j \in Steps : s.steps[j].state \in {"running", "compensating"} <=> j = i
  <2>1. \A j \in Steps : s.steps[j].state = "compensating" => j \in Active(s)
    BY DEF Active, ActiveStates
  <2> QED  BY <1>1, <1>2, <2>1 DEF AtMostOne
<1>4. ASSUME NEW j \in Open(s) PROVE j <= i
  <2> SUFFICES ASSUME ~(j <= i) PROVE FALSE
    OBVIOUS
  <2>1. j \in Steps /\ j > i /\ j \in Compensable
    BY <1>1, StepNumbers DEF Open
  <2>2. s.steps[j].state # "committed"
    BY <1>2, <2>1 DEF ReverseOrderAround
  <2>3. j \in Active(s)
    BY <2>1, <2>2 DEF Open, Active, ActiveStates
  <2> QED  BY <1>1, <1>2, <2>1, <2>3, StepNumbers DEF AtMostOne
<1> QED  BY <1>1, <1>3, <1>4 DEF HandledStep, LastOpen

\* A handler that returned.
LEMMA SuccessCandidate ==
    ASSUME NEW s \in Snapshot, Sound(s), Handling(s), NEW c \in BOOLEAN, NEW n,
           n = IF s.state = "running"
               THEN [s EXCEPT !.steps[HandledStep(s)] = Recorded(@),
                              !.cancellationRequested = @ \/ c]
               ELSE [s EXCEPT !.steps[HandledStep(s)] = [@ EXCEPT !.state = "compensated"]]
    PROVE  /\ n \in Snapshot /\ Candidate(s, n, TRUE)
           /\ n.cancellationRequested => s.cancellationRequested \/ c
<1>1. CASE s.state = "running"
  <2>1. PICK i \in Steps : s.steps[i].state = "running"
    BY <1>1 DEF Handling, InState
  <2>2. HandledStep(s) = i /\ \E k \in 0..NSteps : ForwardAt(s, k) /\ i = k + 1
    BY <1>1, <2>1, HandledForward DEF Sound
  <2>3. PICK k \in 0..NSteps : ForwardAt(s, k) /\ i = k + 1
    BY <2>2
  <2>4. PICK new, f : new = Recorded(s.steps[i]) /\ f = (s.cancellationRequested \/ c)
    OBVIOUS
  <2>5. n = [s EXCEPT !.steps[i] = new, !.cancellationRequested = f]
    <3>1. n = [s EXCEPT !.steps[i] = Recorded(@), !.cancellationRequested = @ \/ c]
      BY <1>1, <2>2
    <3> QED  BY Zenon, <2>4, <3>1
  <2>6. new \in StepSnapshot /\ f \in BOOLEAN
    <3>1. s.steps[i] \in StepSnapshot
      BY DEF Snapshot
    <3>2. new \in StepSnapshot
      BY <2>4, <3>1 DEF Recorded, StepSnapshot, StepStates
    <3> QED  BY <2>4, <3>2 DEF Snapshot
  <2>7. /\ n \in Snapshot /\ n.state = "running" /\ n.revision = s.revision
        /\ n.cancellationRequested = f
        /\ n.steps[i] = new /\ \A j \in Steps \ {i} : n.steps[j] = s.steps[j]
    <3>1. PICK g : g = [s.steps EXCEPT ![i] = new]
      OBVIOUS
    <3>2. n = [s EXCEPT !.steps = g, !.cancellationRequested = f]
      BY Zenon, <2>5, <3>1
    <3>3. g \in [Steps -> StepSnapshot]
          /\ g[i] = new /\ \A j \in Steps \ {i} : g[j] = s.steps[j]
      BY <2>6, <3>1 DEF Snapshot
    <3>4. n.steps = g /\ n.cancellationRequested = f /\ n.state = s.state /\ n.revision = s.revision
      BY <3>2 DEF Snapshot
    <3>5. n \in Snapshot
      BY <2>6, <3>2, <3>3 DEF Snapshot
    <3> QED  BY <1>1, <3>3, <3>4, <3>5
  <2>8. (n.cancellationRequested => s.cancellationRequested \/ c)
        /\ (s.cancellationRequested => n.cancellationRequested)
    BY <2>4, <2>7
  <2>9. n.steps[i] = Recorded(s.steps[i])
    BY <2>4, <2>7
  <2> QED  BY <2>1, <2>3, <2>7, <2>8, <2>9, DoneCandidate
<1>2. CASE s.state # "running"
  <2>1. PICK i \in Steps : s.steps[i].state = "compensating" /\ s.state = "compensating"
    BY <1>2 DEF Handling, InState
  <2>2. HandledStep(s) = i /\ LastOpen(s, i)
    BY <2>1, HandledBackward
  <2>3. PICK new : new = [s.steps[i] EXCEPT !.state = "compensated"]
    OBVIOUS
  <2>4. n = [s EXCEPT !.steps[i] = new]
    BY <1>2, <2>2, <2>3
  <2>5. new \in StepSnapshot
    <3>1. s.steps[i] \in StepSnapshot
      BY DEF Snapshot
    <3> QED  BY <2>3, <3>1 DEF StepSnapshot, StepStates
  <2>6. Changes(s, n, i, "compensating", new)
    BY <2>1, <2>4, <2>5 DEF Changes, Restates, Snapshot
  <2>7. n \in Snapshot /\ n.cancellationRequested = s.cancellationRequested
    BY <2>6 DEF Changes, Restates
  <2> QED  BY <2>1, <2>2, <2>3, <2>6, <2>7, UndoCandidate
<1> QED  BY <1>1, <1>2

\* A forward handler that failed after its heartbeat saw a cancellation.
LEMMA ObservedCandidate ==
    ASSUME NEW s \in Snapshot, Sound(s), Handling(s), s.state = "running", NEW n,
           n = BeginCompensationOrCancel(
                 [s EXCEPT !.steps[HandledStep(s)].state = "pending",
                           !.cancellationRequested = TRUE], TRUE)
    PROVE  n \in Snapshot /\ Candidate(s, n, TRUE)
<1>1. PICK i \in Steps : s.steps[i].state = "running"
  BY DEF Handling, InState
<1>2. HandledStep(s) = i /\ \E k \in 0..NSteps : ForwardAt(s, k) /\ i = k + 1
  BY <1>1, HandledForward DEF Sound
<1>3. PICK k \in 0..NSteps : ForwardAt(s, k) /\ i = k + 1
  BY <1>2
<1>4. PICK new, b : /\ new = [s.steps[i] EXCEPT !.state = "pending"]
                    /\ b = [s EXCEPT !.steps[i] = new, !.cancellationRequested = TRUE]
  OBVIOUS
<1>5. n = BeginCompensationOrCancel(b, TRUE)
  BY <1>2, <1>4
<1>6. /\ new \in StepSnapshot /\ new.state = "pending"
      /\ new.attempts = s.steps[i].attempts
      /\ new.compensationAttempts = s.steps[i].compensationAttempts
  <2>1. s.steps[i] \in StepSnapshot
    BY DEF Snapshot
  <2> QED  BY <1>4, <2>1 DEF StepSnapshot, StepStates
<1>7. /\ b \in Snapshot /\ b.revision = s.revision /\ b.cancellationRequested = TRUE
      /\ b.steps[i] = new /\ \A j \in Steps \ {i} : b.steps[j] = s.steps[j]
  BY <1>4, <1>6 DEF Snapshot
<1>8. /\ n \in Snapshot /\ n.revision = s.revision /\ n.cancellationRequested
      /\ n.steps = b.steps
  BY <1>5, <1>7, BeginKeeps
<1>9. n.state = (IF \E j \in Compensable : n.steps[j].state = "committed"
                 THEN "compensating" ELSE "cancelled")
  BY <1>5, <1>7, <1>8, BeginDecides
<1>10. ASSUME NEW j \in Steps
       PROVE  \/ n.steps[j] = s.steps[j]
              \/ /\ s.steps[j].state \in {"running", "waiting_retry"}
                 /\ n.steps[j].state = "pending"
                 /\ n.steps[j].attempts = s.steps[j].attempts
                 /\ n.steps[j].compensationAttempts = s.steps[j].compensationAttempts
  BY <1>1, <1>6, <1>7, <1>8
<1> QED  BY <1>3, <1>8, <1>9, <1>10, CancelCandidate

\* A handler that failed, or returned what is not JSON.
LEMMA FailureCandidate ==
    ASSUME NEW w \in Workers, NEW s \in Snapshot, worker[w].snap = s, Sound(s), Handling(s),
           NEW o \in BOOLEAN, o => s.state = "running", NEW n \in HandlerFailure(w, o)
    PROVE  /\ n \in Snapshot /\ Candidate(s, n, TRUE)
           /\ n.cancellationRequested => s.cancellationRequested \/ o
<1>1. CASE o
  <2>1. n = BeginCompensationOrCancel(
               [s EXCEPT !.steps[HandledStep(s)].state = "pending",
                         !.cancellationRequested = TRUE], TRUE)
    BY <1>1 DEF HandlerFailure
  <2> QED  BY <1>1, <2>1, ObservedCandidate
<1>2. CASE ~o /\ s.state = "running"
  <2>1. PICK i \in Steps : s.steps[i].state = "running"
    BY <1>2 DEF Handling, InState
  <2>2. HandledStep(s) = i /\ \E k \in 0..NSteps : ForwardAt(s, k) /\ i = k + 1
    BY <1>2, <2>1, HandledForward DEF Sound
  <2>3. n \in FinishForwardFailure(s, i)
    BY <1>2, <2>2 DEF HandlerFailure, Forward
  <2>4. n \in Snapshot /\ n.cancellationRequested = s.cancellationRequested
    BY <2>3, ForwardFailureKeeps
  <2>5. Candidate(s, n, TRUE)
    BY <2>1, <2>2, <2>3, ForwardFailureCandidate
  <2> QED  BY <2>4, <2>5
<1>3. CASE ~o /\ s.state # "running"
  <2>1. PICK i \in Steps : s.steps[i].state = "compensating" /\ s.state = "compensating"
    BY <1>3 DEF Handling, InState
  <2>2. HandledStep(s) = i /\ LastOpen(s, i)
    BY <2>1, HandledBackward
  <2>3. n \in FinishCompensationFailure(s, i) /\ IsCompensating(s)
    BY <1>3, <2>1, <2>2 DEF HandlerFailure, Forward, IsCompensating
  <2>4. n \in Snapshot /\ n.cancellationRequested = s.cancellationRequested
    BY <2>3, CompensationFailureKeeps
  <2>5. Candidate(s, n, TRUE)
    BY <2>1, <2>2, <2>3, CompensationFailureCandidate
  <2> QED  BY <2>4, <2>5
<1> QED  BY <1>1, <1>2, <1>3

(***************************************************************************)
(* Every step keeps SagaInv.                                               *)
(***************************************************************************)

\* The initial state.
LEMMA InitSagaInv == Init => SagaInv
<1> SUFFICES ASSUME Init PROVE SagaInv
  OBVIOUS
<1>1. IInv
  BY InitIInv
<1>2. \A i \in Steps : /\ row.steps[i].state = "pending" /\ row.steps[i].attempts = 0
                       /\ row.steps[i].compensationAttempts = 0
  BY DEF Init, InitialSnapshot
<1>3. Fresh(row)
  BY <1>2 DEF Fresh
<1>4. \A w \in Workers : CallInv(worker[w], row.cancellationRequested)
  BY DEF Init, IdleWorker, CallInv
<1>5. LateInv /\ BudgetInv
  BY <1>2 DEF Init, LateInv, BudgetInv
<1> QED  BY <1>1, <1>3, <1>4, <1>5 DEF SagaInv

\* A cancellation takes nothing away from a call.
LEMMA CallMonotone ==
    ASSUME NEW ws, NEW c, NEW d, CallInv(ws, c), c => d
    PROVE  CallInv(ws, d)
  BY DEF CallInv

\* An idle call.
LEMMA IdleCall ==
    ASSUME NEW e \in {"none", "invalid_snapshot"}, NEW c, e = "invalid_snapshot" => c
    PROVE  CallInv(IdleWorker(e), c) /\ IdleWorker(e).pc = "idle"
  BY DEF IdleWorker, CallInv

\* A step that moves one call and leaves the row and the history alone.
LEMMA SagaLocal ==
    ASSUME SagaInv, IInv', UNCHANGED <<row, history>>,
           NEW w \in Workers, NEW new, worker' = [worker EXCEPT ![w] = new],
           CallInv(new, row.cancellationRequested), new.pc = "committing" => new.release
    PROVE  SagaInv'
<1>1. \A u \in Workers : worker'[u] = IF u = w THEN new ELSE worker[u]
  BY DEF SagaInv, IInv, TypeOK
<1>2. row' = row /\ runs' = runs /\ undos' = undos /\ late' = late
  BY DEF history
<1>3. (\A u \in Workers : CallInv(worker[u], row.cancellationRequested))'
  BY <1>1, <1>2 DEF SagaInv
<1>4. LateInv'
  BY <1>1, <1>2 DEF SagaInv, LateInv
<1>5. Fresh(row)' /\ BudgetInv'
  BY <1>2 DEF SagaInv, BudgetInv
<1> QED  BY <1>3, <1>4, <1>5 DEF SagaInv

\* A step that ends a call without a write.
LEMMA SagaGoesIdle ==
    ASSUME SagaInv, IInv', UNCHANGED <<row, history>>, NEW w \in Workers,
           NEW e \in {"none", "invalid_snapshot"},
           e = "invalid_snapshot" => row.cancellationRequested,
           worker' = [worker EXCEPT ![w] = IdleWorker(e)]
    PROVE  SagaInv'
<1>1. PICK new : new = IdleWorker(e)
  OBVIOUS
<1>2. CallInv(new, row.cancellationRequested) /\ new.pc = "idle"
  BY <1>1, IdleCall
<1> QED  BY <1>1, <1>2, SagaLocal

\* Calls that end, or that only learn something about their lease.
LEMMA SagaEnding ==
    ASSUME SagaInv, IInv', NEW w \in Workers,
           \/ ClaimConflict(w) \/ CommitInvalid(w) \/ HandlerLosesLease(w) \/ Crash(w)
    PROVE  SagaInv'
<1>1. UNCHANGED <<row, history>>
  BY DEF ClaimConflict, CommitInvalid, HandlerLosesLease, Crash
<1>2. CASE CommitInvalid(w)
  <2>1. row.cancellationRequested
    BY <1>2 DEF CommitInvalid, SagaInv, CallInv, Candidate
  <2> QED  BY <1>1, <1>2, <2>1, SagaGoesIdle DEF CommitInvalid
<1>3. CASE ~CommitInvalid(w)
  <2>1. worker' = [worker EXCEPT ![w] = IdleWorker("none")]
    BY <1>3 DEF ClaimConflict, HandlerLosesLease, Crash
  <2> QED  BY <1>1, <2>1, SagaGoesIdle
<1> QED  BY <1>2, <1>3

\* A heartbeat changes neither the snapshot nor the candidate.
LEMMA SagaRenews ==
    ASSUME SagaInv, IInv', NEW w \in Workers, Renew(w) \/ RenewMisses(w)
    PROVE  SagaInv'
<1>1. PICK new :
         /\ worker' = [worker EXCEPT ![w] = new]
         /\ \/ new = [worker[w] EXCEPT !.renewed = row.cancellationRequested]
            \/ new = [worker[w] EXCEPT !.leaseLost = TRUE]
  BY Zenon DEF Renew, RenewMisses
<1>2. worker[w] \in WorkerState /\ CallInv(worker[w], row.cancellationRequested)
      /\ worker[w].pc = "handling"
  BY DEF SagaInv, IInv, TypeOK, Renew, RenewMisses
<1>3. /\ new.pc = worker[w].pc /\ new.snap = worker[w].snap /\ new.error = worker[w].error
      /\ new.renewed => row.cancellationRequested \/ worker[w].renewed
  BY <1>1, <1>2 DEF WorkerState
<1>4. CallInv(new, row.cancellationRequested)
  BY <1>2, <1>3 DEF CallInv
<1>5. UNCHANGED <<row, history>>
  BY DEF Renew, RenewMisses
<1> QED  BY <1>1, <1>2, <1>3, <1>4, <1>5, SagaLocal

\* What a call reads is sound.
LEMMA SagaObserves ==
    ASSUME SagaInv, IInv', NEW w \in Workers, Observe(w)
    PROVE  SagaInv'
<1>1. PICK new : new = [IdleWorker("none") EXCEPT !.pc = "observed", !.snap = row]
  OBVIOUS
<1>2. /\ new.pc = "observed" /\ new.snap = row /\ ~new.renewed /\ new.error = "none"
  BY <1>1 DEF IdleWorker
<1>3. Sound(row) /\ ~IsWorkflowTerminal(row)
  BY DEF SagaInv, IInv, RowIsReadable, Sound, Observe
<1>4. CallInv(new, row.cancellationRequested)
  BY <1>2, <1>3 DEF CallInv
<1>5. worker' = [worker EXCEPT ![w] = new] /\ UNCHANGED <<row, history>>
  BY <1>1 DEF Observe
<1> QED  BY <1>2, <1>4, <1>5, SagaLocal

\* A refused end is looked at again; every other refusal ends the call.
LEMMA SagaRefused ==
    ASSUME SagaInv, IInv', NEW w \in Workers, CommitRefused(w)
    PROVE  SagaInv'
<1>1. PICK new : new = [worker[w] EXCEPT !.pc = "rereading"]
  OBVIOUS
<1>2. worker[w] \in WorkerState /\ CallInv(worker[w], row.cancellationRequested)
      /\ worker[w].pc = "committing"
  BY DEF SagaInv, IInv, TypeOK, CommitRefused
<1>3. /\ new.pc = "rereading" /\ new.snap = worker[w].snap /\ new.next = worker[w].next
      /\ new.release = worker[w].release /\ new.renewed = worker[w].renewed
      /\ new.error = worker[w].error
  BY <1>1, <1>2 DEF WorkerState
<1>4. \/ worker' = [worker EXCEPT ![w] = IdleWorker("none")]
      \/ worker' = [worker EXCEPT ![w] = new] /\ worker[w].next.state \in TerminalForward
  BY <1>1 DEF CommitRefused
<1>5. worker[w].next.state \in TerminalForward => CallInv(new, row.cancellationRequested)
  BY <1>2, <1>3 DEF CallInv
<1>6. UNCHANGED <<row, history>>
  BY DEF CommitRefused
<1> QED  BY <1>3, <1>4, <1>5, <1>6, SagaLocal, SagaGoesIdle

\* The end of a handler.
LEMMA SagaCommitNext ==
    ASSUME SagaInv, IInv', UNCHANGED <<row, history>>, NEW w \in Workers,
           worker[w].pc = "handling", NEW n, CommitNext(w, n), Candidate(worker[w].snap, n, TRUE),
           n.cancellationRequested => row.cancellationRequested
    PROVE  SagaInv'
<1>1. PICK new : new = [worker[w] EXCEPT !.pc = "committing", !.next = n,
                                         !.release = TRUE, !.renewed = FALSE]
  OBVIOUS
<1>2. worker[w] \in WorkerState /\ CallInv(worker[w], row.cancellationRequested)
  BY DEF SagaInv, IInv, TypeOK
<1>3. /\ new.pc = "committing" /\ new.snap = worker[w].snap /\ new.next = n
      /\ new.release = TRUE /\ new.renewed = FALSE /\ new.error = worker[w].error
  BY <1>1, <1>2 DEF WorkerState
<1>4. CallInv(new, row.cancellationRequested)
  BY <1>2, <1>3 DEF CallInv
<1>5. worker' = [worker EXCEPT ![w] = new]
  BY <1>1 DEF CommitNext
<1> QED  BY <1>3, <1>4, <1>5, SagaLocal

\* A handler that returned or failed.
LEMMA SagaHandled ==
    ASSUME SagaInv, IInv', NEW w \in Workers,
           HandlerSucceeds(w) \/ HandlerFails(w) \/ HandlerReturnsNonJson(w)
    PROVE  SagaInv'
<1>1. PICK s \in Snapshot : s = worker[w].snap
  BY DEF SagaInv, IInv, TypeOK, WorkerState
<1>2. worker[w] \in WorkerState /\ CallInv(worker[w], row.cancellationRequested)
      /\ worker[w].pc = "handling" /\ UNCHANGED <<row, history>>
  BY DEF SagaInv, IInv, TypeOK, HandlerSucceeds, HandlerFails, HandlerReturnsNonJson
<1>3. /\ Sound(s) /\ Handling(s) /\ (s.cancellationRequested => row.cancellationRequested)
      /\ (worker[w].renewed => row.cancellationRequested)
  BY <1>1, <1>2 DEF CallInv
<1>4. PICK c \in BOOLEAN : c = CancellationObserved(w)
  BY <1>2 DEF CancellationObserved, Forward, WorkerState
<1>5. c => row.cancellationRequested /\ s.state = "running"
  BY <1>1, <1>3, <1>4 DEF CancellationObserved, Forward
<1>6. CASE HandlerSucceeds(w)
  <2>1. PICK n : n = IF s.state = "running"
                     THEN [s EXCEPT !.steps[HandledStep(s)] = Recorded(@),
                                    !.cancellationRequested = @ \/ c]
                     ELSE [s EXCEPT !.steps[HandledStep(s)] = [@ EXCEPT !.state = "compensated"]]
    OBVIOUS
  <2>2. CommitNext(w, n)
    BY <1>1, <1>4, <1>6, <2>1 DEF HandlerSucceeds, Forward
  <2>3. /\ Candidate(s, n, TRUE)
        /\ n.cancellationRequested => s.cancellationRequested \/ c
    BY <1>3, <2>1, SuccessCandidate
  <2> QED  BY <1>1, <1>2, <1>3, <1>5, <2>2, <2>3, SagaCommitNext
<1>7. CASE HandlerFails(w) \/ HandlerReturnsNonJson(w)
  <2>1. PICK o \in BOOLEAN : (o => c) /\ \E n \in HandlerFailure(w, o) : CommitNext(w, n)
    BY <1>4, <1>7 DEF HandlerFails, HandlerReturnsNonJson
  <2>2. PICK n \in HandlerFailure(w, o) : CommitNext(w, n)
    BY <2>1
  <2>3. /\ Candidate(s, n, TRUE)
        /\ n.cancellationRequested => s.cancellationRequested \/ o
    BY <1>1, <1>3, <1>5, <2>1, FailureCandidate
  <2> QED  BY <1>1, <1>2, <1>3, <1>5, <2>1, <2>2, <2>3, SagaCommitNext
<1> QED  BY <1>6, <1>7

\* A completed or failed candidate ended the forward execution of its snapshot.
LEMMA EndOfForward ==
    ASSUME NEW s, NEW m, ~IsWorkflowTerminal(s), SagaStepTo(s, m), m.state \in TerminalForward
    PROVE  /\ Phase(s) = "forward" /\ SameSteps(s, m)
           /\ m.state = "failed" => Undoable(s) = {}
<1>1. Phase(s) \in {"forward", "undoing"}
  BY DEF Phase
<1>2. Phase(m) = m.state /\ m.state \in {"completed", "failed"}
  BY DEF Phase, IsWorkflowTerminal, TerminalForward
<1>3. Phase(m) # Phase(s)
  BY <1>1, <1>2
<1>4. Completes(s, m) \/ Stops(s, m) \/ Ends(s, m)
  BY <1>3 DEF SagaStepTo, Stays, Does, Undoes, Moves
<1>5. ~Ends(s, m)
  BY <1>2 DEF Ends
<1>6. m.state = "failed" => Undoable(s) = {}
  BY <1>2, <1>4, <1>5 DEF Completes, Stops
<1> QED  BY <1>4, <1>5, <1>6 DEF Completes, Stops

\* The second read turns a failure into a cancellation: nothing was left to undo.
LEMMA FailureCancelled ==
    ASSUME NEW s \in Snapshot, NEW m \in Snapshot, NEW r \in Snapshot, NEW n \in Snapshot,
           NEW release, Candidate(s, m, release), m.state = "failed", ~IsWorkflowTerminal(s),
           r.state = s.state, r.steps = s.steps,
           n.revision = r.revision, n.cancellationRequested, n.steps = m.steps,
           n.state = (IF \E j \in Compensable : m.steps[j].state = "committed"
                      THEN "compensating" ELSE "cancelled")
    PROVE  Candidate(r, n, TRUE)
<1>1. Phase(s) = "forward" /\ SameSteps(s, m) /\ Undoable(s) = {}
  BY EndOfForward DEF Candidate, TerminalForward
<1>2. Phase(r) = "forward" /\ Undoable(r) = {} /\ SameSteps(r, n)
  BY <1>1 DEF Phase, IsWorkflowTerminal, IsCompensating, Undoable, SameSteps
<1>3. \A j \in Compensable : m.steps[j].state # "committed"
  <2> SUFFICES ASSUME NEW j \in Compensable, m.steps[j].state = "committed" PROVE FALSE
    OBVIOUS
  <2>1. Seen(s.steps[j].state) = "done"
    <3>1. j \in Steps
      BY DefinitionAssumption
    <3>2. Seen("committed") = "done"
      BY DEF Seen, OutputStates
    <3> QED  BY <1>1, <3>1, <3>2 DEF SameSteps
  <2> QED  BY <1>1, <2>1 DEF Undoable
<1>4. n.state = "cancelled" /\ Phase(n) = "cancelled"
  BY <1>3 DEF Phase, IsWorkflowTerminal
<1>5. SagaStepTo(r, n)
  BY <1>2, <1>4 DEF SagaStepTo, Stops
<1>6. Fresh(n)
  BY DEF Candidate, Fresh
<1>7. \A i \in Steps : /\ n.steps[i].attempts >= r.steps[i].attempts
                       /\ n.steps[i].compensationAttempts >= r.steps[i].compensationAttempts
  BY DEF Candidate
<1> QED  BY <1>5, <1>6, <1>7 DEF Candidate

\* The second read of the row.
LEMMA SagaRereads ==
    ASSUME SagaInv, IInv', NEW w \in Workers, Reread(w)
    PROVE  SagaInv'
<1>1. PICK ws \in WorkerState : ws = worker[w]
  BY DEF SagaInv, IInv, TypeOK
<1>2. PICK s \in Snapshot, m \in Snapshot : s = ws.snap /\ m = ws.next
  BY DEF WorkerState
<1>3. /\ UNCHANGED <<row, history>> /\ row \in Snapshot /\ ws.pc = "rereading"
      /\ CallInv(ws, row.cancellationRequested) /\ WorkerInv(row, ws)
      /\ ValidSnapshot(row) /\ Fresh(row)
  BY <1>1 DEF Reread, SagaInv, IInv, TypeOK, RowIsReadable, WorkersInv
<1>4. PICK failed, n, new :
         /\ failed = [m EXCEPT !.revision = row.revision, !.lease = row.lease,
                               !.cancellationRequested = TRUE]
         /\ n = BeginCompensationOrCancel(IF m.state = "failed" THEN failed ELSE row, TRUE)
         /\ new = [ws EXCEPT !.pc = "committing", !.snap = row, !.release = TRUE, !.next = n]
  OBVIOUS
<1>5. \/ worker' = [worker EXCEPT ![w] = IdleWorker("none")]
      \/ /\ row.cancellationRequested /\ row.lease = s.lease
         /\ worker' = [worker EXCEPT ![w] = new]
  BY <1>1, <1>2, <1>4 DEF Reread
<1>6. CASE worker' = [worker EXCEPT ![w] = IdleWorker("none")]
  BY <1>3, <1>6, SagaGoesIdle
<1>7. CASE /\ row.cancellationRequested /\ row.lease = s.lease
           /\ worker' = [worker EXCEPT ![w] = new]
  <2>1. /\ Candidate(s, m, ws.release) /\ m.state \in TerminalForward
        /\ ~IsWorkflowTerminal(s) /\ row.state = s.state /\ row.steps = s.steps
    BY <1>2, <1>3, <1>7 DEF CallInv, WorkerInv, Holds, Current
  <2>2. ~IsWorkflowTerminal(row) /\ Sound(row)
    BY <1>3, <2>1 DEF IsWorkflowTerminal, Sound
  <2>3. n \in Snapshot /\ Candidate(row, n, TRUE) /\ n.cancellationRequested
    <3>1. CASE m.state = "failed"
      <4>1. /\ failed \in Snapshot /\ failed.revision = row.revision
            /\ failed.cancellationRequested = TRUE /\ failed.steps = m.steps
        BY <1>3, <1>4 DEF Snapshot
      <4>2. n = BeginCompensationOrCancel(failed, TRUE)
        BY <1>4, <3>1
      <4>3. /\ n \in Snapshot /\ n.revision = row.revision /\ n.cancellationRequested
            /\ n.steps = m.steps
        BY <4>1, <4>2, BeginKeeps
      <4>4. n.state = (IF \E j \in Compensable : m.steps[j].state = "committed"
                       THEN "compensating" ELSE "cancelled")
        BY <4>1, <4>2, BeginDecides
      <4> QED  BY <1>3, <2>1, <3>1, <4>3, <4>4, FailureCancelled
    <3>2. CASE m.state # "failed"
      <4>1. Phase(s) = "forward"
        BY <2>1, EndOfForward DEF Candidate
      <4>2. ~IsCompensating(row)
        BY <2>1, <4>1 DEF Phase, IsCompensating
      <4>3. PICK k \in 0..NSteps : ForwardAt(row, k)
        BY <1>3, <2>2, <4>2, ForwardBoundary
      <4>4. n = BeginCompensationOrCancel(row, TRUE)
        BY <1>4, <3>2
      <4>5. /\ n \in Snapshot /\ n.revision = row.revision /\ n.cancellationRequested
            /\ n.steps = row.steps
        BY <1>3, <1>7, <4>4, BeginKeeps
      <4>6. n.state = (IF \E j \in Compensable : n.steps[j].state = "committed"
                       THEN "compensating" ELSE "cancelled")
        BY <1>3, <4>4, <4>5, BeginDecides
      <4> QED  BY <1>3, <2>2, <4>3, <4>5, <4>6, CancelCandidate
    <3> QED  BY <3>1, <3>2
  <2>4. /\ new.pc = "committing" /\ new.snap = row /\ new.next = n /\ new.release = TRUE
        /\ new.renewed = ws.renewed /\ new.error = ws.error
    BY <1>4 DEF WorkerState
  <2>5. CallInv(new, row.cancellationRequested)
    BY <1>3, <1>7, <2>2, <2>3, <2>4 DEF CallInv
  <2> QED  BY <1>3, <1>7, <2>4, <2>5, SagaLocal
<1> QED  BY <1>5, <1>6, <1>7

\* The claim: the plan is made from the row it takes.
LEMMA SagaClaims ==
    ASSUME SagaInv, IInv', NEW w \in Workers, Claim(w)
    PROVE  SagaInv'
<1>1. row \in Snapshot /\ worker[w] \in WorkerState /\ WorkerInv(row, worker[w])
      /\ CallInv(worker[w], row.cancellationRequested)
  BY DEF SagaInv, IInv, TypeOK, WorkersInv
<1>2. worker[w].snap = row /\ ~IsWorkflowTerminal(row)
  BY <1>1 DEF Claim, ClaimAllowed, WorkerInv
<1>3. /\ row' \in Snapshot /\ row'.lease = row.revision + 1
      /\ row'.state = row.state /\ row'.steps = row.steps
      /\ row'.cancellationRequested = row.cancellationRequested
  BY <1>1, ClaimedFits DEF Claim
<1>4. Fresh(row') /\ ValidSnapshot(row')
  BY <1>3 DEF SagaInv, Fresh, IInv, RowIsReadable
<1>5. PICK plan \in Advance(row') :
        worker' = [worker EXCEPT ![w] = [@ EXCEPT !.pc = "committing", !.snap = row',
                                                  !.next = plan.next, !.release = plan.release]]
  BY DEF Claim
<1>6. PICK new : new = [worker[w] EXCEPT !.pc = "committing", !.snap = row',
                                         !.next = plan.next, !.release = plan.release]
  OBVIOUS
<1>7. /\ new.pc = "committing" /\ new.snap = row' /\ new.next = plan.next
      /\ new.release = plan.release /\ new.renewed = worker[w].renewed
      /\ new.error = worker[w].error
  BY <1>1, <1>6 DEF WorkerState
<1>8. ~IsWorkflowTerminal(row')
  BY <1>2, <1>3 DEF IsWorkflowTerminal
<1>9. Candidate(row', plan.next, plan.release) /\ PlanFits(row', plan)
  BY <1>3, <1>4, <1>8, AdvanceCandidate, AdvanceFits DEF Sound
<1>10. CallInv(new, row'.cancellationRequested)
  BY <1>1, <1>3, <1>4, <1>7, <1>8, <1>9 DEF CallInv, Sound, PlanFits
<1>11. \A u \in Workers : worker'[u] = IF u = w THEN new ELSE worker[u]
  BY <1>5, <1>6 DEF SagaInv, IInv, TypeOK
<1>12. \A u \in Workers : CallInv(worker'[u], row'.cancellationRequested)
  BY <1>3, <1>10, <1>11 DEF SagaInv
<1>13. LateInv'
  <2>1. late' = late /\ runs' = runs /\ undos' = undos
    BY DEF Claim, history
  <2> SUFFICES ASSUME late > 0
               PROVE  /\ late = 1 /\ row'.cancellationRequested
                      /\ \A u \in Workers :
                           /\ worker'[u].pc = "committing" /\ ~worker'[u].release
                           /\ worker'[u].snap.lease = row'.lease
                           => worker'[u].next.state # "running"
    BY <2>1 DEF LateInv
  <2>2. late = 1 /\ row'.cancellationRequested
    BY <1>3 DEF SagaInv, LateInv
  <2>3. ~plan.release => plan.next.state # "running"
    BY <1>9, <2>2 DEF Candidate, Starts, PlanFits
  <2>4. ASSUME NEW u \in Workers, u # w, worker[u].pc = "committing"
        PROVE  worker[u].snap.lease # row'.lease
    <3>1. worker[u] \in WorkerState /\ WorkerInv(row, worker[u]) /\ Holds(worker[u])
      BY <2>4 DEF SagaInv, IInv, TypeOK, WorkersInv, Holds
    <3>2. worker[u].snap.lease <= row.revision /\ worker[u].snap.lease \in Nat
          /\ row.revision \in Nat
      BY <1>1, <3>1 DEF WorkerInv, WorkerState, Snapshot
    <3> QED  BY <1>3, <3>2
  <2> QED  BY <1>7, <1>11, <2>2, <2>3, <2>4
<1>14. BudgetInv'
  BY <1>3 DEF Claim, history, SagaInv, BudgetInv
<1> QED  BY <1>4, <1>12, <1>13, <1>14 DEF SagaInv

\* What an accepted commit knows of the row, and what it writes.
CommitWrote(r, q, s, n, release) ==
    /\ r \in Snapshot /\ q \in Snapshot /\ s \in Snapshot /\ n \in Snapshot /\ release \in BOOLEAN
    /\ Current(r, s) /\ s.lease # NoLease /\ r.lease = s.lease
    /\ n.state \in TerminalForward => s = r
    /\ s.cancellationRequested => n.cancellationRequested
    /\ n.cancellationRequested => r.cancellationRequested
    /\ Sound(s) /\ ~IsWorkflowTerminal(s) /\ ValidSnapshot(n) /\ Candidate(s, n, release)
    /\ q.state = n.state /\ q.steps = n.steps /\ q.revision = r.revision + 1
    /\ q.lease = IF release THEN NoLease ELSE s.lease
    /\ q.cancellationRequested = r.cancellationRequested
    /\ Sound(q)

\* The row an accepted commit leaves.
LEMMA CommitWroteFits ==
    ASSUME SagaInv, NEW w \in Workers, CommitWrites(w)
    PROVE  CommitWrote(row, row', worker[w].snap, worker[w].next, worker[w].release)
<1>1. PICK ws \in WorkerState : ws = worker[w]
  BY DEF SagaInv, IInv, TypeOK
<1>2. PICK s \in Snapshot, n \in Snapshot, release \in BOOLEAN :
        s = ws.snap /\ n = ws.next /\ release = ws.release
  BY DEF WorkerState
<1>3. /\ row \in Snapshot /\ leaseLive \in BOOLEAN /\ IInv
      /\ WorkerInv(row, ws) /\ CallInv(ws, row.cancellationRequested)
  BY <1>1 DEF SagaInv, IInv, TypeOK, WorkersInv
<1>4. /\ ws.pc = "committing" /\ ValidSnapshot(n)
      /\ row' = CommittedRow(row, n, release)
  BY <1>1, <1>2 DEF CommitWrites
<1>5. /\ row.lease = s.lease
      /\ row.revision = s.revision \/ n.state \notin TerminalForward
  <2>1. CommitOutcome(row, leaseLive, n, s.revision, s.lease) = "ok"
    BY <1>1, <1>2 DEF CommitWrites, Outcome
  <2> QED  BY <1>3, <2>1, AcceptedCommit
<1>6. /\ Current(row, s) /\ s.lease # NoLease
      /\ n.state \in TerminalForward => s = row
      /\ s.cancellationRequested => n.cancellationRequested
  BY <1>2, <1>3, <1>4, <1>5 DEF WorkerInv, Holds
<1>7. /\ n.cancellationRequested => row.cancellationRequested
      /\ Sound(s) /\ ~IsWorkflowTerminal(s) /\ Candidate(s, n, release)
  BY <1>2, <1>3, <1>4 DEF CallInv
<1>8. /\ row' \in Snapshot /\ row'.state = n.state /\ row'.steps = n.steps
      /\ row'.revision = row.revision + 1
      /\ row'.lease = (IF release THEN NoLease ELSE s.lease)
      /\ row'.cancellationRequested = (n.cancellationRequested \/ row.cancellationRequested)
  <2>1. LET q == CommittedRow(row, n, release) IN
        /\ q \in Snapshot
        /\ q.revision = row.revision + 1
        /\ q.lease = IF release THEN NoLease ELSE row.lease
        /\ q.state = n.state /\ q.steps = n.steps
        /\ q.cancellationRequested = (n.cancellationRequested \/ row.cancellationRequested)
    BY <1>3, CommittedFits
  <2> QED  BY Zenon, <1>4, <1>5, <2>1
<1>9. row'.cancellationRequested = row.cancellationRequested
  BY <1>3, <1>7, <1>8 DEF Snapshot
<1>10. ValidSnapshot(row')
  BY <1>3, CommitWritesFits
<1>11. Fresh(row')
  BY <1>7, <1>8 DEF Candidate, Fresh
<1>12. CommitWrote(row, row', s, n, release)
  BY <1>3, <1>4, <1>5, <1>6, <1>7, <1>8, <1>9, <1>10, <1>11 DEF CommitWrote, Sound
<1> QED  BY <1>1, <1>2, <1>12

\* The receipt arithmetic of the manager fits what the store wrote.
LEMMA ReceiptFits ==
    ASSUME NEW r, NEW q, NEW s, NEW n, NEW release, CommitWrote(r, q, s, n, release)
    PROVE  CommitReceiptValid(s, n, q, s.lease, release)
<1>1. /\ n.revision = s.revision /\ s.revision \in Nat /\ AssertWorkflowSnapshot(q)
      /\ n.cancellationRequested \in BOOLEAN /\ s.cancellationRequested \in BOOLEAN
      /\ r.cancellationRequested \in BOOLEAN
  BY DEF CommitWrote, Candidate, Sound, ValidSnapshot, Snapshot
<1>2. PICK merge \in BOOLEAN, acknowledged \in BOOLEAN, concurrent \in BOOLEAN :
        /\ merge = (~n.cancellationRequested /\ q.cancellationRequested)
        /\ acknowledged = (/\ ~s.cancellationRequested
                           /\ n.cancellationRequested /\ q.cancellationRequested)
        /\ concurrent = (s.revision = n.revision + 1 /\ s.cancellationRequested)
  OBVIOUS
<1>3. ~concurrent
  <2>1. s.revision # n.revision + 1
    BY <1>1
  <2> QED  BY Zenon, <1>2, <2>1
<1>4. (q.cancellationRequested = n.cancellationRequested) \/ merge
  BY <1>1, <1>2 DEF CommitWrote
<1>5. q.revision = n.revision + (IF merge \/ acknowledged \/ concurrent THEN 2 ELSE 1)
  <2>1. /\ q.revision = s.revision + (IF r.cancellationRequested /\ ~s.cancellationRequested
                                      THEN 1 ELSE 0) + 1
        /\ s.cancellationRequested => n.cancellationRequested
        /\ n.cancellationRequested => r.cancellationRequested
        /\ q.cancellationRequested = r.cancellationRequested
    BY DEF CommitWrote, Current
  <2>2. (merge \/ acknowledged \/ concurrent)
          <=> r.cancellationRequested /\ ~s.cancellationRequested
    BY <1>1, <1>2, <1>3, <2>1
  <2>3. CASE r.cancellationRequested /\ ~s.cancellationRequested
    BY <1>1, <2>1, <2>2, <2>3
  <2>4. CASE ~(r.cancellationRequested /\ ~s.cancellationRequested)
    BY <1>1, <2>1, <2>2, <2>4
  <2> QED  BY <2>3, <2>4
<1>6. IF release THEN q.lease = NoLease
      ELSE s.lease # NoLease /\ q.lease = s.lease
  BY DEF CommitWrote
<1>7. ~(n.state = "failed" /\ merge)
  BY <1>2 DEF CommitWrote, TerminalForward
<1>8. q.state = n.state /\ q.steps = n.steps
  BY DEF CommitWrote
<1> QED  BY Zenon, <1>1, <1>2, <1>4, <1>5, <1>6, <1>7, <1>8 DEF CommitReceiptValid

\* A held commit starts the one handler its candidate marks.
LEMMA HeldCommit ==
    ASSUME NEW r, NEW q, NEW s, NEW n, CommitWrote(r, q, s, n, FALSE)
    PROVE  \E i \in Steps : HandledStep(n) = i /\ Starts(s, n, i) /\ Handling(q)
<1>1. /\ n \in Snapshot /\ Sound(n) /\ q.state = n.state /\ q.steps = n.steps
      /\ ValidSnapshot(n)
  BY DEF CommitWrote, Candidate, Sound
<1>2. PICK i \in Steps : Starts(s, n, i)
  BY DEF CommitWrote, Candidate
<1>3. CASE n.state = "running" /\ n.steps[i].state = "running"
  <2>1. HandledStep(n) = i
    BY <1>1, <1>3, HandledForward
  <2>2. i \in InState(q, "running")
    BY <1>1, <1>3 DEF InState
  <2> QED  BY <1>1, <1>2, <1>3, <2>1, <2>2 DEF Handling
<1>4. CASE n.state = "compensating" /\ n.steps[i].state = "compensating"
  <2>1. HandledStep(n) = i
    BY <1>1, <1>4, HandledBackward
  <2>2. i \in InState(q, "compensating")
    BY <1>1, <1>4 DEF InState
  <2> QED  BY <1>1, <1>2, <1>4, <2>1, <2>2 DEF Handling
<1> QED  BY <1>2, <1>3, <1>4 DEF Starts

\* No other call has the token a commit leaves on the row.
LEMMA OtherTokens ==
    ASSUME IInv, NEW w \in Workers, CommitWrites(w), NEW u \in Workers \ {w}, Holds(worker[u])
    PROVE  worker[u].snap.lease # row'.lease
<1>1. row'.lease = IF worker[w].release THEN NoLease ELSE worker[w].snap.lease
  BY CommitWritesFits
<1>2. worker[u].snap.lease # NoLease
  BY DEF IInv, WorkersInv, WorkerInv
<1>3. worker[u].snap.lease # worker[w].snap.lease
  BY DEF IInv, TokensDiffer, CommitWrites, Holds
<1> QED  BY <1>1, <1>2, <1>3

\* A commit leaves every other call what it was.
LEMMA SagaWrites ==
    ASSUME SagaInv, IInv', NEW w \in Workers, CommitWrites(w),
           NEW new, worker' = [worker EXCEPT ![w] = new], new.pc # "committing",
           CallInv(new, row'.cancellationRequested),
           late' > 0 => late' = 1 /\ row'.cancellationRequested, BudgetInv'
    PROVE  SagaInv'
<1>1. /\ row'.cancellationRequested = row.cancellationRequested /\ Fresh(row') /\ IInv
      /\ worker[w].pc = "committing"
  BY CommitWroteFits DEF CommitWrote, Sound, SagaInv, CommitWrites
<1>2. \A u \in Workers : worker'[u] = IF u = w THEN new ELSE worker[u]
  BY <1>1 DEF IInv, TypeOK
<1>3. \A u \in Workers : CallInv(worker'[u], row'.cancellationRequested)
  BY <1>1, <1>2 DEF SagaInv
<1>4. ASSUME NEW u \in Workers, worker'[u].pc = "committing"
      PROVE  worker'[u].snap.lease # row'.lease
  <2>1. u # w /\ worker'[u] = worker[u]
    BY <1>2, <1>4
  <2> QED  BY <1>1, <1>4, <2>1, OtherTokens DEF Holds
<1>5. LateInv'
  BY <1>4 DEF LateInv
<1> QED  BY <1>1, <1>3, <1>5 DEF SagaInv

\* An accepted commit ends the call, or starts the handler it has paid for.
LEMMA SagaCommits ==
    ASSUME SagaInv, IInv', NEW w \in Workers, CommitReleased(w) \/ CommitStarted(w)
    PROVE  SagaInv'
<1>1. CommitWrites(w)
  BY DEF CommitReleased, CommitStarted
<1>2. PICK ws \in WorkerState : ws = worker[w]
  BY DEF SagaInv, IInv, TypeOK
<1>3. PICK s \in Snapshot, n \in Snapshot : s = ws.snap /\ n = ws.next
  BY <1>2 DEF WorkerState
<1>4. CommitWrote(row, row', s, n, ws.release)
  BY <1>1, <1>2, <1>3, CommitWroteFits
<1>5. CommitReceiptValid(s, n, row', s.lease, ws.release)
  BY <1>4, ReceiptFits
<1>6. ASSUME NEW i \in Steps
      PROVE  /\ runs[i] \in Nat /\ undos[i] \in Nat
             /\ row'.steps[i].attempts \in Nat /\ row'.steps[i].compensationAttempts \in Nat
             /\ runs[i] <= s.steps[i].attempts /\ undos[i] <= s.steps[i].compensationAttempts
             /\ runs[i] <= row'.steps[i].attempts /\ undos[i] <= row'.steps[i].compensationAttempts
             /\ row'.steps[i].attempts = n.steps[i].attempts
             /\ row'.steps[i].compensationAttempts = n.steps[i].compensationAttempts
  <2>1. runs[i] \in Nat /\ undos[i] \in Nat
    BY DEF SagaInv, IInv, TypeOK
  <2>2. runs[i] <= s.steps[i].attempts /\ undos[i] <= s.steps[i].compensationAttempts
    BY <1>4 DEF SagaInv, BudgetInv, CommitWrote, Current
  <2>3. /\ n.steps[i].attempts >= s.steps[i].attempts
        /\ n.steps[i].compensationAttempts >= s.steps[i].compensationAttempts
        /\ row'.steps = n.steps
    BY <1>4 DEF CommitWrote, Candidate
  <2>4. /\ s.steps[i].attempts \in Nat /\ s.steps[i].compensationAttempts \in Nat
        /\ n.steps[i].attempts \in Nat /\ n.steps[i].compensationAttempts \in Nat
    BY StepNumbers
  <2> QED  BY <2>1, <2>2, <2>3, <2>4
<1>7. /\ late \in Nat /\ (late > 0 => late = 1 /\ row.cancellationRequested)
      /\ row'.cancellationRequested = row.cancellationRequested
  BY <1>4 DEF SagaInv, IInv, TypeOK, LateInv, CommitWrote
<1>8. CASE CommitReleased(w)
  <2>1. PICK new : new = IdleWorker("none")
    OBVIOUS
  <2>2. worker' = [worker EXCEPT ![w] = new]
    BY <1>2, <1>3, <1>5, <1>8, <2>1 DEF CommitReleased
  <2>3. CallInv(new, row'.cancellationRequested) /\ new.pc = "idle"
    BY <2>1, IdleCall
  <2>4. runs' = runs /\ undos' = undos /\ late' = late
    BY <1>8 DEF CommitReleased, history
  <2>5. BudgetInv'
    BY <1>6, <2>4 DEF BudgetInv
  <2> QED  BY <1>1, <1>7, <2>2, <2>3, <2>4, <2>5, SagaWrites
<1>9. CASE CommitStarted(w)
  <2>1. ~ws.release /\ ws.release = FALSE
    BY <1>2, <1>9 DEF CommitStarted, WorkerState
  <2>2. PICK i \in Steps : HandledStep(n) = i /\ Starts(s, n, i) /\ Handling(row')
    BY <1>4, <2>1, HeldCommit
  <2>3. PICK new : new = [ws EXCEPT !.pc = "handling", !.snap = row', !.next = InitialSnapshot]
    OBVIOUS
  <2>4. /\ worker' = [worker EXCEPT ![w] = new]
        /\ IF row'.steps[i].state = "running"
           THEN /\ runs' = [runs EXCEPT ![i] = @ + 1] /\ undos' = undos
                /\ late' = late + (IF row'.cancellationRequested THEN 1 ELSE 0)
           ELSE undos' = [undos EXCEPT ![i] = @ + 1] /\ runs' = runs /\ late' = late
    <3>1. CommitReceiptValid(worker[w].snap, worker[w].next, row', worker[w].snap.lease, FALSE)
      BY <1>2, <1>3, <1>5, <2>1
    <3>2. HandledStep(worker[w].next) = i
      BY <1>2, <1>3, <2>2
    <3> QED  BY Zenon, <1>2, <1>9, <2>3, <3>1, <3>2 DEF CommitStarted
  <2>5. /\ new.pc = "handling" /\ new.snap = row' /\ new.renewed = ws.renewed
        /\ new.error = ws.error
    BY <1>2, <2>3 DEF WorkerState
  <2>6. CallInv(new, row'.cancellationRequested)
    <3>1. CallInv(ws, row.cancellationRequested)
      BY <1>2 DEF SagaInv
    <3>2. ~IsWorkflowTerminal(row') /\ Sound(row')
      BY <1>4, <2>2 DEF Handling, IsWorkflowTerminal, CommitWrote
    <3> QED  BY <1>7, <2>2, <2>5, <3>1, <3>2 DEF CallInv
  <2>7. late' > 0 => late' = 1 /\ row'.cancellationRequested
    <3>1. CASE row'.steps[i].state = "running" /\ row'.cancellationRequested
      <4>1. n.state = "running"
        BY <1>4, <2>2, <3>1 DEF CommitWrote, Starts
      <4>2. ~(late > 0)
        BY <1>1, <1>2, <1>3, <1>4, <2>1, <4>1 DEF SagaInv, LateInv, CommitWrites, CommitWrote
      <4> QED  BY <1>7, <2>4, <3>1, <4>2
    <3>2. CASE ~(row'.steps[i].state = "running" /\ row'.cancellationRequested)
      <4>1. late' = late \/ late' = late + 0
        BY <2>4, <3>2
      <4> QED  BY <1>7, <4>1
    <3> QED  BY <3>1, <3>2
  <2>8. BudgetInv'
    <3>1. runs \in [Steps -> Nat] /\ undos \in [Steps -> Nat]
      BY DEF SagaInv, IInv, TypeOK
    <3>2. CASE row'.steps[i].state = "running"
      <4>1. n.steps[i].attempts = s.steps[i].attempts + 1
        BY <1>4, <2>2, <3>2 DEF CommitWrote, Starts
      <4>2. \A j \in Steps : runs'[j] = IF j = i THEN runs[i] + 1 ELSE runs[j]
        BY <2>4, <3>1, <3>2
      <4>3. \A j \in Steps : runs'[j] <= row'.steps[j].attempts
        BY <1>6, <4>1, <4>2, StepNumbers
      <4> QED  BY <1>6, <2>4, <3>2, <4>3 DEF BudgetInv
    <3>3. CASE row'.steps[i].state # "running"
      <4>1. n.steps[i].compensationAttempts = s.steps[i].compensationAttempts + 1
        BY <1>4, <2>2, <3>3 DEF CommitWrote, Starts
      <4>2. \A j \in Steps : undos'[j] = IF j = i THEN undos[i] + 1 ELSE undos[j]
        BY <2>4, <3>1, <3>3
      <4>3. \A j \in Steps : undos'[j] <= row'.steps[j].compensationAttempts
        BY <1>6, <4>1, <4>2, StepNumbers
      <4> QED  BY <1>6, <2>4, <3>3, <4>3 DEF BudgetInv
    <3> QED  BY <3>2, <3>3
  <2> QED  BY <1>1, <2>4, <2>5, <2>6, <2>7, <2>8, SagaWrites
<1> QED  BY <1>8, <1>9

\* A step that moves neither the calls nor the history, and at most cancels the row.
LEMMA SagaElsewhere ==
    ASSUME SagaInv, IInv', UNCHANGED <<worker, history>>,
           row' = row \/ row' = CancelledRow(row)
    PROVE  SagaInv'
<1>1. /\ row'.state = row.state /\ row'.steps = row.steps /\ row'.lease = row.lease
      /\ row.cancellationRequested => row'.cancellationRequested
  BY CancelledFits DEF SagaInv, IInv, TypeOK
<1>2. Fresh(row')
  BY <1>1 DEF SagaInv, Fresh
<1>3. \A w \in Workers : CallInv(worker[w], row'.cancellationRequested)
  BY <1>1, CallMonotone DEF SagaInv
<1>4. LateInv' /\ BudgetInv'
  BY <1>1 DEF SagaInv, LateInv, BudgetInv, history
<1> QED  BY <1>2, <1>3, <1>4 DEF SagaInv

\* The callers of cancel(), and time.
LEMMA SagaCancels ==
    ASSUME SagaInv, IInv',
           \/ \E c \in Cancellers : CancelReads(c) \/ CancelRequests(c)
           \/ AbandonedLeaseExpires \/ OwnedLeaseExpires \/ RetryBecomesDue
    PROVE  SagaInv'
<1>1. UNCHANGED <<worker, history>> /\ (row' = row \/ row' = CancelledRow(row))
  BY DEF CancelReads, CancelRequests, AbandonedLeaseExpires, OwnedLeaseExpires, RetryBecomesDue
<1> QED  BY <1>1, SagaElsewhere

\* Every step keeps the invariant.
LEMMA NextSagaInv == SagaInv /\ [Next]_vars => SagaInv'
<1> SUFFICES ASSUME SagaInv, [Next]_vars PROVE SagaInv'
  OBVIOUS
<1>1. IInv'
  BY NextIInv DEF SagaInv
<1>2. ASSUME NEW w \in Workers, WorkerStep(w) \/ Renew(w) \/ RenewMisses(w) \/ Crash(w)
      PROVE  SagaInv'
  BY <1>1, <1>2, SagaObserves, SagaClaims, SagaCommits, SagaRefused, SagaRereads, SagaRenews,
     SagaHandled, SagaEnding DEF WorkerStep
<1>3. CASE UNCHANGED vars
  BY <1>1, <1>3, SagaElsewhere DEF vars, history
<1> QED  BY <1>1, <1>2, <1>3, SagaCancels DEF Next

\* SagaInv is an invariant of the specification.
LEMMA SagaInductive == Spec => []SagaInv
  BY InitSagaInv, NextSagaInv, PTL DEF Spec

(***************************************************************************)
(* Theorems.                                                               *)
(***************************************************************************)

\* No commit that keeps the row's token is answered differently by the two stores.
LEMMA CommitsAgree ==
    ASSUME SagaInv, NEW w \in Workers, worker[w].pc = "committing", ValidSnapshot(worker[w].next)
    PROVE  Outcome(w) = DrizzleCommitOutcome(row, leaseLive, worker[w].next,
                                             worker[w].snap.revision, worker[w].snap.lease)
<1>1. PICK ws \in WorkerState : ws = worker[w]
  BY DEF SagaInv, IInv, TypeOK
<1>2. PICK s \in Snapshot, n \in Snapshot : s = ws.snap /\ n = ws.next
  BY <1>1 DEF WorkerState
<1>3. /\ row \in Snapshot /\ leaseLive \in BOOLEAN /\ s.revision \in Nat /\ row.revision \in Nat
      /\ ValidSnapshot(n) /\ ws.pc = "committing" /\ WorkerInv(row, ws)
  BY <1>1, <1>2 DEF SagaInv, IInv, TypeOK, Snapshot, WorkersInv
<1>4. row.revision = s.revision /\ n.state \in TerminalForward => ~row.cancellationRequested
  <2>1. n.state \in TerminalForward => ~n.cancellationRequested
    BY <1>3 DEF ValidSnapshot, AssertWorkflowSnapshot, AssertStateBoundary, TerminalForward
  <2>2. row.revision = s.revision => s = row
    BY <1>2, <1>3 DEF WorkerInv
  <2>3. s.cancellationRequested => n.cancellationRequested
    BY <1>2, <1>3 DEF WorkerInv
  <2> QED  BY <2>1, <2>2, <2>3
<1>5. CommitOutcome(row, leaseLive, n, s.revision, s.lease)
        = DrizzleCommitOutcome(row, leaseLive, n, s.revision, s.lease)
  <2>1. s.revision # s.revision + 1
    BY <1>3
  <2>2. CASE row.lease # s.lease \/ ~leaseLive
    BY <2>2 DEF CommitOutcome, DrizzleCommitOutcome
  <2>3. CASE row.lease = s.lease /\ leaseLive
    BY <1>3, <1>4, <2>1, <2>3 DEF CommitOutcome, DrizzleCommitOutcome, CancellationRace
  <2> QED  BY <2>2, <2>3
<1> QED  BY <1>1, <1>2, <1>5 DEF Outcome

\* execute() keeps its promises to its callers.
THEOREM CallsAlwaysEndWell == Spec => []CallsEndWell
<1>1. SagaInv => CallsEndWell
  <2> SUFFICES ASSUME SagaInv PROVE CallsEndWell
    OBVIOUS
  <2>1. row \in Snapshot /\ ValidSnapshot(row)
    BY DEF SagaInv, IInv, TypeOK, RowIsReadable
  <2>2. AttemptsAreBudgeted
    <3>1. \A i \in Steps : StepFits(i, row.steps[i])
      BY <2>1, ValidInParts
    <3> QED  BY <3>1 DEF SagaInv, BudgetInv, AttemptsAreBudgeted, StepFits
  <2>3. NoContractErrors /\ OnlyCancellationWedges
    BY DEF SagaInv, CallInv, NoContractErrors, OnlyCancellationWedges
  <2>4. CancellationStopsForwardWork
    BY DEF SagaInv, IInv, TypeOK, LateInv, CancellationStopsForwardWork
  <2>5. StoresAgree
    <3>1. \A r, live, v : ClaimAllowed(r, live, v) <=> DrizzleClaimAllowed(r, r, live, v)
      BY DEF ClaimAllowed, DrizzleClaimAllowed, Unmoved
    <3>2. \A r, live, v, token :
            RenewAllowed(r, live, v, token) <=> DrizzleRenewAllowed(r, r, live, v, token)
      BY DEF RenewAllowed, DrizzleRenewAllowed, Unmoved
    <3>3. \A r, v : CancellationAllowed(r, v) <=> DrizzleCancellationAllowed(r, r, v)
      BY DEF CancellationAllowed, DrizzleCancellationAllowed, Unmoved, IsWorkflowTerminal
    <3> QED  BY <3>1, <3>2, <3>3, CommitsAgree DEF StoresAgree
  <2> QED  BY <2>2, <2>3, <2>4, <2>5 DEF CallsEndWell
<1> QED  BY <1>1, SagaInductive, PTL

\* The refinement mapping, in the terms of this module.
LEMMA SagaView ==
    /\ SagaPhase = Phase(row) /\ SagaPhase' = Phase(row')
    /\ SagaStep = [i \in Steps |-> Seen(row.steps[i].state)]
    /\ SagaStep' = [i \in Steps |-> Seen(row'.steps[i].state)]
<1>1. /\ SagaPhase = Phase(row) /\ SagaPhase' = Phase(row')
  BY DEF SagaPhase, Phase, IsWorkflowTerminal, IsCompensating
<1>2. SagaStep = [i \in Steps |-> Seen(row.steps[i].state)]
  BY DEF SagaStep, Seen, OutputStates
<1>3. SagaStep' = [i \in Steps |-> Seen(row'.steps[i].state)]
  BY DEF SagaStep, Seen, OutputStates
<1> QED  BY <1>1, <1>2, <1>3

\* A commit is the step of the saga its candidate is.
LEMMA CommitMaps ==
    ASSUME NEW s, NEW n, SagaStepTo(s, n),
           row.state = s.state, row.steps = s.steps, row'.state = n.state, row'.steps = n.steps
    PROVE  [Abstract!Next]_(Abstract!vars)
<1>1. /\ SagaPhase = Phase(s) /\ SagaPhase' = Phase(n)
      /\ SagaStep = [i \in Steps |-> Seen(s.steps[i].state)]
      /\ SagaStep' = [i \in Steps |-> Seen(n.steps[i].state)]
  <2>1. Phase(row) = Phase(s) /\ Phase(row') = Phase(n)
    BY DEF Phase, IsWorkflowTerminal, IsCompensating
  <2> QED  BY <2>1, SagaView
<1>2. Abstract!Undoable = Undoable(s)
  <2>1. Compensable \subseteq Steps
    BY DefinitionAssumption
  <2> QED  BY <1>1, <2>1 DEF Abstract!Undoable, Undoable
<1>3. SameSteps(s, n) => SagaStep' = SagaStep
  BY <1>1 DEF SameSteps
<1>4. CASE Stays(s, n)
  BY <1>1, <1>3, <1>4 DEF Stays, Abstract!vars
<1>5. CASE Completes(s, n)
  <2>1. Abstract!Complete
    BY <1>1, <1>3, <1>5 DEF Completes, Abstract!Complete
  <2> QED  BY <2>1 DEF Abstract!Next
<1>6. CASE Stops(s, n)
  <2>1. Abstract!Stop
    BY <1>1, <1>2, <1>3, <1>6 DEF Stops, Abstract!Stop
  <2> QED  BY <2>1 DEF Abstract!Next
<1>7. CASE Ends(s, n)
  <2>1. Abstract!Finish \/ Abstract!GiveUp
    BY <1>1, <1>2, <1>3, <1>7 DEF Ends, Abstract!Finish, Abstract!GiveUp
  <2> QED  BY <2>1 DEF Abstract!Next
<1>8. ASSUME NEW i \in Steps, Does(s, n, i)
      PROVE  Abstract!Next
  <2>1. SagaStep' = [SagaStep EXCEPT ![i] = "done"]
    BY <1>1, <1>8 DEF Does, Moves
  <2>2. Abstract!Do(i)
    BY <1>1, <1>8, <2>1 DEF Does, Moves, Abstract!Do
  <2> QED  BY <2>2 DEF Abstract!Next
<1>9. ASSUME NEW i \in Steps, Undoes(s, n, i)
      PROVE  Abstract!Next
  <2>1. SagaStep' = [SagaStep EXCEPT ![i] = "undone"]
    BY <1>1, <1>9 DEF Undoes, Moves
  <2>2. Abstract!Undo(i)
    BY <1>1, <1>2, <1>9, <2>1 DEF Undoes, Moves, Abstract!Undo
  <2> QED  BY <2>2 DEF Abstract!Next
<1> QED  BY <1>4, <1>5, <1>6, <1>7, <1>8, <1>9 DEF SagaStepTo

\* Every step of the manager is one step of the saga, or none.
LEMMA NextMaps == SagaInv /\ [Next]_vars => [Abstract!Next]_(Abstract!vars)
<1> SUFFICES ASSUME SagaInv, [Next]_vars PROVE [Abstract!Next]_(Abstract!vars)
  OBVIOUS
<1>1. ASSUME NEW w \in Workers, CommitReleased(w) \/ CommitStarted(w)
      PROVE  [Abstract!Next]_(Abstract!vars)
  <2>1. CommitWrites(w)
    BY <1>1 DEF CommitReleased, CommitStarted
  <2>2. PICK s, n, release : CommitWrote(row, row', s, n, release)
    BY <2>1, CommitWroteFits
  <2>3. /\ SagaStepTo(s, n) /\ row.state = s.state /\ row.steps = s.steps
        /\ row'.state = n.state /\ row'.steps = n.steps
    BY <2>2 DEF CommitWrote, Current, Candidate
  <2> QED  BY <2>3, CommitMaps
<1>2. CASE row'.state = row.state /\ row'.steps = row.steps
  <2>1. Phase(row') = Phase(row)
    BY <1>2 DEF Phase, IsWorkflowTerminal, IsCompensating
  <2> QED  BY <1>2, <2>1, SagaView DEF Abstract!vars
<1>3. \/ row'.state = row.state /\ row'.steps = row.steps
      \/ \E w \in Workers : CommitReleased(w) \/ CommitStarted(w)
  <2>1. row \in Snapshot
    BY DEF SagaInv, IInv, TypeOK
  <2>2. \/ row' = row \/ row' = Claimed(row) \/ row' = CancelledRow(row)
        \/ \E w \in Workers : CommitReleased(w) \/ CommitStarted(w)
    BY DEF vars, Next, WorkerStep, Observe, Claim, ClaimConflict, CommitInvalid, CommitRefused,
           Reread, Renew, RenewMisses, HandlerSucceeds, HandlerFails, HandlerReturnsNonJson,
           HandlerLosesLease, Crash, CancelReads, CancelRequests, AbandonedLeaseExpires,
           OwnedLeaseExpires, RetryBecomesDue
  <2> QED  BY <2>1, <2>2, ClaimedFits, CancelledFits
<1> QED  BY <1>1, <1>2, <1>3

\* Workers, leases, crashes, retries and cancellations implement the saga: the
\* steps run in order and are compensated in reverse, each once.
THEOREM SagaIsImplemented == Spec => ImplementsSaga
<1>1. Init => Abstract!Init
  <2> SUFFICES ASSUME Init PROVE Abstract!Init
    OBVIOUS
  <2>1. row.state = "pending" /\ \A i \in Steps : row.steps[i].state = "pending"
    BY DEF Init, InitialSnapshot
  <2>2. Phase(row) = "forward" /\ Seen("pending") = "todo"
    BY <2>1 DEF Phase, Seen, IsWorkflowTerminal, IsCompensating, OutputStates
  <2> QED  BY <2>1, <2>2, SagaView DEF Abstract!Init
<1>2. SagaInv /\ [Next]_vars => [Abstract!Next]_(Abstract!vars)
  BY NextMaps
<1> QED  BY <1>1, <1>2, SagaInductive, PTL DEF Spec, ImplementsSaga, Abstract!Spec
=============================================================================
