-------------------------- MODULE WorkflowSnapshot --------------------------
(***************************************************************************)
(* The persisted snapshot of one workflow and the validation every         *)
(* candidate, receipt and persisted row goes through                       *)
(* (packages/workflows/src/{types,state,validation}.ts).                   *)
(*                                                                         *)
(* A snapshot keeps the fields the state machine depends on: the workflow  *)
(* state, the revision, the cancellation flag, the lease token and, for    *)
(* each step, its state, its two attempt counters and WHICH optional keys  *)
(* (output, retryAt, error) it carries.  Names, keys, inputs, payloads and *)
(* time stamps are abstracted away.                                        *)
(***************************************************************************)
EXTENDS Integers, FiniteSets

CONSTANTS
    NSteps,        \* number of steps of the registered definition
    MaxAttempts,   \* maxAttempts of each step
    Compensable    \* the steps whose definition has a compensate handler

Steps == 1..NSteps

\* defineWorkflow refuses an empty step list, defineStep a maxAttempts below 1.
ASSUME DefinitionAssumption ==
    /\ NSteps \in Nat \ {0}
    /\ MaxAttempts \in [Steps -> Nat \ {0}]
    /\ Compensable \subseteq Steps

WorkflowStates ==
    {"pending", "running", "waiting_retry", "completed", "failed",
     "compensating", "compensation_waiting_retry", "compensated",
     "compensation_failed", "cancelled"}

StepStates ==
    {"pending", "running", "waiting_retry", "committed", "compensating",
     "compensation_waiting_retry", "compensated", "failed", "compensation_failed"}

OutputStates == {"committed", "compensating", "compensation_waiting_retry",
                 "compensated", "compensation_failed"}
AttemptStates == {"running", "waiting_retry", "failed"}
CompensationAttemptStates == {"compensating", "compensation_waiting_retry",
                              "compensated", "compensation_failed"}
WaitingStates == {"waiting_retry", "compensation_waiting_retry"}
ErrorStates == {"waiting_retry", "failed", "compensation_waiting_retry",
                "compensation_failed"}
ActiveStates == {"compensating", "compensation_waiting_retry"}

\* No lease: the token of a lease is the revision its claim produced, which
\* is unique because every claim raises the revision (crypto.randomUUID()).
NoLease == 0

StepSnapshot ==
    [state : StepStates, attempts : Nat, compensationAttempts : Nat,
     has : SUBSET {"output", "retryAt", "error"}]

Snapshot ==
    [state : WorkflowStates, revision : Nat, cancellationRequested : BOOLEAN,
     steps : [Steps -> StepSnapshot], lease : Nat]

\* The snapshot WorkflowManager.start writes.
InitialSnapshot ==
    [state |-> "pending", revision |-> 0, cancellationRequested |-> FALSE,
     steps |-> [i \in Steps |-> [state |-> "pending", attempts |-> 0,
                                 compensationAttempts |-> 0, has |-> {}]],
     lease |-> NoLease]

IsWorkflowTerminal(s) ==
    s.state \in {"completed", "failed", "compensated", "compensation_failed", "cancelled"}

IsWorkflowWaiting(s) == s.state \in {"waiting_retry", "compensation_waiting_retry"}

\* workflowNextRetryAt(s) !== null: a cancelled forward wait has no deadline.
HasNextRetryAt(s) ==
    /\ ~(s.state = "waiting_retry" /\ s.cancellationRequested)
    /\ \E i \in Steps : s.steps[i].state \in WaitingStates /\ "retryAt" \in s.steps[i].has

IsCompensating(s) == s.state \in {"compensating", "compensation_waiting_retry"}

(***************************************************************************)
(* assertStep: counters and optional keys against the state of the step.   *)
(***************************************************************************)
AssertStep(i, step) ==
    /\ step.state \in OutputStates \cup AttemptStates => step.attempts >= 1
    /\ step.state \in OutputStates <=> "output" \in step.has
    /\ step.state \in CompensationAttemptStates =>
          step.compensationAttempts >= 1 /\ i \in Compensable
    /\ step.state \in WaitingStates <=> "retryAt" \in step.has
    /\ step.state \in ErrorStates <=> "error" \in step.has

(***************************************************************************)
(* assertForwardBoundary: committed steps, then at most one marker, then   *)
(* pending steps.                                                          *)
(***************************************************************************)
AssertForwardBoundary(s, marker, markerOptional) ==
    \E k \in 0..NSteps :
        /\ \A i \in 1..k : s.steps[i].state = "committed"
        /\ \/ /\ k < NSteps
              /\ s.steps[k + 1].state = marker
              /\ \A i \in (k + 2)..NSteps : s.steps[i].state = "pending"
           \/ /\ markerOptional
              /\ \A i \in (k + 1)..NSteps : s.steps[i].state = "pending"

Active(s) == {i \in Steps : s.steps[i].state \in ActiveStates}

InState(s, state) == {i \in Steps : s.steps[i].state = state}

AtMostOne(S) == \A a, b \in S : a = b

\* Compensation runs from the last step to the first around step k.
ReverseOrderAround(s, k) ==
    /\ \A i \in Steps : i > k /\ i \in Compensable => s.steps[i].state # "committed"
    /\ \A i \in Steps : i < k => s.steps[i].state # "compensated"

AssertCompensationBoundary(s) ==
    /\ AtMostOne(Active(s))
    /\ s.state \in ActiveStates => \A i \in Active(s) : s.steps[i].state = s.state
    /\ s.state = "compensation_waiting_retry" => Active(s) # {}
    /\ s.state \notin ActiveStates => Active(s) = {}
    /\ AtMostOne(InState(s, "failed"))
    /\ s.state \in {"compensating", "compensated"} =>
          \E i \in Steps : s.steps[i].state # "pending"
    /\ s.state = "compensated" => InState(s, "compensated") # {}
    /\ \A i \in Steps : s.steps[i].state \notin {"running", "waiting_retry"}
    /\ \A i, j \in Steps :
          i < j /\ s.steps[i].state = "pending" => s.steps[j].state = "pending"
    /\ \A k \in Active(s) : ReverseOrderAround(s, k)
    /\ s.state \in {"compensated", "cancelled"} =>
          \A i \in Steps : /\ s.steps[i].state # "compensation_failed"
                           /\ i \in Compensable => s.steps[i].state # "committed"
    /\ s.state = "compensation_failed" =>
          /\ InState(s, "compensation_failed") # {}
          /\ AtMostOne(InState(s, "compensation_failed"))
          /\ \A k \in InState(s, "compensation_failed") : ReverseOrderAround(s, k)

AssertStateBoundary(s) ==
    /\ s.state = "pending" =>
          \A i \in Steps : /\ s.steps[i].state = "pending"
                           /\ s.steps[i].attempts = 0
                           /\ s.steps[i].compensationAttempts = 0
    /\ s.state = "completed" =>
          /\ ~s.cancellationRequested
          /\ \A i \in Steps : s.steps[i].state = "committed"
    /\ s.state = "failed" => ~s.cancellationRequested
    /\ s.state = "cancelled" => s.cancellationRequested
    /\ s.state = "running" => AssertForwardBoundary(s, "running", TRUE)
    /\ s.state = "waiting_retry" => AssertForwardBoundary(s, "waiting_retry", FALSE)
    /\ s.state = "failed" => AssertForwardBoundary(s, "failed", FALSE)
    /\ s.state \in {"compensating", "compensation_waiting_retry", "compensated",
                    "compensation_failed", "cancelled"} => AssertCompensationBoundary(s)

\* assertWorkflowSnapshot
AssertWorkflowSnapshot(s) ==
    /\ \A i \in Steps : AssertStep(i, s.steps[i])
    /\ AssertStateBoundary(s)

\* assertWorkflowSnapshotMatchesDefinition: budgets of the deployed definition.
MatchesDefinition(s) ==
    /\ \A i \in Steps :
          /\ s.steps[i].attempts <= MaxAttempts[i]
          /\ s.steps[i].compensationAttempts <= MaxAttempts[i]
          /\ s.steps[i].state = "waiting_retry" => s.steps[i].attempts < MaxAttempts[i]
          /\ s.steps[i].state = "compensation_waiting_retry" =>
                s.steps[i].compensationAttempts < MaxAttempts[i]
          /\ s.state = "failed" /\ i \in Compensable => s.steps[i].state # "committed"
    /\ s.state = "compensating" =>
          \/ Active(s) # {}
          \/ InState(s, "committed") \cap Compensable # {}
          \/ InState(s, "compensated") # {}

ValidSnapshot(s) == AssertWorkflowSnapshot(s) /\ MatchesDefinition(s)
=============================================================================
