-------------------------------- MODULE Saga --------------------------------
(***************************************************************************)
(* What a workflow promises its users, without workers, leases, revisions  *)
(* or retries: the steps are done in order, and when the workflow cannot   *)
(* go on (a step failed for good, or it was cancelled) the done steps that *)
(* have a compensation are undone from the last one to the first.          *)
(***************************************************************************)
EXTENDS Integers

CONSTANTS Steps, Compensable

VARIABLES phase, step
vars == <<phase, step>>

Ends == {"completed", "failed", "cancelled", "compensated", "compensation_failed"}

Init == phase = "forward" /\ step = [i \in Steps |-> "todo"]

Undoable == {i \in Compensable : step[i] = "done"}

Do(i) ==
    /\ phase = "forward"
    /\ step[i] = "todo"
    /\ \A j \in Steps : j < i => step[j] = "done"
    /\ step' = [step EXCEPT ![i] = "done"]
    /\ UNCHANGED phase

Complete ==
    /\ phase = "forward"
    /\ \A i \in Steps : step[i] = "done"
    /\ phase' = "completed"
    /\ UNCHANGED step

Stop ==
    /\ phase = "forward"
    /\ phase' \in (IF Undoable = {} THEN {"failed", "cancelled"} ELSE {"undoing"})
    /\ UNCHANGED step

Undo(i) ==
    /\ phase = "undoing"
    /\ i \in Undoable
    /\ \A j \in Undoable : j <= i
    /\ step' = [step EXCEPT ![i] = "undone"]
    /\ UNCHANGED phase

GiveUp ==
    /\ phase = "undoing"
    /\ Undoable # {}
    /\ phase' = "compensation_failed"
    /\ UNCHANGED step

Finish ==
    /\ phase = "undoing"
    /\ Undoable = {}
    /\ phase' \in {"compensated", "cancelled"}
    /\ UNCHANGED step

Next == (\E i \in Steps : Do(i) \/ Undo(i)) \/ Complete \/ Stop \/ GiveUp \/ Finish

Spec == Init /\ [][Next]_vars
=============================================================================
