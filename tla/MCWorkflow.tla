----------------------------- MODULE MCWorkflow -----------------------------
(* Instances of WorkflowManager for TLC. *)
EXTENDS WorkflowManager, TLC

MCAttempts == <<2, 1>>
MCSymmetry == Permutations(Workers)
MCAttemptsOne == <<1, 1>>
=============================================================================
