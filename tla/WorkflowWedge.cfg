\* One worker and one cancellation, nothing crashes: a cancelled attempt whose
\* candidate the manager refuses.
SPECIFICATION Spec
CONSTANTS
    NSteps = 2
    MaxAttempts <- MCAttemptsOne
    Compensable = {}
    Workers = {w1}
    Cancellers = {c1}
    MaxCrashes = 0
    MaxExpiries = 0
    MaxRevision = 8
INVARIANTS
    CandidatesAreValid
CHECK_DEADLOCK FALSE
