\* Two workers, one cancellation, one crash and one lease lost under its owner.
SPECIFICATION Spec
CONSTANTS
    NSteps = 2
    MaxAttempts <- MCAttempts
    Compensable = {1, 2}
    Workers = {w1, w2}
    Cancellers = {c1}
    MaxCrashes = 1
    MaxExpiries = 1
    MaxRevision = 28
SYMMETRY MCSymmetry
INVARIANTS
    TypeOK RowIsReadable OwnerIsCurrent CallsEndWell
PROPERTIES
    DecisionsAreFinal ImplementsSaga
CHECK_DEADLOCK FALSE
