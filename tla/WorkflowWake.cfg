\* Two workers, a lease of two ticks, a retry three ticks ahead, two faults.
SPECIFICATION FairSpec
CONSTANTS
    Workers = {"w1", "w2"}
    None = "none"
    LeaseDuration = 2
    RetryDelay = 3
    MaxCopies = 1
    MaxTransitions = 1
    MaxRenewals = 1
    MaxFaults = 2
INVARIANTS
    WakeIsArmed
PROPERTIES
    WorkflowEnds
CHECK_DEADLOCK FALSE
