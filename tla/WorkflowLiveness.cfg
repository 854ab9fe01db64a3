\* Fair workers: one crash, one lost lease and one cancellation delay the end of
\* the workflow but do not prevent it.
SPECIFICATION FairSpec
CONSTANTS
    NSteps = 2
    MaxAttempts <- MCAttemptsOne
    Compensable = {1}
    Workers = {w1, w2}
    Cancellers = {c1}
    MaxCrashes = 1
    MaxExpiries = 1
    MaxRevision = 24
PROPERTIES
    Settles
CHECK_DEADLOCK FALSE
