\* A chain of two steps or a batch of two children, two workers, two faults.
SPECIFICATION FairSpec
CONSTANTS
    None = "none"
    Jobs <- MCJobs
    NextOf <- MCNextOf
    Children = {"child1", "child2"}
    Admissions <- MCAdmissions
    TriesOf <- MCTriesOf
    MaxReleases = 1
    MaxStalls = 1
    Workers = {"w1", "w2"}
    MaxFaults = 2
INVARIANTS
    WorkIsAccounted
PROPERTIES
    BatchStatusIsMonotone EveryJobEnds
CHECK_DEADLOCK FALSE
