\* Deduplicated pushes, a chain and a batch on two queues; one call of clear().
SPECIFICATION FairSpec
CONSTANTS
    None = "none"
    Workloads <- MCWorkloads
    Jobs <- MCJobs
    Queues = {"default", "other"}
    QueueOf <- MCQueueOf
    PriorityOf <- MCPriorityOf
    TriesOf <- MCTriesOf
    Late = {"child1"}
    ReleasesOf <- MCReleasesOf
    KeyOf <- MCKeyOf
    Expiring = {"ttl"}
    Children = {"child1", "child2"}
    NextOf <- MCNextOf
    MaxClears = 1
INVARIANTS
    EntriesAreAccounted
PROPERTIES
    EntriesAreOwned EveryJobEnds
CHECK_DEADLOCK FALSE
