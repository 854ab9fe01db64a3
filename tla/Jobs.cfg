SPECIFICATION Spec
CONSTANTS
    MaxClock = 3
    MaxCount = 2
    Drivers = {"memory", "redis"}
    Callers = {"c1", "c2"}
    MaxVersion = 2
    MaxWire = 2
    Requests = {"r1", "r2", "r3"}
    MaxAttempts = 1
    Decay = 2
    MaxTime = 3
    Jobs = {"j1", "j2"}
    RateMax = 2
    RateWindow = 1
    MaxExceptions = 1
    ExceptionWindow = 2
    MaxReleases = 2
    LastInstant = 3
    MaxCacheFaults = 2
    PlainKeys = {"a", "b"}
    Payloads = {"p"}
    MaxMetadataKeys = 2
    MaxSteps = 12
    MaxBytes = 37
    Transports = {"memory", "bullmq"}
    Runners = {"w1", "w2"}
    MaxRevision = 4
    Tries = 2
    MaxMishaps = 1
    StartStores = {"memory", "drizzle"}
    Processes = {"p1", "p2"}
    StartCallers = {"c1", "c2"}
    DefinitionBatches <- MCBatches
    StartRequests <- MCStartRequests
    WorkflowIds = {"x1", "x2"}
    MaxStarts = 2
    Managers = {"m1", "m2"}
    FlagCallers = {"c1", "c2"}
    FeatureNames = {"f1", "f2"}
    FlagScopes <- MCScopes
    Explicit = {"on"}
    MaxFlagCalls = 3
    MaxFlagFaults = 1
INVARIANTS
    AdaptersAgree
    FillsAreFresh
    LimitIsPaid
    MiddlewareIsExact
    RunsAsSent
    WorkflowsKeepTheirJob
    StartsAreOne
    FeaturesAreKept
CHECK_DEADLOCK FALSE
