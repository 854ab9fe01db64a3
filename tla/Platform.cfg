\* One behaviour per service: see the README for the bounds of every component.
SPECIFICATION Spec
CONSTANTS
    r1 = r1
    r2 = r2
    r3 = r3
    None = None
    Requests <- MCCalls
    Fingerprints = {"body", "other"}
    FingerprintOf <- MCFingerprintOf
    RetryFailed = TRUE
    MaxFaults = 3
    Migrations = {1, 2, 3}
    Deps <- MCDeps
    Irreversible = {}
    Owned = {1, 2}
    Releases <- MCReleases
    Deployers = {"p", "q"}
    MaxRuns = 4
    Sources = {"reliability", "bullmq"}
    LetterRequests <- MCLetterRequests
    Servers = {"s1", "s2"}
    MaxLetterRevision = 2
    MaxLetterFaults = 1
    PageFilters = {"first", "other"}
    LetterKeys = {"k1", "k2"}
    MaxPages = 2
    MaxInFlight = 2
    DiskDrivers = {"memory", "local", "s3", "r2"}
    Paths = {"a", "b"}
    NewContents = {"v1"}
    Accepted = {"v1"}
    Users = {"u1", "u2"}
    MaxOperations = 3
    IssuanceStores = {"memory", "redis"}
    Grants = {"g1", "g2"}
    Confirmers = {"c1", "c2"}
    Lifetime = 2
    MaxPending = 1
    MaxUploadFaults = 1
    Notified = {{"mail"}, {"database"}, {"webhook"}, {"broadcast"}}
    NotificationRunners = {"w1", "w2"}
    NotificationTries = 2
    MaxSends = 2
    MaxNotificationFaults = 2
    Lists = {"letters", "workflows", "records", "memory"}
    RowIds = {1, 2, 3}
    LocaleRank <- MCLocaleRank
    PageLimits = {1, 2}
    MaxInstant = 3
    MaxChanges = 2
    MaxHooks = 3
    MaxWrites = 2
    Dispatches = {"j1", "j2"}
    CanonicalOf <- MCCanonicalOf
    DispatchName = "n1"
    Selections = {{"n1"}, {"n2"}}
    Actors = {"a1", "a2"}
    CredentialLife = 1
    ClockSkew = 0
    JobTries = 2
    LastTick = 1
    MaxOutages = 1
    MaxAdministration = 1
    HookSenders = {"h1", "h2"}
    HookAttempts = 2
    HookTries = 2
    Tolerance = 1
    LastHookTick = 1
    MaxRotations = 1
    MaxHookFaults = 1
    Builders = {"b1", "b2"}
    TaskNames = {"t1", "t2"}
    Handled = {"t1"}
    DayLength = 3
    Crons = {{0}, {1, 2}}
    Offsets <- MCOffsets
    ProviderOffset = 1
    MaxCalls = 4
INVARIANTS
    KeysAreExclusive
    MigrationsAreSound
    OperationsAreExact
    PageIsCurrent
    FilesAreHonest
    GrantsAreSpentOnce
    DeliveriesAreSettled
    WalksAreComplete
    HooksFollowCommits
    DelegationIsExact
    WebhooksAreAccountable
    ScheduleIsAsDeclared
CHECK_DEADLOCK FALSE
