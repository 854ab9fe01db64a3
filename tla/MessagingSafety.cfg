\* One message, two processors, two consumers, two faults.
SPECIFICATION Spec
CONSTANTS
    Messages = {m1}
    Processors = {p1, p2}
    Consumers = {c1, c2}
    Concurrency = 1
    Limit = 2
    OutboxAttempts = 2
    InboxAttempts = 2
    Tries = 4
    MaxFaults = 2
    MaxAppends = 2
INVARIANTS
    MessagesAreAccounted
PROPERTIES
    ClaimsAreRespected
CHECK_DEADLOCK FALSE
