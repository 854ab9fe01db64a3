\* Two messages claimed in one batch, handlers that are retried, one fault, fair
\* scheduling: what fails or dies in the middle of a batch holds nothing back.
SPECIFICATION FairSpec
CONSTANTS
    Messages = {m1, m2}
    Processors = {p1}
    Consumers = {c1}
    Concurrency = 2
    Limit = 3
    OutboxAttempts = 1
    InboxAttempts = 2
    Tries = 2
    MaxFaults = 1
    MaxAppends = 1
PROPERTIES
    EveryMessageSettles
CHECK_DEADLOCK FALSE
