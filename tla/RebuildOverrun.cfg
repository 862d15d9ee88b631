\* Handlers that outlast their lease, which two workers take from each other.
SPECIFICATION FairSpec
CONSTANTS
    r1 = r1
    w1 = w1
    w2 = w2
    e1 = e1
    e2 = e2
    NoWorker = NoWorker
    NoRequest = NoRequest
    Free = Free
    Dead = Dead
    Requests = {r1}
    Workers = {w1, w2}
    Emitters = {e1}
    Backends = {"file", "db"}
    MaxAttempts = 2
    MaxFaults = 0
    MaxOverruns = 0
    Endless = TRUE
PROPERTIES
    RecoveredOrDeadLettered
CHECK_DEADLOCK FALSE
