\* Two workers and two processes on one event, in either queue.
SPECIFICATION FairSpec
CONSTANTS
    r1 = r1
    w1 = w1
    w2 = w2
    e1 = e1
    e2 = e2
    NoWorker = NoWorker
    NoRequest = NoRequest
    Free = Free
    Dead = Dead
    Requests = {r1}
    Workers = {w1, w2}
    Emitters = {e1, e2}
    Backends = {"file", "db"}
    MaxAttempts = 2
    MaxFaults = 2
    MaxOverruns = 1
    Endless = FALSE
INVARIANTS
    DeadLetterIsEarned
    QuarantinedIsQueued
PROPERTIES
    ImplementsLeaseQueue
    Settles
\* Every request may be settled and the event processed.
CHECK_DEADLOCK FALSE
