\* A reconciler, a worker and direct commands on the copies of two images.
SPECIFICATION FairSpec
CONSTANTS
    r1 = r1
    w1 = w1
    w2 = w2
    d1 = d1
    c1 = c1
    self = self
    other = other
    NoJob = NoJob
    NoRegion = NoRegion
    NoWorker = NoWorker
    K = 2
    Regions = {r1}
    Accounts = {self, other}
    Jobs <- TwoImages
    Workers = {w1}
    Operators = {d1}
    Reconcilers = {c1}
    GlobalLimit = 2
    AccountLimit = 1
    RegionLimit = 2
    MaxAttempts = 2
    MaxCopies = 2
    MaxEvents = 1
INVARIANTS
    CopiesTracked
PROPERTIES
    ReadyStays
    PendingDecided
\* Every job may be settled and every replica decided.
CHECK_DEADLOCK FALSE
