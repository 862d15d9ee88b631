\* Two workers on a copy and a share of one image.
SPECIFICATION FairSpec
CONSTANTS
    r1 = r1
    w1 = w1
    w2 = w2
    d1 = d1
    c1 = c1
    self = self
    other = other
    NoJob = NoJob
    NoRegion = NoRegion
    NoWorker = NoWorker
    K = 1
    Regions = {r1}
    Accounts = {self, other}
    Jobs <- CopyAndShare
    Workers = {w1, w2}
    Operators = {d1}
    Reconcilers = {}
    GlobalLimit = 2
    AccountLimit = 1
    RegionLimit = 1
    MaxAttempts = 2
    MaxCopies = 1
    MaxEvents = 2
INVARIANTS
    InFlightWithinQuota
PROPERTIES
    ImplementsLeaseQueue
    JobsSettle
\* Every job may be settled and every replica decided.
CHECK_DEADLOCK FALSE
