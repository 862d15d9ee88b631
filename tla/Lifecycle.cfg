\* A run, its resumption, a reconciler and a prune.
SPECIFICATION FairSpec
CONSTANTS
    p1 = p1
    p2 = p2
    j1 = j1
    Free = Free
    Starter = p1
    Resumers = {p2}
    Janitors = {j1}
    MaxBeats = 1
    MaxFaults = 1
INVARIANTS
    ChainVerifies
    ManifestMatchesLog
    RefusesOnlyReady
    LiveRunIsActive
PROPERTIES
    ImplementsRunHistory
    ReconcileSparesApproved
    AbandonedIsEnded
\* The run may be over and every process ended.
CHECK_DEADLOCK FALSE
