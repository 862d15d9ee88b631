\* Interrupted, resumed and reinstalled attempts of one run.
SPECIFICATION Spec
CONSTANTS
    r1 = r1
    p1 = p1
    p2 = p2
    NoRun = NoRun
    NoPlan = NoPlan
    Runs = {r1}
    Plans = {p1, p2}
    N = 2
    MaxAttempts = 3
    Faults = {"reclaim", "restart", "reinstall"}
SYMMETRY MCSymmetry
INVARIANTS
    ImagesHardened
    CleanExit
    LeftoversListed
    ReportsOwnImage
PROPERTIES
    NoReplay
    JournalNeverForgets
\* Every attempt may be used up and every resource gone.
CHECK_DEADLOCK FALSE
