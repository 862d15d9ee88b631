\* Executors end and orphaned instances are collected.
SPECIFICATION FairSpec
CONSTANTS
    r1 = r1
    p1 = p1
    p2 = p2
    NoRun = NoRun
    NoPlan = NoPlan
    Runs = {r1}
    Plans = {p1}
    N = 1
    MaxAttempts = 2
    Faults = {"signal", "expiry", "reclaim"}
PROPERTIES
    ExecutorEnds
    OrphansCollected
\* Every attempt may be used up and every resource gone.
CHECK_DEADLOCK FALSE
