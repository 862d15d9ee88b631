\* A signal during a cloud call.
SPECIFICATION Spec
CONSTANTS
    r1 = r1
    p1 = p1
    p2 = p2
    NoRun = NoRun
    NoPlan = NoPlan
    Runs = {r1}
    Plans = {p1}
    N = 1
    MaxAttempts = 1
    Faults = {"signal"}
INVARIANT
    SignalTakesFailurePath
\* Every attempt may be used up and every resource gone.
CHECK_DEADLOCK FALSE
