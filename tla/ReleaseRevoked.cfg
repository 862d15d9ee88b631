\* A revoked artifact becomes active again once its mirror is behind its row.
SPECIFICATION Spec
CONSTANTS
    p1 = p1
    p2 = p2
    a1 = a1
    a2 = a2
    o1 = o1
    NoArtifact = NoArtifact
    NoOp = NoOp
    AnyGen = AnyGen
    Free = Free
    Dead = Dead
    Procs = {p1, p2}
    Artifacts = {a1, a2}
    Ops = {o1}
    MaxJobs = 4
    Faults = {"crash"}
SYMMETRY MCSymmetry
PROPERTIES
    RevokedForever
CHECK_DEADLOCK FALSE
