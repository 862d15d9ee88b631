\* Requests, links, cascades and writes of documents on three artifacts and one protected channel.
SPECIFICATION Spec
CONSTANTS
    NoArtifact = NoArtifact
    AnyGen = AnyGen
    Nobody = Nobody
    Procs = {p1, p2}
    Artifacts = {a1, a2, a3}
    Listed = {a1, a2, a3}
    People = {u1, u2, u3}
    Approvals = {i1}
    Quorum = 2
    MaxJobs = 3
    MaxFaults = 1
SYMMETRY MCSymmetry
INVARIANTS
    ApprovalSpentOnce
    SettledLinksAcyclic
    ReportedLinkStays
PROPERTIES
    QuorumBehindPromotion
    CascadeCoversDescendants
\* Every request may have been answered.
CHECK_DEADLOCK FALSE
