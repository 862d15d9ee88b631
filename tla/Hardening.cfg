SPECIFICATION MCSpec
CONSTANTS
    Family <- MixedRules
    Disruptive = {}
    Reboot = {4}
    Refusable = {1, 3}
    Raising = {1}
    Selections <- OneKind
    Module <- MixedLines
    Featured = {6}
    Absent = {7}
    Authselect = TRUE
    AllowDisruptive = FALSE
    Workers = 2
    Deadline = TRUE
    None = None
    Broken = Broken
INVARIANTS
    ReportedPassHolds
    SshdRunsItsConfig
PROPERTY
    DocumentWritten
CHECK_DEADLOCK FALSE
