SPECIFICATION Spec
CONSTANTS
    Family <- ArgRules
    Disruptive = {}
    Reboot = {}
    Refusable = {}
    Raising = {}
    Selections <- Everything
    Module <- ArgLines
    Featured = {}
    Absent = {}
    Authselect = TRUE
    AllowDisruptive = FALSE
    Workers = 2
    Deadline = FALSE
    None = None
    Broken = Broken
INVARIANT
    AppliedArgIsLive
CHECK_DEADLOCK FALSE
