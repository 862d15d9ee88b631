SPECIFICATION Spec
CONSTANTS
    Family <- SshdRules
    Disruptive = {}
    Reboot = {}
    Refusable = {1, 2}
    Raising = {}
    Selections <- Everything
    Module <- NoLines
    Featured = {}
    Absent = {}
    Authselect = FALSE
    AllowDisruptive = FALSE
    Workers = 2
    Deadline = FALSE
    None = None
    Broken = Broken
INVARIANT
    SshdStaysValid
CHECK_DEADLOCK FALSE
