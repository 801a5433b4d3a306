SPECIFICATION Spec
CONSTANTS
    Others = {}
    Codes = {0, 1}
    CgroupMayFail = FALSE
    SetupMayFail = FALSE
    ParentMayDie = TRUE
    ChildMayDie = FALSE
INVARIANT
    LimitsBeforeStart
