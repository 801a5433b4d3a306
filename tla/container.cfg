SPECIFICATION FairSpec
CONSTANTS
    Others = {o1, o2}
    Codes = {0, 1}
    CgroupMayFail = TRUE
    SetupMayFail = TRUE
    ParentMayDie = TRUE
    ChildMayDie = TRUE
INVARIANTS
    TypeOK
    NoSilentLoss
    BusyOnlyIfLeft
    HostUntouched
    HostUnreachable
    NoCgroupLeft
    ResultFaithful
PROPERTY
    NobodyStuck
