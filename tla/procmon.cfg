SPECIFICATION FairSpec
CONSTANTS
    Ids = {1, 2, 3}
    Self = 1
    NameOf <- Names
    MemOf <- Mems
    MayOpen <- Permissions
    IntMax = 9
    Limits = {0, 2}
INVARIANTS
    TypeOK
    SurvivorsReported
    RowsGenuine
PROPERTY
    Finishes
