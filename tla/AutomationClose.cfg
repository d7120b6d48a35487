SPECIFICATION Spec
CONSTANTS
    Job = {j1}
    Key = {k1}
    Config <- ConfigLate
    NoConfig = NoConfig
    NoRow = NoRow
    Lease = 1
    RunLimit = 1
    DueLimit = 1
    MaxWaits = 1
    MaxTime = 0
    MaxEdit = 0
    MaxDown = 1
PROPERTIES
    CloseCompletes
CHECK_DEADLOCK FALSE
