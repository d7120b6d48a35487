SPECIFICATION Spec
CONSTANTS
    Job = {j1, j2}
    Key = {}
    Config <- ConfigCron
    NoConfig = NoConfig
    NoRow = NoRow
    Lease = 1
    RunLimit = 1
    DueLimit = 1
    MaxWaits = 0
    MaxTime = 2
    MaxEdit = 1
    MaxDown = 1
PROPERTIES
    PendingServed
CHECK_DEADLOCK FALSE
