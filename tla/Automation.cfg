SPECIFICATION Spec
CONSTANTS
    Job = {j1}
    Key = {k1}
    Config <- ConfigEvery
    NoConfig = NoConfig
    NoRow = NoRow
    Lease = 1
    RunLimit = 2
    DueLimit = 1
    MaxWaits = 1
    MaxTime = 2
    MaxEdit = 0
    MaxDown = 1
INVARIANTS
    RowsAgree NoOccurrenceLost
PROPERTIES
    EndedStays
CHECK_DEADLOCK FALSE
