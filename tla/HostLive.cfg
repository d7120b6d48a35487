CONSTANTS
    r1 = r1
    r = r1
    Run = {r1}
    Notified = {}
    MaxAttempt = 1
    MaxCalls = 2
    MaxTurnCalls = 1
    MaxRetry = 1
    MaxDown = 0
    MaxRepeat = 1
    ListExpires = FALSE
    PDelivery = {}
    PTask = {2}
    PFlow = {4}
    Referenced = {4}
    RetentionTime = 1
    BatchSize = 1
    MaxNow = 2
    MaxPruneFaults = 1
    MaxRecreated = 0
    BRun = {br1}
    BSess = {s1}
    BPage = {p1}
    MaxSessions = 1
    MaxPagesPerSession = 1
    MaxGen = 1
    MaxDocs = 1
    MaxBCalls = 2
    MaxBFaults = 1
SPECIFICATION LiveSpec
INVARIANTS
    NoOrphanWait
PROPERTIES
    RunsProceed DueIsPruned 
CHECK_DEADLOCK FALSE
