CONSTANTS
    t1 = t1
    Task = {t1, t2}
    MaxTries = 1
    MaxCrashes = 1
    MaxFaults = 1
    a = a
    b = b
    v1 = v1
    v2 = v2
    opt = opt
    Step = {a, b}
    Def = {v1, v2, opt}
    Optional = {opt}
    Drafts <- MCDrafts
    Note = {n}
    MaxRev = 2
    MaxAttempts = 2
    MaxGoalCrashes = 1
    MaxGoalFaults = 1
    r1 = r1
    r2 = r2
    Run = {r1, r2}
    Notified = {r1}
    MaxAttempt = 2
SPECIFICATION OrchSpec
INVARIANTS
    LedgerAgrees FlowsAgree GoalsAgree
PROPERTIES
    LedgerSteps ImplementsTaskContract
CHECK_DEADLOCK FALSE
