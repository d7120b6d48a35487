SPECIFICATION LiveSpec
CONSTANTS
    EventType = {}
    Author = {}
    Payload = {}
    Key = {}
    NoKey = nokey
    MaxLog = 0
    CallId = {c1, c2}
    MaxTurns = 2
    MaxRetries = 1
    MaxTurnCalls = 1
    MaxCrash = 1
    Task = {t1}
    MaxTries = 2
    MaxCrashes = 1
    MaxFaults = 0
    a = a
    v1 = v1
    Step = {a}
    Def = {v1}
    Optional = {}
    Drafts <- MCDrafts
    Note = {}
    MaxRev = 1
    MaxAttempts = 1
    MaxGoalCrashes = 1
    MaxGoalFaults = 0
    Inbound = {e1}
    Reader = {r1, r2}
    Sender = {pump, drain}
    MaxDeliveryAttempts = 2
    MaxConnCrashes = 2
    MaxDisabled = 0
PROPERTIES
    ExecutionEnds FlowsProceed GoalsProceed AnswerIsSettled
CHECK_DEADLOCK FALSE
