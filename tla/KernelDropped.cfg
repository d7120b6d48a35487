CONSTANTS
    EventType = {}
    Author = {}
    Payload = {}
    Key = {}
    NoKey = nokey
    MaxLog = 0
    CallId = {c1, c2}
    MaxTurns = 2
    MaxRetries = 1
    MaxTurnCalls = 2
    MaxCrash = 2
SPECIFICATION KernelSpec
INVARIANTS AnsweredBeforeModel
CHECK_DEADLOCK FALSE
