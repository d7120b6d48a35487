CONSTANTS
    r1 = r1
    r = r1
    Run = {r1}
    Notified = {}
    MaxAttempt = 1
    MaxCalls = 1
    MaxTurnCalls = 1
    MaxRetry = 1
    MaxDown = 0
    MaxRepeat = 0
    ListExpires = TRUE
SPECIFICATION HostSpec
PROPERTIES DecisionAnswered
CHECK_DEADLOCK FALSE
