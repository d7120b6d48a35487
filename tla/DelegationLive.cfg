CONSTANTS
    Node = {root, a}
    Root = root
    NoNode = none
    Budget = 3
    MaxDepth = 2
    MaxActive = 2
    MaxDown = 2
SPECIFICATION DelegSpec
INVARIANTS
    WaitingParentRests
PROPERTIES
    ParentsProceed
CHECK_DEADLOCK FALSE
