CONSTANTS
    Node = {root, a, b}
    Root = root
    NoNode = none
    Budget = 3
    MaxDepth = 2
    MaxActive = 2
    MaxDown = 0
SPECIFICATION DelegSpec
INVARIANTS
    DelegationAgrees
PROPERTIES
    EndedForGood
SYMMETRY Symmetry
CHECK_DEADLOCK FALSE
