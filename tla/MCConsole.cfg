SPECIFICATION Spec
CONSTANTS
    p1 = p1
    p2 = p2
    Polls       <- TwoPolls
    Capacity    = 1
    MaxLines    = 2
    MaxRestarts = 1
    MaxFailures = 1
    MaxClears   = 1
    Undefined   = Undefined
CHECK_DEADLOCK FALSE
INVARIANTS
    TypeOK
    ShownInOrder
    NoneSkipped
    ClearedStaysCleared
PROPERTIES
    CatchesUp
