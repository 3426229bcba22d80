SPECIFICATION FairSpec
CONSTANTS
    e1 = e1
    e2 = e2
    t1 = t1
    t2 = t2
    p1 = p1
    Engines   <- TwoEngines
    Targets   <- OneTarget
    Threaded  <- None
    Paths     <- OnePath
    Collected = 1
    Streamed  = 1
    MaxWrites = 1
    NoEngine  = NoEngine
    NoTarget  = NoTarget
    Nothing   = Nothing
CHECK_DEADLOCK FALSE
INVARIANTS
    NeverLeftStopped
    FailedDumpSpares
PROPERTIES
    EventuallyReleased
