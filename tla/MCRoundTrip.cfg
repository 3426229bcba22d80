SPECIFICATION RSpec
CONSTANTS
    e1 = e1
    t1 = t1
    t2 = t2
    p1 = p1
    r1 = r1
    Engines   <- OneEngine
    Targets   <- TwoTargets
    Threaded  <- SecondTarget
    Paths     <- OnePath
    Readers   <- OneReader
    Collected = 1
    Streamed  = 2
    MaxWrites = 1
    NoEngine  = NoEngine
    NoTarget  = NoTarget
    Nothing   = Nothing
CONSTRAINT OnlyDumpedMove
CHECK_DEADLOCK FALSE
INVARIANTS
    TypeOK
    KilledIsOnDisk
    LeavesPrefix
    RestoredIsOneState
PROPERTIES
    SuccessIsConsistent
    ImplementsSnapshot
