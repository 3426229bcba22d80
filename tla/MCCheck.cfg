SPECIFICATION Spec
CONSTANTS
    CommandLines  <- SomeCommandLines
    Processes     <- SomeProcesses
    MapsPool      <- SomeMaps
    FdsPool       <- SomeFds
    Pid           = 7
    MaxKernelMaps = 1
    MaxChanges    = 1
    MaxSignals    = 2
CHECK_DEADLOCK FALSE
INVARIANTS
    TypeOK
    VerdictIsRight
    SignalsKept
    CommandLineIsSound
