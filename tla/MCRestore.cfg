SPECIFICATION FairSpec
CONSTANTS
    NAreas = 2
    NFlags = 1
    MaxSignals = 1
    Crashes = TRUE
CHECK_DEADLOCK FALSE
INVARIANTS
    TypeOK
    ReleasedIsComplete
    SiteStaysExecutable
    NothingLeftBehind
PROPERTIES
    RestoreSettles
