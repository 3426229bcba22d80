SPECIFICATION Spec
CONSTANTS
    NAreas = 2
    NFlags = 0
    MaxSignals = 1
    Crashes = FALSE
CHECK_DEADLOCK FALSE
INVARIANTS
    ProtectionsGiven
