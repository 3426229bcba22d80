SPECIFICATION Spec
CONSTANTS
    Requests      = {r1, r2}
    Processes     = {p1}
    Folders       = {store, home, tmp}
    Default       = store
    Nobody        = nobody
    MaxUnreadable = 1
    MaxRemovals   = 1
CHECK_DEADLOCK FALSE
INVARIANTS
    TypeOK
    OnlyOwnFolders
    RememberedUnlessRaced
    AnswersAreTrue
PROPERTIES
    EveryRequestAnswered
