SPECIFICATION FairSpec
CONSTANTS
    r1 = r1
    r2 = r2
    Requests <- TwoRequests
    MaxSessions = 2
    Crashes = TRUE
    Undecodable = {1}
    Nobody = Nobody
CHECK_DEADLOCK FALSE
INVARIANTS
    TypeOK
    OneEngine
    StopIsDelivered
PROPERTIES
    EndIsRecorded
    StopEnds
