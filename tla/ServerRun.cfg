CONSTANTS
    Workers = {w1, w2}
    Sessions = {s1, s2}
    Kinds = {"served", "malformed"}
    MaxSent = 2
    MaxAcceptErrors = 1
    MayReset = TRUE
SPECIFICATION FairSpec
INVARIANTS
    TypeOK
    OneOwner
    OneAccept
PROPERTIES
    LeftSessionsEnd
    RequestsAnswered
    RunReturns
CHECK_DEADLOCK FALSE
