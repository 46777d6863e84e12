SPECIFICATION FairSpec
CONSTANTS
    Workers = {w1}
    Sessions = {s1, s2}
    Kinds = {"served", "unrouted"}
    MaxSent = 1
    MaxAcceptErrors = 0
    MayReset = FALSE
PROPERTY RequestsAnswered
CHECK_DEADLOCK FALSE
