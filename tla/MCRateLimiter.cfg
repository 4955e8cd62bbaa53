SPECIFICATION FairSpec
CONSTANTS
    Workers = {w1, w2}
    Requests = {r1, r2, r3, r4}
    Limit = 1
    MaxWindow = 1
    AllowFaults = TRUE
INVARIANTS
    TypeOK
    WindowShare
    FailOpenIsBounded
    ThrottledOnlyAboveLimit
PROPERTIES
    CountersExpire
CHECK_DEADLOCK FALSE
