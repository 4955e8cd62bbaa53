SPECIFICATION FairSpec
CONSTANTS
    Sweep <- OneThenTwo
    Stride = 4
    Cycle = 2
    WriteShares = {0, 1}
    PoolSize = 1
    MaxRequests = 2
    MaxGiveUps = 2
    AllowFaults = TRUE
INVARIANTS
    TypeOK
    HitsRepeatEarlierLevels
    SummaryAddsUp
    ServerMeanIsOfTheLevel
PROPERTIES
    SweepEnds
CHECK_DEADLOCK FALSE
