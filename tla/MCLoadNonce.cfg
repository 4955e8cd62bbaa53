SPECIFICATION Spec
CONSTANTS
    Sweep <- OneThenTwo
    Stride = 4
    Cycle = 2
    WriteShares = {0}
    PoolSize = 1
    MaxRequests = 1
    MaxGiveUps = 0
    AllowFaults = FALSE
INVARIANTS
    EverySearchMisses
CHECK_DEADLOCK FALSE
