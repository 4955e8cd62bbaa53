SPECIFICATION MCFairSpec
CONSTANTS
    Requests = {r1, r2}
    Subjects = {s1}
    Objects = {tea, coffee, juice}
    NoFact = NoFact
    MaxRows = 4
    MaxNoops = 1
    MaxLate = 1
    AllowFaults = TRUE
    Scopes = {"serial", "concurrent", "faults"}
    SerialRows = 4
    ConcurrentRows = 3
    FaultsRows = 2
    SerialRequest = r1
    SharedObjects = {tea, coffee}
INVARIANTS
    TypeOK
    AuditExplainsState
    SupersededByNewer
    OpenEdgesCommitted
    EdgesPerRow
    ActiveRowLinked
    SerialGraphMirrorsTable
    SerialConflictNeedsRestatement
    SerialUpdateReplacesOne
PROPERTIES
    LedgerSpec
    RequestsFinish
    EventuallyLinked
