SPECIFICATION MCSpec
CONSTANTS
    Requests = {r1, r2}
    Subjects = {s1}
    Objects = {tea, coffee}
    NoFact = NoFact
    MaxRows = 2
    MaxNoops = 0
    MaxLate = 0
    AllowFaults = FALSE
    Scopes = {"concurrent"}
    SerialRows = 0
    ConcurrentRows = 2
    FaultsRows = 0
    SerialRequest = r1
    SharedObjects = {tea, coffee}
INVARIANTS
    GraphMirrorsTable
