SPECIFICATION MCSpec
CONSTANTS
    Requests = {r1}
    Subjects = {s1}
    Objects = {tea, coffee}
    NoFact = NoFact
    MaxRows = 3
    MaxNoops = 1
    MaxLate = 0
    AllowFaults = FALSE
    Scopes = {"serial"}
    SerialRows = 3
    ConcurrentRows = 0
    FaultsRows = 0
    SerialRequest = r1
    SharedObjects = {}
INVARIANTS
    NoContradiction
