SPECIFICATION MCFairSpec
CONSTANTS
    Requests = {r1, r2}
    Facts = {tea}
    Plain = {chat}
    NoContent = NoContent
    MaxIds = 3
    MaxItems = 2
    MaxCalls = 3
    MaxFaults = 1
    Scopes = {"faults", "rewrites"}
    FaultsIds = 2
INVARIANTS
    TypeOK
    MirroredUnlessRolledBack
    AuditExplainsRows
    AuditReplays
    NothingLost
    OpenEdgesAccountedFor
PROPERTY
    RequestsFinish
CHECK_DEADLOCK FALSE
