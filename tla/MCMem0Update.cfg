SPECIFICATION MCSpec
CONSTANTS
    Requests = {r1}
    Facts = {tea, coffee}
    Plain = {}
    NoContent = NoContent
    MaxIds = 2
    MaxItems = 1
    MaxCalls = 3
    MaxFaults = 0
    Scopes = {"faults"}
    FaultsIds = 2
INVARIANT
    EveryOperationMirrored
CHECK_DEADLOCK FALSE
