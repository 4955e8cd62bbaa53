SPECIFICATION MCSpec
CONSTANTS
    Runs = {r1, r2}
    Plain = {}
    Contradicted = {2}
    Fabricated = {1}
    Uses = {"ci", "api"}
    AllowFaults = TRUE
    Scopes = {"gate", "leftover", "overlap"}
    ShippedHits = 1
SYMMETRY AnyRun
INVARIANTS
    TypeOK
    StoredRecallDropFails
    MadeUpFactsFail
    ReportExplainsVerdict
    FailureIsShown
    LeftoversDoNotCount
    GateSkippedOnlyBeforeBaseline
    BaselineIsCommitted
CHECK_DEADLOCK FALSE
