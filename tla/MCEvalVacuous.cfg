SPECIFICATION MCSpec
CONSTANTS
    Runs = {r1, r2}
    Plain = {1}
    Contradicted = {}
    Fabricated = {}
    Uses = {"ci"}
    AllowFaults = FALSE
    Scopes = {"gate"}
    ShippedHits = 1
INVARIANTS
    RecallDropFails
CHECK_DEADLOCK FALSE
