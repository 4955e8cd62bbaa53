SPECIFICATION MCFairSpec
CONSTANTS
    Searchers = {s1, s2}
    Mutators = {m1, m2}
    Keys = {k1, k2}
    Matched = {k1}
    MaxMutations = 2
    AllowFaults = TRUE
    Scopes = {"overlap", "glob"}
    GlobSearcher = s1
    GlobMutator = m1
INVARIANTS
    TypeOK
    StaleIsExplained
PROPERTIES
    CacheConverges
