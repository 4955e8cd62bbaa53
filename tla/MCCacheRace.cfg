SPECIFICATION MCSpec
CONSTANTS
    Searchers = {s1}
    Mutators = {m1}
    Keys = {k1}
    Matched = {k1}
    MaxMutations = 1
    AllowFaults = FALSE
    Scopes = {"overlap"}
    GlobSearcher = s1
    GlobMutator = m1
INVARIANTS
    HitsAreCurrent
