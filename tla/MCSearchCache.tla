--------------------------- MODULE MCSearchCache ----------------------------
(***************************************************************************)
(* Instances of SearchCache for TLC.  A run explores one or both of two    *)
(* scopes: "overlap", requests that overlap over the keys that the user's  *)
(* pattern matches; "glob", one search and one mutation, over keys that it *)
(* does not match too.  A scope bounds what clients begin, and never stops *)
(* a request that has begun.                                               *)
(***************************************************************************)
EXTENDS SearchCache, TLC

CONSTANTS Scopes,
          GlobSearcher, GlobMutator  \* the slots in use in scope "glob"

ASSUME SlotsAssumption == GlobSearcher \in Searchers /\ GlobMutator \in Mutators

VARIABLE scope

MCInit == Init /\ scope \in Scopes

InScope ==
    /\ scope = "overlap" => \A s \in Searchers : key'[s] \in Matched \cup {None}
    /\ scope = "glob" => /\ \A s \in Searchers \ {GlobSearcher} : spc'[s] = "idle"
                         /\ \A m \in Mutators \ {GlobMutator} : mpc'[m] = "idle"

MCNext == Next /\ InScope /\ UNCHANGED scope

MCSpec == MCInit /\ [][MCNext]_<<vars, scope>>

MCFairSpec ==
    /\ MCSpec
    /\ \A s \in Searchers : WF_vars(SearchStep(s))
    /\ \A m \in Mutators : WF_vars(MutationStep(m))
    /\ \A k \in Keys : WF_vars(Expire(k))
=============================================================================
