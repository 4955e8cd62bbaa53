---------------------------- MODULE MCMem0Mirror ----------------------------
(***************************************************************************)
(* Instances of Mem0Mirror for TLC.  A run explores one or both of two     *)
(* scopes: "faults", answers of any kind about two memories, and faults;   *)
(* "rewrites", no faults and no deletes, and answers that begin with a new *)
(* memory and go on with an old one, so that one rewrites a row under      *)
(* another.  A scope bounds what is asked, what Mem0 answers and what      *)
(* fails; it never stops a request.                                        *)
(***************************************************************************)
EXTENDS Mem0Mirror

CONSTANTS Scopes,
          FaultsIds   \* bound on the memories created in scope "faults"

VARIABLE scope

MCInit == Init /\ scope \in Scopes

\* A call of r takes an answer or a row to delete.
Starts(r) == pc[r] = "idle" /\ pc'[r] # "idle"

InScope ==
    /\ scope = "faults" => issued' <= FaultsIds
    /\ scope = "rewrites" =>
          /\ faults' = 0
          /\ \A r \in Requests : Starts(r) =>
                \A k \in DOMAIN items'[r] : items'[r][k].event = "ADD" <=> k = 1

MCNext == Next /\ InScope /\ UNCHANGED scope

MCSpec == MCInit /\ [][MCNext]_<<vars, scope>>

MCFairSpec == MCSpec /\ \A r \in Requests : SF_vars(Step(r))
=============================================================================
