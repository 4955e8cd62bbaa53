----------------------------- MODULE MCEvalRun ------------------------------
(***************************************************************************)
(* Instances of EvalRun for TLC.  One run explores three scopes: "gate",   *)
(* runs in CI of a backend that may do anything, and no faults; "leftover",*)
(* runs in CI that die, and clears that land late; "overlap", the same     *)
(* through the API.  In the latter two nothing goes wrong with a run       *)
(* before its last case, and runs overlap from one's last case on.  A      *)
(* scope bounds what is begun and what fails, and never stops a run.       *)
(***************************************************************************)
EXTENDS EvalRun, TLC

CONSTANTS Scopes,
          ShippedHits   \* hits of the one shipped baseline they begin with

VARIABLE scope

MCInit ==
    /\ Init
    /\ scope \in Scopes
    /\ use = IF scope = "overlap" THEN "api" ELSE "ci"
    /\ scope # "gate" /\ baseline # NoBaseline =>
          baseline.hits = ShippedHits /\ baseline.falseFacts = 0

\* A run has no case to come.
AtLast(r) == left[r] = {}

\* A step of r in which something goes wrong.
Fails(r) ==
    \/ pc[r] # "dead" /\ pc'[r] = "dead"
    \/ late' # late /\ pc'[r] # pc[r]

\* A step of r in which the backend does not do as it should.
Errs(r) ==
    \/ pc[r] = "add" /\ seeds'[r] # seeds[r] /\ stored'[r] = stored[r]
    \/ pc[r] = "add" /\ pc'[r] = "inactive" /\ retrieved'[r] # active[case[r]]

InScope ==
    /\ scope = "gate" => \A r \in Runs : ~Fails(r)
    /\ scope # "gate" => \A r \in Runs :
          /\ ~AtLast(r) => ~Fails(r) /\ ~Errs(r)
          /\ verdict'[r] # NoVerdict => verdict'[r].fast
    /\ \A r \in Runs : pc[r] = "start" /\ pc'[r] # "start" =>
          \A q \in Runs \ {r} : pc[q] = "start" \/ AtLast(q)

MCNext == Next /\ InScope /\ UNCHANGED scope

MCSpec == MCInit /\ [][MCNext]_<<vars, scope>>

\* Runs are told apart by what they do only; used for invariants.
AnyRun == Permutations(Runs)
=============================================================================
