--------------------------- MODULE MCMemoryStore ----------------------------
(***************************************************************************)
(* Instances of MemoryStore for TLC.  One run explores three scopes, each  *)
(* as deep as its question needs: "serial", one request at a time and no   *)
(* faults; "concurrent", requests that interleave and no faults; "faults". *)
(* A scope bounds what clients begin and whether anything fails; it never  *)
(* stops a request that has begun.                                         *)
(***************************************************************************)
EXTENDS MemoryStore

CONSTANTS Scopes,
          SerialRows, ConcurrentRows, FaultsRows,  \* rows ever inserted
          SerialRequest,                           \* the one slot in use
          SharedObjects                            \* objects where slots overlap

ASSUME ScopeAssumption == SerialRequest \in Requests

VARIABLE scope

RowsOf == [serial |-> SerialRows, concurrent |-> ConcurrentRows,
           faults |-> FaultsRows]

MCInit == Init /\ scope \in Scopes

InScope ==
    /\ issued' + Cardinality(Waiting') <= RowsOf[scope]
    /\ scope = "serial" => \A r \in Requests \ {SerialRequest} : pc'[r] = "idle"
    /\ scope # "serial" => \A r \in Requests :
            want'[r] # NoFact => want'[r].object \in SharedObjects
    /\ noops' > 0 => scope = "serial"
    /\ faulty' => scope = "faults"

MCNext == Next /\ InScope /\ UNCHANGED scope

MCSpec == MCInit /\ [][MCNext]_<<vars, scope>>

MCFairSpec == MCSpec /\ \A r \in Requests : WF_vars(Step(r))

-----------------------------------------------------------------------------
\* Requests one at a time: between requests the graph mirrors the table.
SerialGraphMirrorsTable == scope = "serial" => GraphMirrorsTable

\* Requests one at a time: a contradiction stays active only where the fact
\* had been restated.
SerialConflictNeedsRestatement == scope = "serial" => ConflictNeedsRestatement

\* Requests one at a time: each UPDATE replaces exactly one row.
SerialUpdateReplacesOne == scope = "serial" => UpdateReplacesOne
=============================================================================
