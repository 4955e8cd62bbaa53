---------------------------- MODULE MemoryLedger ----------------------------
(***************************************************************************)
(* What MemGauge promises about one Postgres: the memories table and the   *)
(* memory_events audit trail (app/db/models.py).  Every change of the      *)
(* table is one atomic transaction that also appends one audit event;      *)
(* nothing is hard-deleted, nothing is reactivated, and a row is           *)
(* superseded only by a later row about the same subject that says         *)
(* something else.  MemoryStore, the backend with its two stores, its      *)
(* awaits and its faults, implements this ledger.                          *)
(*                                                                         *)
(* A row id is its place in the order of created_at.  A subject is the     *)
(* (user_id, entity, predicate) a fact is about.                           *)
(***************************************************************************)
EXTENDS Naturals

CONSTANTS Subjects,     \* (user_id, entity, predicate) triples
          Objects,      \* the objects a fact can state of its subject
          NoFact,       \* the content of an id no row has been committed for
          MaxRows,      \* bound on the rows ever created
          MaxNoops      \* bound on the NOOP events ever written

Ids == 1 .. MaxRows
NoId == 0
Facts == [subject : Subjects, object : Objects]
NoEvents == [ADD |-> 0, UPDATE |-> 0, DELETE |-> 0]

VARIABLES rows,          \* the committed rows of memories
          isActive,      \* the rows with is_active = true
          supersededBy,  \* memories.superseded_by, NoId for NULL
          factOf,        \* the fact a row's content states
          events,        \* audit events of each row, counted by type
          noops          \* NOOP events, which have no memory_id

ledgerVars == <<rows, isActive, supersededBy, factOf, events, noops>>

Init ==
    /\ rows = {}
    /\ isActive = {}
    /\ supersededBy = [m \in Ids |-> NoId]
    /\ factOf = [m \in Ids |-> NoFact]
    /\ events = [m \in Ids |-> NoEvents]
    /\ noops = 0

\* An utterance that states no fact leaves a NOOP event and no row.
Noop ==
    /\ noops < MaxNoops
    /\ noops' = noops + 1
    /\ UNCHANGED <<rows, isActive, supersededBy, factOf, events>>

\* A fact that contradicts nothing the backend found becomes a row.
Add(m, f) ==
    /\ m \notin rows
    /\ rows' = rows \cup {m}
    /\ isActive' = isActive \cup {m}
    /\ factOf' = [factOf EXCEPT ![m] = f]
    /\ events' = [events EXCEPT ![m].ADD = @ + 1]
    /\ UNCHANGED <<supersededBy, noops>>

\* A fact that contradicts `old` becomes a row and supersedes it.
Update(m, f, old) ==
    /\ m \notin rows
    /\ old \in rows
    /\ old < m
    /\ factOf[old].subject = f.subject
    /\ factOf[old].object # f.object
    /\ rows' = rows \cup {m}
    /\ isActive' = (isActive \cup {m}) \ {old}
    /\ supersededBy' = [supersededBy EXCEPT ![old] = m]
    /\ factOf' = [factOf EXCEPT ![m] = f]
    /\ events' = [events EXCEPT ![m].UPDATE = @ + 1]
    /\ UNCHANGED noops

\* A soft delete.  The row may have been deactivated after the request read
\* it: each request that saw it active writes its own DELETE event.
Delete(m) ==
    /\ m \in rows
    /\ isActive' = isActive \ {m}
    /\ events' = [events EXCEPT ![m].DELETE = @ + 1]
    /\ UNCHANGED <<rows, supersededBy, factOf, noops>>

Next ==
    \/ Noop
    \/ \E m \in Ids, f \in Facts : Add(m, f)
    \/ \E m, old \in Ids, f \in Facts : Update(m, f, old)
    \/ \E m \in Ids : Delete(m)

Spec == Init /\ [][Next]_ledgerVars
=============================================================================
