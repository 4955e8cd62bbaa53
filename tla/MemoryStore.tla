---------------------------- MODULE MemoryStore -----------------------------
(***************************************************************************)
(* The mock memory backend (app/memory/mock_backend.py): add and delete as *)
(* requests that interleave at every await, over two stores that share no  *)
(* transaction.  Postgres holds the rows and the audit trail; Neo4j holds  *)
(* one temporal RELATES_TO edge per stored fact and is the only place      *)
(* where an add looks for the fact it contradicts.                         *)
(*                                                                         *)
(* A request is a slot of Requests: its program counter names the next     *)
(* await.  Graph writes go through Neo4jClient._with_retry: two attempts,  *)
(* and an attempt that timed out may still be carried out by the server,   *)
(* then or at any later time (`late`), or never.  With AllowFaults, an     *)
(* attempt can fail and a request can die at any await: its session rolls  *)
(* back and the client gets a 500 or nothing.                              *)
(*                                                                         *)
(* A definition marked "mutant" is no part of the model: it is a plausible *)
(* bug in the definition that follows it, kept to see that the properties  *)
(* notice.                                                                 *)
(***************************************************************************)
EXTENDS Naturals, FiniteSets

CONSTANTS Requests,     \* request slots: how many calls are in flight at once
          Subjects,     \* (user_id, entity, predicate) triples
          Objects,      \* the objects a fact can state of its subject
          NoFact,       \* the content of an id no row has been committed for
          MaxRows,      \* bound on the rows ever inserted
          MaxNoops,     \* bound on the NOOP events ever written
          MaxLate,      \* bound on the abandoned writes of one kind and row
          AllowFaults   \* whether attempts fail and requests die

ASSUME AllowFaultsAssumption == AllowFaults \in BOOLEAN
ASSUME BoundsAssumption ==
    /\ MaxRows \in Nat
    /\ MaxNoops \in Nat
    /\ MaxLate \in Nat

\* range(2) in Neo4jClient._with_retry
MaxAttempts == 2

Ids == 1 .. MaxRows
NoId == 0
Facts == [subject : Subjects, object : Objects]
EventCounts == [ADD : Nat, UPDATE : Nat, DELETE : Nat]
NoEvents == [ADD |-> 0, UPDATE |-> 0, DELETE |-> 0]
Writes == {"open", "close"}

VARIABLES
    rows, isActive, supersededBy, factOf, events, noops,   \* Postgres
    openEdges,  \* number of edges of a row with valid_to IS NULL   (Neo4j)
    late,       \* abandoned graph writes the server may still carry out
    pc,         \* the await a request is at
    want,       \* the fact an add was asked to store
    mine,       \* the id of the row an add has flushed
    victim,     \* old_fact["memory_id"], or the row being deleted
    attempt,    \* failed attempts of the graph write in progress
    issued,     \* ids given out by flush, rolled back or not
    faulty      \* history: some attempt has failed or some request has died

ledgerVars == <<rows, isActive, supersededBy, factOf, events, noops>>
graphVars == <<openEdges, late>>
requestVars == <<pc, want, mine, victim, attempt>>
vars == <<ledgerVars, graphVars, requestVars, issued, faulty>>

TypeOK ==
    /\ rows \subseteq Ids
    /\ isActive \subseteq rows
    /\ supersededBy \in [Ids -> Ids \cup {NoId}]
    /\ factOf \in [Ids -> Facts \cup {NoFact}]
    /\ events \in [Ids -> EventCounts]
    /\ noops \in 0 .. MaxNoops
    /\ openEdges \in [Ids -> Nat]
    /\ late \in [Writes -> [Ids -> 0 .. MaxLate]]
    /\ pc \in [Requests -> {"idle", "find", "flush", "close", "commit",
                            "upsert", "delete", "delclose"}]
    /\ want \in [Requests -> Facts \cup {NoFact}]
    /\ mine \in [Requests -> Ids \cup {NoId}]
    /\ victim \in [Requests -> Ids \cup {NoId}]
    /\ attempt \in [Requests -> 0 .. MaxAttempts - 1]
    /\ issued \in 0 .. MaxRows
    /\ faulty \in BOOLEAN

Init ==
    /\ rows = {}
    /\ isActive = {}
    /\ supersededBy = [m \in Ids |-> NoId]
    /\ factOf = [m \in Ids |-> NoFact]
    /\ events = [m \in Ids |-> NoEvents]
    /\ noops = 0
    /\ openEdges = [m \in Ids |-> 0]
    /\ late = [w \in Writes |-> [m \in Ids |-> 0]]
    /\ pc = [r \in Requests |-> "idle"]
    /\ want = [r \in Requests |-> NoFact]
    /\ mine = [r \in Requests |-> NoId]
    /\ victim = [r \in Requests |-> NoId]
    /\ attempt = [r \in Requests |-> 0]
    /\ issued = 0
    /\ faulty = FALSE

-----------------------------------------------------------------------------
(* Requests: what every handler does with its slot.                        *)

\* The slot moves on to its next await.
Goto(r, l) == pc' = [pc EXCEPT ![r] = l]

\* The request has answered, or died: its locals are gone with it.
Return(r) ==
    /\ pc' = [pc EXCEPT ![r] = "idle"]
    /\ want' = [want EXCEPT ![r] = NoFact]
    /\ mine' = [mine EXCEPT ![r] = NoId]
    /\ victim' = [victim EXCEPT ![r] = NoId]
    /\ attempt' = [attempt EXCEPT ![r] = 0]

\* The request dies: the process is killed, Postgres or a graph read fails,
\* the client disconnects.  AsyncSession rolls back what is not committed.
Die(r) ==
    /\ AllowFaults
    /\ pc[r] # "idle"
    /\ Return(r)
    /\ faulty' = TRUE
    /\ UNCHANGED <<ledgerVars, graphVars, issued>>

-----------------------------------------------------------------------------
(* The graph: what a write does to the open edges, and Neo4jClient's retry. *)

\* mutant: the write is dropped.
OpenedNowhere(m) == openEdges

Opened(m) == [openEdges EXCEPT ![m] = @ + 1]

\* mutant: the subject's edges are closed, not the memory's.
ClosedSubject(m) ==
    [n \in Ids |-> IF n \in rows /\ factOf[n].subject = factOf[m].subject
                  THEN 0 ELSE openEdges[n]]

Closed(m) == [openEdges EXCEPT ![m] = 0]
Applied(w, m) == IF w = "open" THEN Opened(m) ELSE Closed(m)

\* mutant: one attempt too many.
ExhaustedLate(r) == attempt[r] >= MaxAttempts

\* for _ in range(2): whether the attempt that has just failed was the last.
Exhausted(r) == attempt[r] + 1 >= MaxAttempts

\* An attempt is answered: the write is carried out and the handler goes on.
Acknowledged(w, m) ==
    /\ openEdges' = Applied(w, m)
    /\ UNCHANGED <<late, faulty>>

\* An attempt fails: refused outright, or given up after timeout_seconds with
\* the write in the server's hands.
Lose(w, m) ==
    /\ AllowFaults
    /\ faulty' = TRUE
    /\ \/ UNCHANGED late
       \/ /\ late[w][m] < MaxLate
          /\ late' = [late EXCEPT ![w][m] = @ + 1]
    /\ UNCHANGED openEdges

\* mutant: the retry loop starts over instead of ending.
AttemptFailsForever(r, w, m) ==
    /\ AllowFaults
    /\ faulty' = TRUE
    /\ attempt' = [attempt EXCEPT ![r] = (@ + 1) % MaxAttempts]
    /\ UNCHANGED <<ledgerVars, graphVars, pc, want, mine, victim, issued>>

\* A failed attempt is repeated once; the second failure is raised, and the
\* request dies with it.
AttemptFails(r, w, m) ==
    /\ Lose(w, m)
    /\ \/ /\ ~Exhausted(r)
          /\ attempt' = [attempt EXCEPT ![r] = @ + 1]
          /\ UNCHANGED <<pc, want, mine, victim>>
       \/ /\ Exhausted(r)
          /\ Return(r)
    /\ UNCHANGED <<ledgerVars, issued>>

\* The server carries out a write its client has given up on.
Land(w, m) ==
    /\ late[w][m] > 0
    /\ late' = [late EXCEPT ![w][m] = @ - 1]
    /\ openEdges' = Applied(w, m)
    /\ UNCHANGED <<ledgerVars, requestVars, issued, faulty>>

-----------------------------------------------------------------------------
(* MockMemoryBackend.add                                                   *)

\* Sarcasm, or no fact in the text: one NOOP event, committed.
AddNoop(r) ==
    /\ pc[r] = "idle"
    /\ noops < MaxNoops
    /\ noops' = noops + 1
    /\ UNCHANGED <<rows, isActive, supersededBy, factOf, events, graphVars,
                   requestVars, issued, faulty>>

\* Adds that have not flushed yet; each will need an id.
Waiting == {r \in Requests : pc[r] \in {"find", "flush"}}

AddStart(r, f) ==
    /\ pc[r] = "idle"
    /\ issued + Cardinality(Waiting) < MaxRows
    /\ Goto(r, "find")
    /\ want' = [want EXCEPT ![r] = f]
    /\ UNCHANGED <<ledgerVars, graphVars, mine, victim, attempt, issued, faulty>>

\* The rows whose edge is open and states something of subject s.
OpenAbout(s) == {m \in Ids : openEdges[m] > 0 /\ factOf[m].subject = s}

\* mutant: ORDER BY rel.valid_from ASC.
Earliest(m, S) == \A n \in S : m <= n

\* ORDER BY rel.valid_from DESC LIMIT 1, where valid_from is created_at.
Latest(m, S) == \A n \in S : n <= m

\* _find_active_fact: one graph read, and the answer is kept over the awaits
\* that follow.
FindActiveFact(r) ==
    /\ pc[r] = "find"
    /\ LET found == OpenAbout(want[r].subject) IN
       \/ /\ found = {}
          /\ victim' = [victim EXCEPT ![r] = NoId]
       \/ \E m \in found :
            /\ Latest(m, found)
            /\ victim' = [victim EXCEPT ![r] = m]
    /\ Goto(r, "flush")
    /\ UNCHANGED <<ledgerVars, graphVars, want, mine, attempt, issued, faulty>>

\* mutant: old_fact["object"] != fact["object"] is dropped.
FoundAny(r) == victim[r] # NoId

\* What was found contradicts the new fact: the add is an UPDATE.
Contradicts(r) ==
    /\ victim[r] # NoId
    /\ factOf[victim[r]].object # want[r].object

\* session.flush() inserts the new row, in a transaction of its own until the
\* commit, and the old fact is compared.
Flush(r) ==
    /\ pc[r] = "flush"
    /\ issued < MaxRows
    /\ issued' = issued + 1
    /\ mine' = [mine EXCEPT ![r] = issued + 1]
    /\ Goto(r, IF Contradicts(r) THEN "close" ELSE "commit")
    /\ UNCHANGED <<ledgerVars, graphVars, want, victim, attempt, faulty>>

\* mutant: the old edge is closed and the new one created in one graph write,
\* before the commit.
CloseAndOpen(r) ==
    /\ pc[r] = "close"
    /\ openEdges' = [Closed(victim[r]) EXCEPT ![mine[r]] = @ + 1]
    /\ Goto(r, "commit")
    /\ UNCHANGED <<ledgerVars, late, want, mine, victim, attempt, issued, faulty>>

\* _close_graph_fact(old_fact), before the commit.
CloseOld(r) ==
    /\ pc[r] = "close"
    /\ Acknowledged("close", victim[r])
    /\ Goto(r, "commit")
    /\ attempt' = [attempt EXCEPT ![r] = 0]
    /\ UNCHANGED <<ledgerVars, want, mine, victim, issued>>

CloseOldFails(r) ==
    /\ pc[r] = "close"
    /\ AttemptFails(r, "close", victim[r])

\* mutant: superseded_by is not set.
Unlinked(r) == supersededBy

\* old_memory.superseded_by = memory.id
Linked(r) == [supersededBy EXCEPT ![victim[r]] = mine[r]]

\* session.commit(): the new row, its event and the old row's deactivation.
Commit(r) ==
    /\ pc[r] = "commit"
    /\ rows' = rows \cup {mine[r]}
    /\ factOf' = [factOf EXCEPT ![mine[r]] = want[r]]
    /\ \/ /\ Contradicts(r)
          /\ isActive' = (isActive \cup {mine[r]}) \ {victim[r]}
          /\ supersededBy' = Linked(r)
          /\ events' = [events EXCEPT ![mine[r]].UPDATE = @ + 1]
       \/ /\ ~Contradicts(r)
          /\ isActive' = isActive \cup {mine[r]}
          /\ events' = [events EXCEPT ![mine[r]].ADD = @ + 1]
          /\ UNCHANGED supersededBy
    /\ Goto(r, "upsert")
    /\ UNCHANGED <<noops, graphVars, want, mine, victim, attempt, issued, faulty>>

\* _upsert_graph_fact, after the commit: CREATE adds an edge whether or not
\* the row has one already.
Upsert(r) ==
    /\ pc[r] = "upsert"
    /\ Acknowledged("open", mine[r])
    /\ Return(r)
    /\ UNCHANGED <<ledgerVars, issued>>

UpsertFails(r) ==
    /\ pc[r] = "upsert"
    /\ AttemptFails(r, "open", mine[r])

-----------------------------------------------------------------------------
(* MockMemoryBackend.delete                                                *)

\* mutant: the early return is dropped.
DeletableId(m) == TRUE

\* `memory is None or not memory.is_active` is the early return.
Deletable(m) == m \in isActive

\* session.get finds the row active.
DeleteStart(r, m) ==
    /\ pc[r] = "idle"
    /\ Deletable(m)
    /\ victim' = [victim EXCEPT ![r] = m]
    /\ Goto(r, "delete")
    /\ UNCHANGED <<ledgerVars, graphVars, want, mine, attempt, issued, faulty>>

\* The row is missing or already inactive: nothing changes, the route
\* answers 404.
DeleteMissing(r, m) ==
    /\ pc[r] = "idle"
    /\ ~Deletable(m)
    /\ UNCHANGED vars

\* session.commit(): the row as it was read is deactivated.
CommitDelete(r) ==
    /\ pc[r] = "delete"
    /\ isActive' = isActive \ {victim[r]}
    /\ events' = [events EXCEPT ![victim[r]].DELETE = @ + 1]
    /\ Goto(r, "delclose")
    /\ UNCHANGED <<rows, supersededBy, factOf, noops, graphVars, want, mine,
                   victim, attempt, issued, faulty>>

\* mutant: delete leaves the graph alone.
LeaveDeletedOpen(r) ==
    /\ pc[r] = "delclose"
    /\ Return(r)
    /\ UNCHANGED <<ledgerVars, graphVars, issued, faulty>>

\* _close_graph_fact(memory.id), after the commit.
CloseDeleted(r) ==
    /\ pc[r] = "delclose"
    /\ Acknowledged("close", victim[r])
    /\ Return(r)
    /\ UNCHANGED <<ledgerVars, issued>>

CloseDeletedFails(r) ==
    /\ pc[r] = "delclose"
    /\ AttemptFails(r, "close", victim[r])

-----------------------------------------------------------------------------
\* Everything a request does by itself once it has started.
Step(r) ==
    \/ FindActiveFact(r)
    \/ Flush(r)
    \/ CloseOld(r)
    \/ CloseOldFails(r)
    \/ Commit(r)
    \/ Upsert(r)
    \/ UpsertFails(r)
    \/ CommitDelete(r)
    \/ CloseDeleted(r)
    \/ CloseDeletedFails(r)

\* A client's call.
Call(r) ==
    \/ AddNoop(r)
    \/ \E f \in Facts : AddStart(r, f)
    \/ \E m \in Ids : DeleteStart(r, m)
    \/ \E m \in Ids : DeleteMissing(r, m)

Next ==
    \/ \E r \in Requests : Call(r)
    \/ \E r \in Requests : Step(r)
    \/ \E r \in Requests : Die(r)
    \/ \E w \in Writes, m \in Ids : Land(w, m)

Spec == Init /\ [][Next]_vars

\* Every await returns: Postgres answers or raises, a graph attempt is cut
\* off by wait_for, and the event loop runs whatever is ready.  Clients need
\* never call, and an abandoned write need never land.
FairSpec == Spec /\ \A r \in Requests : WF_vars(Step(r))

-----------------------------------------------------------------------------
(* Properties under concurrency and faults.                                *)

\* The audit trail and the table always tell the same story, whatever dies
\* between the two stores and however requests interleave: a row exists
\* exactly if one event created it, and it is inactive exactly if a DELETE
\* event or a later row's supersession accounts for it.
AuditExplainsState ==
    \A m \in Ids :
        /\ events[m].ADD + events[m].UPDATE = IF m \in rows THEN 1 ELSE 0
        /\ events[m].DELETE > 0 \/ supersededBy[m] # NoId => m \in rows
        /\ m \in isActive <=> /\ m \in rows
                              /\ events[m].DELETE = 0
                              /\ supersededBy[m] = NoId

\* The supersede chain never cycles and never dangles: a superseded row is
\* inactive and names a committed later row that says something else about
\* the same subject, although the row to supersede was chosen from another
\* store several awaits before the commit.
SupersededByNewer ==
    \A m \in Ids : supersededBy[m] # NoId =>
        LET n == supersededBy[m] IN
        /\ m \in rows \ isActive
        /\ n \in rows
        /\ m < n
        /\ factOf[m].subject = factOf[n].subject
        /\ factOf[m].object # factOf[n].object

\* The graph never states a fact Postgres has not committed, not even by a
\* write its client has given up on: an add that found an edge can rely on
\* the row behind it.
OpenEdgesCommitted ==
    \A m \in Ids : openEdges[m] > 0 \/ late["open"][m] > 0 => m \in rows

\* CREATE is not idempotent and is retried: one row never gets more edges
\* than the attempts of its one upsert.
EdgesPerRow ==
    \A m \in Ids : openEdges[m] + late["open"][m] <= MaxAttempts

\* Every request comes back to its client, failed attempts included: the
\* retry loop ends.
RequestsFinish == \A r \in Requests : pc[r] # "idle" ~> pc[r] = "idle"

\* The detailed backend implements the ledger.
Ledger ==
    INSTANCE MemoryLedger
    WITH rows <- rows, isActive <- isActive, supersededBy <- supersededBy,
         factOf <- factOf, events <- events, noops <- noops
LedgerSpec == Ledger!Spec

-----------------------------------------------------------------------------
(* Properties under concurrency, while nothing has failed.                 *)

\* An active row is one a later contradiction can find: it has an open edge,
\* or its own add is about to create it, or the update that closed its edge
\* is about to commit.  Closing before the commit opens no other window.
ActiveRowLinked ==
    ~faulty => \A m \in isActive :
        \/ openEdges[m] > 0
        \/ \E r \in Requests : pc[r] = "upsert" /\ mine[r] = m
        \/ \E r \in Requests : /\ pc[r] = "commit"
                              /\ Contradicts(r)
                              /\ victim[r] = m

\* While nothing fails, a stored fact reaches the graph, or is no longer
\* active by then.
EventuallyLinked ==
    \A m \in Ids :
        m \in isActive ~> openEdges[m] > 0 \/ m \notin isActive \/ faulty

-----------------------------------------------------------------------------
(* Properties of one request at a time, while nothing has failed.          *)

Quiet == ~faulty /\ \A r \in Requests : pc[r] = "idle"

\* "active facts have valid_to IS NULL" (PROJECT.md): between requests, a
\* row has an open edge, and one only, exactly while it is active.
GraphMirrorsTable ==
    Quiet => \A m \in Ids : openEdges[m] = IF m \in isActive THEN 1 ELSE 0

\* Two active rows about one subject.
Rivals(m, n) ==
    /\ {m, n} \subseteq isActive
    /\ m < n
    /\ factOf[m].subject = factOf[n].subject
    /\ factOf[m].object # factOf[n].object

\* "the stale version is excluded from active search" (PROJECT.md, ADR 3):
\* no two active rows contradict each other.
NoContradiction == ~faulty => \A m, n \in Ids : ~Rivals(m, n)

\* What LIMIT 1 leaves of NoContradiction: a stale fact survives its
\* contradiction only where it had been restated in between, since a restated
\* fact has several active rows and an update supersedes the latest of them.
ConflictNeedsRestatement ==
    ~faulty => \A m, n \in Ids : Rivals(m, n) =>
        \E k \in rows : m < k /\ k < n /\ factOf[k] = factOf[m]

\* An UPDATE event's row is the one its predecessor names: each update keeps
\* its link to the single row it replaced, and only updates replace rows.
UpdateReplacesOne ==
    ~faulty => \A n \in rows :
        Cardinality({m \in Ids : supersededBy[m] = n}) = events[n].UPDATE
=============================================================================
