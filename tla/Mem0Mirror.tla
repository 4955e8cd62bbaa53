----------------------------- MODULE Mem0Mirror -----------------------------
(***************************************************************************)
(* The Mem0 backend (app/memory/mem0_backend.py).  Mem0 has a store of its *)
(* own and decides what an add does to it; the adapter replays the answer, *)
(* item by item, in Postgres and in Neo4j: one transaction for the whole   *)
(* answer, with the graph writes made before it commits.                   *)
(*                                                                         *)
(* A request is a slot of Requests.  Its transaction is the set of changes *)
(* it has flushed (`tx`); a changed row is locked until the request ends.  *)
(* A graph write is one step here, its retry and its late landing are in   *)
(* MemoryStore: a fault may have it carried out twice, or carried out and  *)
(* reported as failed.  A fault may also end a request at any await.       *)
(* search and list change nothing; Shown is what a search answers.         *)
(*                                                                         *)
(* A definition marked "mutant" is no part of the model.                   *)
(***************************************************************************)
EXTENDS Naturals, Sequences, FiniteSets

CONSTANTS Requests,     \* request slots
          Facts,        \* texts extract_fact finds a fact in
          Plain,        \* texts it finds none in
          NoContent,    \* no text
          MaxIds,       \* bound on the memories Mem0 ever creates
          MaxItems,     \* bound on the items of one answer of client.add
          MaxCalls,     \* bound on the calls that change anything
          MaxFaults     \* bound on the faults injected

ASSUME BoundsAssumption ==
    /\ MaxIds \in Nat
    /\ MaxItems \in Nat
    /\ MaxCalls \in Nat
    /\ MaxFaults \in Nat
ASSUME TextsAssumption ==
    /\ Facts \cap Plain = {}
    /\ NoContent \notin Facts \cup Plain

Ids == 1 .. MaxIds
Contents == Facts \cup Plain
Events == {"ADD", "UPDATE", "DELETE"}

\* An item of Mem0's answer, as _normalize_results returns it.
Items == [id : Ids, event : Events, memory : Contents \cup {NoContent}]

\* What Postgres, or session.get, has of an id.
NoRow == [content |-> NoContent, active |-> FALSE]
Rows == {NoRow} \cup [content : Contents, active : BOOLEAN]

\* A flushed change: the statement on the row, if any, whether it writes
\* content, whether it changes is_active, and whether the event of the change
\* names no memory.
Changes == [item : Items, how : {"insert", "update", "none"},
            worded : BOOLEAN, turned : BOOLEAN, loose : BOOLEAN]

VARIABLES
    remote,     \* Mem0: the text of each memory, NoContent if it has none
    issued,     \* Mem0: ids given out
    rows,       \* Postgres: memories
    lastEvent,  \* Postgres: the latest committed event of a memory
    lastSaid,   \* Postgres: new_content of its latest ADD or UPDATE event
    deleted,    \* Postgres: the memories with a DELETE event
    loose,      \* Postgres: events that name no memory
    reworded,   \* history: memories given another text after a request that
                \* is to give them the text they had has read them
    openEdges,  \* Neo4j: open edges of a memory, by the fact they state
    pc,         \* the await a request is at
    items,      \* the answer it has still to mirror, or the row to delete
    seen,       \* what session.get returned for the item in hand
    tx,         \* changes flushed and not committed
    primary,    \* primary_memory is not None
    calls,      \* calls made
    faults,     \* history: faults injected
    troubled,   \* history: a request has been rolled back
    overlapped  \* history: two requests have been in flight at once

mem0Vars == <<remote, issued>>
pgVars == <<rows, lastEvent, lastSaid, deleted, loose, reworded>>
requestVars == <<pc, items, seen, tx, primary>>
historyVars == <<calls, faults, troubled, overlapped>>
vars == <<mem0Vars, pgVars, openEdges, requestVars, historyVars>>

TypeOK ==
    /\ remote \in [Ids -> Contents \cup {NoContent}]
    /\ issued \in 0 .. MaxIds
    /\ rows \in [Ids -> Rows]
    /\ lastEvent \in [Ids -> Events \cup {"none"}]
    /\ lastSaid \in [Ids -> Contents \cup {NoContent}]
    /\ deleted \subseteq Ids
    /\ loose \in 0 .. MaxCalls + MaxIds
    /\ reworded \subseteq Ids
    /\ openEdges \in [Ids -> [Facts -> Nat]]
    /\ pc \in [Requests -> {"idle", "get", "flush", "close", "upsert", "next",
                            "commit", "remote", "delete", "delclose"}]
    /\ \A r \in Requests : /\ items[r] \in Seq(Items)
                          /\ Len(items[r]) <= MaxItems
                          /\ tx[r] \subseteq Changes
    /\ seen \in [Requests -> Rows]
    /\ primary \in [Requests -> BOOLEAN]
    /\ calls \in 0 .. MaxCalls
    /\ faults \in 0 .. MaxFaults
    /\ {troubled, overlapped} \subseteq BOOLEAN

Init ==
    /\ remote = [m \in Ids |-> NoContent]
    /\ issued = 0
    /\ rows = [m \in Ids |-> NoRow]
    /\ lastEvent = [m \in Ids |-> "none"]
    /\ lastSaid = [m \in Ids |-> NoContent]
    /\ deleted = {}
    /\ loose = 0
    /\ reworded = {}
    /\ openEdges = [m \in Ids |-> [f \in Facts |-> 0]]
    /\ pc = [r \in Requests |-> "idle"]
    /\ items = [r \in Requests |-> <<>>]
    /\ seen = [r \in Requests |-> NoRow]
    /\ tx = [r \in Requests |-> {}]
    /\ primary = [r \in Requests |-> FALSE]
    /\ calls = 0
    /\ faults = 0
    /\ troubled = FALSE
    /\ overlapped = FALSE

-----------------------------------------------------------------------------
(* Requests and their transactions.                                        *)

Goto(r, l) == pc' = [pc EXCEPT ![r] = l]

\* One more call.
Called == calls < MaxCalls /\ calls' = calls + 1

\* A client's call takes a slot.
Begin(r, l) ==
    /\ pc[r] = "idle"
    /\ Called
    /\ Goto(r, l)
    /\ overlapped' = (overlapped \/ \E q \in Requests : pc[q] # "idle")
    /\ UNCHANGED <<faults, troubled>>

\* mutant: the session is not closed, and its transaction stays open.
ReturnInTransaction(r) ==
    /\ Goto(r, "idle")
    /\ items' = [items EXCEPT ![r] = <<>>]
    /\ seen' = [seen EXCEPT ![r] = NoRow]
    /\ primary' = [primary EXCEPT ![r] = FALSE]
    /\ UNCHANGED tx

\* The request has answered or raised; the session is closed, and with it
\* goes what it has not committed.
Return(r) ==
    /\ Goto(r, "idle")
    /\ items' = [items EXCEPT ![r] = <<>>]
    /\ seen' = [seen EXCEPT ![r] = NoRow]
    /\ primary' = [primary EXCEPT ![r] = FALSE]
    /\ tx' = [tx EXCEPT ![r] = {}]

\* An exception reaches the route: the transaction is rolled back.
Raise(r) ==
    /\ Return(r)
    /\ troubled' = TRUE
    /\ UNCHANGED <<mem0Vars, pgVars, calls, overlapped>>

\* One more fault.
Fault == faults < MaxFaults /\ faults' = faults + 1

\* The process dies, the client disconnects, or a store fails.
Die(r) ==
    /\ pc[r] # "idle"
    /\ Fault
    /\ Raise(r)
    /\ UNCHANGED openEdges

\* The item in hand.
Item(r) == Head(items[r])

\* r has inserted or updated the row of m and not ended.
Holds(r, m) == \E t \in tx[r] : t.item.id = m /\ t.how # "none"

\* The statement that mirrors item i, given what session.get returned.
How(i, s) ==
    IF i.event = "DELETE"
    THEN IF s.active THEN "update" ELSE "none"
    ELSE IF s = NoRow THEN "insert" ELSE "update"

\* r's next statement writes a row.
Writes(r) ==
    \/ pc[r] = "flush" /\ How(Item(r), seen[r]) # "none"
    \/ pc[r] = "delete"

\* Whom r's next statement has to wait for.
Blockers(r) == {q \in Requests \ {r} : Writes(r) /\ Holds(q, Item(r).id)}

\* Postgres breaks a circle of waiting transactions by aborting one of them.
AbortDeadlocked(r) ==
    /\ \E C \in SUBSET Requests :
          r \in C /\ \A q \in C : Blockers(q) \cap C # {}
    /\ Raise(r)
    /\ UNCHANGED <<openEdges, faults>>

-----------------------------------------------------------------------------
(* Mem0, as far as the adapter can tell.                                   *)

\* What Mem0 may do to its own store: create a memory, rewrite or drop one.
Decisions ==
    {i \in Items :
        \/ i.event = "ADD" /\ i.id > issued /\ i.memory \in Contents
        \/ /\ i.event = "UPDATE" /\ remote[i.id] # NoContent
           /\ i.memory \in Contents \ {remote[i.id]}
        \/ i.event = "DELETE" /\ remote[i.id] # NoContent /\ i.memory = NoContent}

Created(answer) ==
    {answer[k].id : k \in {l \in DOMAIN answer : answer[l].event = "ADD"}}

\* Answers of client.add that change something, of n items: they are about
\* different memories, and new memories get the next ids, in order.
Answers(n) ==
    {answer \in [1 .. n -> Decisions] :
        /\ \A k, l \in 1 .. n : k < l =>
              /\ answer[k].id # answer[l].id
              /\ {answer[k].event, answer[l].event} = {"ADD"}
                    => answer[k].id < answer[l].id
        /\ Created(answer) =
              issued + 1 .. issued + Cardinality(Created(answer))}

-----------------------------------------------------------------------------
(* Mem0MemoryBackend.add                                                   *)

\* Sarcasm, or an answer with nothing to mirror: one NOOP event, committed.
AddNoop(r) ==
    /\ pc[r] = "idle"
    /\ Called
    /\ loose' = loose + 1
    /\ UNCHANGED <<mem0Vars, rows, lastEvent, lastSaid, deleted, reworded,
                   openEdges, requestVars, faults, troubled, overlapped>>

\* client.add: Mem0 has changed its store by the time it answers.
AddStart(r) ==
    /\ Begin(r, "get")
    /\ \E n \in 1 .. MaxItems : \E answer \in Answers(n) :
          /\ items' = [items EXCEPT ![r] = answer]
          /\ remote' = [m \in Ids |->
                IF \E k \in 1 .. n : answer[k].id = m
                THEN answer[CHOOSE k \in 1 .. n : answer[k].id = m].memory
                ELSE remote[m]]
          /\ issued' = issued + Cardinality(Created(answer))
    /\ UNCHANGED <<pgVars, openEdges, seen, tx, primary>>

\* session.get(Memory, memory_id) reads what is committed.
GetRow(r) ==
    /\ pc[r] = "get"
    /\ seen' = [seen EXCEPT ![r] = rows[Item(r).id]]
    /\ Goto(r, "flush")
    /\ UNCHANGED <<mem0Vars, pgVars, openEdges, items, tx, primary, historyVars>>

\* The event of a DELETE whose memory has no row names none.
Loose(i, s) == i.event = "DELETE" /\ s = NoRow

\* mutant: an inactive row is made active again with the text it had.
WordedIfActive(i, s) ==
    /\ i.event # "DELETE"
    /\ i.memory # s.content
    /\ s = NoRow \/ s.active

\* mutant: a new row's content is left to a later update.
WordedLater(i, s) == i.event # "DELETE" /\ s # NoRow /\ i.memory # s.content

\* content and is_active are written only where they differ from what was
\* read: the ORM leaves an unchanged column out of its UPDATE.  (The statement
\* is there in any case: the embedding is always written.)
Worded(i, s) == i.event # "DELETE" /\ i.memory # s.content

\* mutant: a mirrored DELETE does not set is_active.
TurnedOnOnly(i, s) == i.event # "DELETE" /\ ~s.active

Turned(i, s) == s.active # (i.event # "DELETE") /\ ~Loose(i, s)

\* mutant: an UPDATE does not close the edge it replaces.
ClosesDeletedOnly(i) == i.event = "DELETE"

Closes(i) == i.event # "ADD"

\* session.flush(): the statement on the row, and the event.  The statement
\* waits for whoever has changed the row, and an INSERT fails if the row is
\* there by then.
FlushRow(r) ==
    LET i == Item(r)
        s == seen[r] IN
    /\ pc[r] = "flush"
    /\ Blockers(r) = {}
    /\ ~(How(i, s) = "insert" /\ rows[i.id] # NoRow)
    /\ tx' = [tx EXCEPT ![r] = @ \cup {[item |-> i, how |-> How(i, s),
                                        worded |-> Worded(i, s),
                                        turned |-> Turned(i, s),
                                        loose |-> Loose(i, s)]}]
    /\ Goto(r, IF Closes(i) THEN "close" ELSE "upsert")
    /\ UNCHANGED <<mem0Vars, pgVars, openEdges, items, seen, primary, historyVars>>

\* The INSERT violates the primary key: another request's mirror of a later
\* answer has inserted the row since session.get.
FlushConflict(r) ==
    /\ pc[r] = "flush"
    /\ Blockers(r) = {}
    /\ How(Item(r), seen[r]) = "insert"
    /\ rows[Item(r).id] # NoRow
    /\ Raise(r)
    /\ UNCHANGED <<openEdges, faults>>

Closed(m) == [openEdges EXCEPT ![m] = [f \in Facts |-> 0]]

\* CREATE, n times: once, or again by the retry of an attempt that timed out.
Opened(m, f, n) == [openEdges EXCEPT ![m][f] = @ + n]

\* _graph_close, before the commit.
GraphClose(r) ==
    /\ pc[r] = "close"
    /\ openEdges' = Closed(Item(r).id)
    /\ Goto(r, IF Item(r).event = "DELETE" THEN "next" ELSE "upsert")
    /\ UNCHANGED <<mem0Vars, pgVars, items, seen, tx, primary, historyVars>>

\* _graph_upsert, before the commit; it returns at once if there is no fact.
GraphUpsert(r) ==
    LET i == Item(r) IN
    /\ pc[r] = "upsert"
    /\ Goto(r, "next")
    /\ \/ /\ i.memory \in Plain
          /\ UNCHANGED <<openEdges, faults>>
       \/ /\ i.memory \in Facts
          /\ openEdges' = Opened(i.id, i.memory, 1)
          /\ UNCHANGED faults
       \/ /\ i.memory \in Facts
          /\ openEdges' = Opened(i.id, i.memory, 2)
          /\ Fault
    /\ UNCHANGED <<mem0Vars, pgVars, items, seen, tx, primary, calls,
                   troubled, overlapped>>

\* The graph write is carried out, and the client is told it failed, twice.
GraphFails(r) ==
    LET i == Item(r) IN
    /\ \/ pc[r] \in {"close", "delclose"} /\ openEdges' = Closed(i.id)
       \/ /\ pc[r] = "upsert" /\ i.memory \in Facts
          /\ \E n \in 1 .. 2 : openEdges' = Opened(i.id, i.memory, n)
    /\ Raise(r)
    /\ Fault

\* serialize_memory(memory) of the first memory reads updated_at, which an
\* UPDATE statement has left to be fetched (onupdate): outside an await the
\* session cannot fetch it, and raises.
Unreadable(r) == ~primary[r] /\ How(Item(r), seen[r]) = "update"

AnswerUnreadable(r) ==
    /\ pc[r] = "next"
    /\ Unreadable(r)
    /\ Raise(r)
    /\ UNCHANGED <<openEdges, faults>>

\* mutant: the loop ends with its first item.
RestDropped(r) == <<>>

Rest(r) == Tail(items[r])

\* The loop goes on, or ends with session.commit().
NextItem(r) ==
    /\ pc[r] = "next"
    /\ ~Unreadable(r)
    /\ items' = [items EXCEPT ![r] = Rest(r)]
    /\ primary' = [primary EXCEPT ![r] = @ \/ ~Loose(Item(r), seen[r])]
    /\ Goto(r, IF Rest(r) = <<>> THEN "commit" ELSE "get")
    /\ UNCHANGED <<mem0Vars, pgVars, openEdges, seen, tx, historyVars>>

\* A committed row after change t.
Result(row, t) ==
    [content |-> IF t.worded THEN t.item.memory ELSE row.content,
     active |-> IF t.turned THEN t.item.event # "DELETE" ELSE row.active]

\* mutant: only one change of the answer is committed.
PendingFirst(r) == {t \in tx[r] : \A u \in tx[r] : t.item.id <= u.item.id}

\* What session.commit() commits.
Pending(r) == tx[r]

\* q has read the row of m and is about to give it the text it has.
Repeats(q, m) ==
    /\ pc[q] = "flush"
    /\ Item(q).id = m
    /\ Item(q).event # "DELETE"
    /\ ~Worded(Item(q), seen[q])

\* session.commit(): every change and event of the answer.
Commit(r) ==
    LET named == {t \in Pending(r) : ~t.loose}
        Of(m) == {t \in named : t.item.id = m}
        The(m) == CHOOSE t \in Of(m) : TRUE
    IN
    /\ pc[r] = "commit"
    /\ rows' = [m \in Ids |-> IF Of(m) = {} THEN rows[m]
                              ELSE Result(rows[m], The(m))]
    /\ lastEvent' = [m \in Ids |-> IF Of(m) = {} THEN lastEvent[m]
                                   ELSE The(m).item.event]
    /\ lastSaid' = [m \in Ids |->
          IF Of(m) = {} \/ The(m).item.event = "DELETE" THEN lastSaid[m]
          ELSE The(m).item.memory]
    /\ deleted' = deleted \cup {t.item.id : t \in {t \in named :
                                                  t.item.event = "DELETE"}}
    /\ loose' = loose + Cardinality(Pending(r) \ named)
    /\ reworded' = reworded \cup
          {m \in Ids : /\ rows[m] # NoRow /\ rows'[m].content # rows[m].content
                      /\ \E q \in Requests \ {r} : Repeats(q, m)}
    /\ Return(r)
    /\ UNCHANGED <<mem0Vars, openEdges, historyVars>>

-----------------------------------------------------------------------------
(* Mem0MemoryBackend.delete                                                *)

\* session.get finds the row active; otherwise nothing changes (404).
DeleteStart(r, m) ==
    /\ rows[m].active
    /\ Begin(r, "remote")
    /\ items' = [items EXCEPT ![r] =
                    <<[id |-> m, event |-> "DELETE", memory |-> NoContent]>>]
    /\ UNCHANGED <<mem0Vars, pgVars, openEdges, seen, tx, primary>>

\* client.delete, before anything is deleted here.
RemoteDelete(r) ==
    /\ pc[r] = "remote"
    /\ remote' = [remote EXCEPT ![Item(r).id] = NoContent]
    /\ Goto(r, "delete")
    /\ UNCHANGED <<issued, pgVars, openEdges, items, seen, tx, primary, historyVars>>

\* client.delete raises: Mem0 has no such memory any more.
RemoteMissing(r) ==
    /\ pc[r] = "remote"
    /\ remote[Item(r).id] = NoContent
    /\ Raise(r)
    /\ UNCHANGED <<openEdges, faults>>

\* is_active = False and the DELETE event, flushed by session.commit().
CommitDelete(r) ==
    LET m == Item(r).id IN
    /\ pc[r] = "delete"
    /\ Blockers(r) = {}
    /\ rows' = [rows EXCEPT ![m].active = FALSE]
    /\ lastEvent' = [lastEvent EXCEPT ![m] = "DELETE"]
    /\ deleted' = deleted \cup {m}
    /\ Goto(r, "delclose")
    /\ UNCHANGED <<mem0Vars, lastSaid, loose, reworded, openEdges, items, seen,
                   tx, primary, historyVars>>

\* _graph_close, after the commit.
CloseDeleted(r) ==
    /\ pc[r] = "delclose"
    /\ openEdges' = Closed(Item(r).id)
    /\ Return(r)
    /\ UNCHANGED <<mem0Vars, pgVars, historyVars>>

-----------------------------------------------------------------------------
\* Everything a request, or Postgres for it, does once it has started.
Step(r) ==
    \/ GetRow(r)
    \/ FlushRow(r)
    \/ FlushConflict(r)
    \/ AbortDeadlocked(r)
    \/ GraphClose(r)
    \/ GraphUpsert(r)
    \/ GraphFails(r)
    \/ AnswerUnreadable(r)
    \/ NextItem(r)
    \/ Commit(r)
    \/ RemoteDelete(r)
    \/ RemoteMissing(r)
    \/ CommitDelete(r)
    \/ CloseDeleted(r)

\* A client's call.
Call(r) ==
    \/ AddNoop(r)
    \/ AddStart(r)
    \/ \E m \in Ids : DeleteStart(r, m)

Next == \E r \in Requests : Call(r) \/ Step(r) \/ Die(r)

Spec == Init /\ [][Next]_vars

\* Every await returns.  Fairness is strong, since a statement may wait for
\* a row lock that is taken again and again; Postgres grants it in the order
\* it was asked for.
FairSpec == Spec /\ \A r \in Requests : SF_vars(Step(r))

-----------------------------------------------------------------------------
\* Mem0MemoryBackend.search: what it answers for a memory Mem0 returns.
Shown(m) == IF rows[m] # NoRow THEN rows[m].content ELSE remote[m]

\* Postgres and Neo4j say of m what Mem0 says.
Mirrored(m) ==
    /\ rows[m].active <=> remote[m] # NoContent
    /\ remote[m] # NoContent => Shown(m) = remote[m]
    /\ openEdges[m] = [f \in Facts |-> IF f = remote[m] THEN 1 ELSE 0]

Quiet == \A r \in Requests : pc[r] = "idle"

\* "every Mem0 operation is mirrored into the same stores the mock uses"
\* (mem0_backend.py): between requests that come one at a time, and while no
\* store fails, the three stores agree.
EveryOperationMirrored ==
    Quiet /\ faults = 0 /\ ~overlapped => \A m \in Ids : Mirrored(m)

\* What is left of EveryOperationMirrored: the three stores agree after
\* requests that come one at a time, as long as none has been rolled back.
MirroredUnlessRolledBack ==
    Quiet /\ ~troubled /\ faults = 0 /\ ~overlapped => \A m \in Ids : Mirrored(m)

\* The audit trail accounts for every row, whatever interleaves, deadlocks
\* or dies: a row has the content of its latest ADD or UPDATE event, unless
\* it was reworded under a request that was to repeat its text; an inactive
\* one has a DELETE event, and no event names a row that is missing.
AuditExplainsRows ==
    \A m \in Ids :
        /\ m \notin reworded => rows[m].content = lastSaid[m]
        /\ rows[m] # NoRow /\ ~rows[m].active => m \in deleted
        /\ rows[m] = NoRow => lastEvent[m] = "none"

\* Replaying the audit trail of a memory tells whether it is active: true
\* whatever fails, as long as requests come one at a time.
AuditReplays ==
    ~overlapped => \A m \in Ids :
        rows[m].active <=> lastEvent[m] \in {"ADD", "UPDATE"}

\* A memory Mem0 has created reaches Postgres unless some request has been
\* rolled back: it has a row, or the request that created it is still busy
\* with it, however many others rewrite or delete it meanwhile.
NothingLost ==
    ~troubled => \A m \in 1 .. issued :
        \/ rows[m] # NoRow
        \/ \E r \in Requests :
              \/ \E t \in tx[r] : t.item.id = m /\ t.item.event = "ADD"
              \/ \E k \in DOMAIN items[r] : /\ items[r][k].id = m
                                           /\ items[r][k].event = "ADD"

\* Graph writes come before the commit: an edge may state what Postgres has
\* not committed, but only of a row its writer has flushed and not given up,
\* unless some request has been rolled back.
OpenEdgesAccountedFor ==
    ~troubled => \A m \in Ids :
        (\E f \in Facts : openEdges[m][f] > 0) =>
            rows[m] # NoRow \/ \E r \in Requests : Holds(r, m)

\* Every request comes back to its client: answers that touch the same
\* memories in different orders do not wait for each other for ever.
RequestsFinish == \A r \in Requests : pc[r] # "idle" ~> pc[r] = "idle"
=============================================================================
