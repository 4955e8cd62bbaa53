------------------------- MODULE MemoryStoreProofs --------------------------
(***************************************************************************)
(* Theorems about MemoryStore, for any number of requests in flight, any   *)
(* subjects and objects, any bounds, with and without faults.              *)
(*                                                                         *)
(* Everything rests on one inductive invariant, IInv: the invariants that  *)
(* are to be shown say what Postgres and Neo4j hold, and LocalsOK says     *)
(* what a request may still believe about them, several awaits after it    *)
(* has looked.                                                             *)
(***************************************************************************)
EXTENDS MemoryStore, TLAPS

\* What a request's locals say of the two stores at each await.
Locals(r) ==
    /\ pc[r] \in {"find", "flush", "close", "commit"} => want[r] \in Facts
    /\ pc[r] \in {"flush", "close", "commit"} /\ victim[r] # NoId =>
          /\ victim[r] \in rows
          /\ factOf[victim[r]].subject = want[r].subject
    /\ pc[r] = "close" => Contradicts(r)
    /\ pc[r] \in {"close", "commit"} =>
          /\ mine[r] \in 1 .. issued
          /\ mine[r] \notin rows
          /\ victim[r] < mine[r]
    /\ pc[r] = "upsert" => mine[r] \in rows
    /\ pc[r] \in {"delete", "delclose"} => victim[r] \in rows

LocalsOK == \A r \in Requests : Locals(r)

\* Two adds never hold the same uncommitted row.
MineDistinct ==
    \A r, q \in Requests :
        /\ pc[r] \in {"close", "commit"}
        /\ pc[q] \in {"close", "commit"}
        /\ mine[r] = mine[q]
        => r = q

\* Committed rows were issued, and each states a fact.
RowsStateFacts == \A m \in rows : m <= issued /\ factOf[m] \in Facts

IInv ==
    /\ TypeOK
    /\ LocalsOK
    /\ MineDistinct
    /\ RowsStateFacts
    /\ AuditExplainsState
    /\ SupersededByNewer
    /\ OpenEdgesCommitted

-----------------------------------------------------------------------------
(* Type correctness.                                                       *)

\* The states Init allows are well typed.
LEMMA InitTypeOK == Init => TypeOK
<1> SUFFICES ASSUME Init PROVE TypeOK
  OBVIOUS
<1>1. events \in [Ids -> EventCounts]
  BY DEF Init, EventCounts, NoEvents
<1>2. late \in [Writes -> [Ids -> 0 .. MaxLate]]
  BY BoundsAssumption DEF Init
<1>3. /\ noops \in 0 .. MaxNoops
      /\ issued \in 0 .. MaxRows
      /\ attempt \in [Requests -> 0 .. MaxAttempts - 1]
  BY BoundsAssumption DEF Init, MaxAttempts
<1>4. /\ supersededBy \in [Ids -> Ids \cup {NoId}]
      /\ factOf \in [Ids -> Facts \cup {NoFact}]
      /\ openEdges \in [Ids -> Nat]
      /\ want \in [Requests -> Facts \cup {NoFact}]
      /\ mine \in [Requests -> Ids \cup {NoId}]
      /\ victim \in [Requests -> Ids \cup {NoId}]
  BY DEF Init
<1>5. QED
  BY <1>1, <1>2, <1>3, <1>4 DEF Init, TypeOK

\* What a write does to the open edges is a count of open edges again.
LEMMA AppliedType ==
    ASSUME openEdges \in [Ids -> Nat], NEW w \in Writes, NEW m \in Ids
    PROVE  Applied(w, m) \in [Ids -> Nat]
BY DEF Applied, Opened, Closed

\* Returning resets the locals within their types.
LEMMA ReturnType ==
    ASSUME TypeOK, NEW r \in Requests, Return(r)
    PROVE  /\ pc' \in [Requests -> {"idle", "find", "flush", "close", "commit",
                                    "upsert", "delete", "delclose"}]
           /\ want' \in [Requests -> Facts \cup {NoFact}]
           /\ mine' \in [Requests -> Ids \cup {NoId}]
           /\ victim' \in [Requests -> Ids \cup {NoId}]
           /\ attempt' \in [Requests -> 0 .. MaxAttempts - 1]
BY DEF Return, TypeOK, MaxAttempts

\* A failed attempt keeps the types: it is counted below MaxAttempts or the
\* request returns.
LEMMA AttemptFailsType ==
    ASSUME TypeOK, NEW r \in Requests, NEW w \in Writes, NEW m \in Ids,
           AttemptFails(r, w, m)
    PROVE  TypeOK'
<1>1. /\ late' \in [Writes -> [Ids -> 0 .. MaxLate]]
      /\ faulty' \in BOOLEAN
      /\ openEdges' \in [Ids -> Nat]
  BY BoundsAssumption DEF AttemptFails, Lose, TypeOK
<1>2. /\ pc' \in [Requests -> {"idle", "find", "flush", "close", "commit",
                                "upsert", "delete", "delclose"}]
      /\ want' \in [Requests -> Facts \cup {NoFact}]
      /\ mine' \in [Requests -> Ids \cup {NoId}]
      /\ victim' \in [Requests -> Ids \cup {NoId}]
      /\ attempt' \in [Requests -> 0 .. MaxAttempts - 1]
  <2>1. CASE Exhausted(r)
    BY <2>1, ReturnType DEF AttemptFails
  <2>2. CASE ~Exhausted(r)
    BY <2>2 DEF AttemptFails, Exhausted, TypeOK, MaxAttempts
  <2>3. QED BY <2>1, <2>2
<1>3. QED BY <1>1, <1>2 DEF AttemptFails, TypeOK, ledgerVars

\* Every step keeps the types.
LEMMA NextTypeOK == TypeOK /\ LocalsOK /\ [Next]_vars => TypeOK'
<1> SUFFICES ASSUME TypeOK, LocalsOK, [Next]_vars PROVE TypeOK'
  OBVIOUS
<1> USE AllowFaultsAssumption, BoundsAssumption
<1>1. ASSUME NEW r \in Requests, AddNoop(r) PROVE TypeOK'
  BY <1>1 DEF AddNoop, TypeOK, graphVars, requestVars
<1>2. ASSUME NEW r \in Requests, NEW f \in Facts, AddStart(r, f) PROVE TypeOK'
  BY <1>2 DEF AddStart, Goto, TypeOK, ledgerVars, graphVars
<1>3. ASSUME NEW r \in Requests, NEW m \in Ids, DeleteStart(r, m) PROVE TypeOK'
  BY <1>3 DEF DeleteStart, Goto, TypeOK, ledgerVars, graphVars
<1>4. ASSUME NEW r \in Requests, FindActiveFact(r) PROVE TypeOK'
  BY <1>4 DEF FindActiveFact, OpenAbout, Goto, TypeOK, ledgerVars, graphVars
<1>5. ASSUME NEW r \in Requests, Flush(r) PROVE TypeOK'
  BY <1>5 DEF Flush, Goto, TypeOK, ledgerVars, graphVars, Ids
<1>6. ASSUME NEW r \in Requests, CloseOld(r) PROVE TypeOK'
  <2>1. victim[r] \in Ids
    BY <1>6 DEF CloseOld, LocalsOK, Locals, Contradicts, TypeOK
  <2>2. openEdges' \in [Ids -> Nat]
    BY <1>6, <2>1, AppliedType DEF CloseOld, Acknowledged, TypeOK, Writes
  <2>3. QED
    BY <1>6, <2>2 DEF CloseOld, Acknowledged, Goto, TypeOK, ledgerVars, MaxAttempts
<1>7. ASSUME NEW r \in Requests, CloseOldFails(r) PROVE TypeOK'
  <2>1. victim[r] \in Ids
    BY <1>7 DEF CloseOldFails, LocalsOK, Locals, Contradicts, TypeOK
  <2>2. QED BY <1>7, <2>1, AttemptFailsType DEF CloseOldFails, Writes
<1>8. ASSUME NEW r \in Requests, Commit(r) PROVE TypeOK'
  <2>1. mine[r] \in Ids /\ want[r] \in Facts
    BY <1>8 DEF Commit, LocalsOK, Locals, TypeOK, Ids
  <2>2. /\ rows' \subseteq Ids
        /\ isActive' \subseteq rows'
        /\ supersededBy' \in [Ids -> Ids \cup {NoId}]
        /\ factOf' \in [Ids -> Facts \cup {NoFact}]
        /\ pc' \in [Requests -> {"idle", "find", "flush", "close", "commit",
                                  "upsert", "delete", "delclose"}]
    BY <1>8, <2>1 DEF Commit, Linked, Goto, TypeOK
  <2>3. events' \in [Ids -> EventCounts]
    <3>1. \/ events' = [events EXCEPT ![mine[r]].UPDATE = @ + 1]
          \/ events' = [events EXCEPT ![mine[r]].ADD = @ + 1]
      BY <1>8 DEF Commit
    <3>2. events[mine[r]] \in EventCounts
      BY <2>1 DEF TypeOK
    <3>3. /\ [events[mine[r]] EXCEPT !.UPDATE = @ + 1] \in EventCounts
          /\ [events[mine[r]] EXCEPT !.ADD = @ + 1] \in EventCounts
      BY <3>2 DEF EventCounts
    <3>4. QED BY <2>1, <3>1, <3>3 DEF TypeOK
  <2>4. QED BY <1>8, <2>2, <2>3 DEF Commit, TypeOK, graphVars
<1>9. ASSUME NEW r \in Requests, Upsert(r) PROVE TypeOK'
  <2>1. mine[r] \in Ids
    BY <1>9 DEF Upsert, LocalsOK, Locals, TypeOK
  <2>2. openEdges' \in [Ids -> Nat]
    BY <1>9, <2>1, AppliedType DEF Upsert, Acknowledged, TypeOK, Writes
  <2>3. QED
    BY <1>9, <2>2, ReturnType DEF Upsert, Acknowledged, TypeOK, ledgerVars
<1>10. ASSUME NEW r \in Requests, UpsertFails(r) PROVE TypeOK'
  <2>1. mine[r] \in Ids
    BY <1>10 DEF UpsertFails, LocalsOK, Locals, TypeOK
  <2>2. QED BY <1>10, <2>1, AttemptFailsType DEF UpsertFails, Writes
<1>11. ASSUME NEW r \in Requests, CommitDelete(r) PROVE TypeOK'
  <2>1. victim[r] \in Ids
    BY <1>11 DEF CommitDelete, LocalsOK, Locals, TypeOK
  <2>2. events' \in [Ids -> EventCounts]
    BY <1>11, <2>1 DEF CommitDelete, TypeOK, EventCounts
  <2>3. QED BY <1>11, <2>2 DEF CommitDelete, Goto, TypeOK, graphVars
<1>12. ASSUME NEW r \in Requests, CloseDeleted(r) PROVE TypeOK'
  <2>1. victim[r] \in Ids
    BY <1>12 DEF CloseDeleted, LocalsOK, Locals, TypeOK
  <2>2. openEdges' \in [Ids -> Nat]
    BY <1>12, <2>1, AppliedType DEF CloseDeleted, Acknowledged, TypeOK, Writes
  <2>3. QED
    BY <1>12, <2>2, ReturnType DEF CloseDeleted, Acknowledged, TypeOK, ledgerVars
<1>13. ASSUME NEW r \in Requests, CloseDeletedFails(r) PROVE TypeOK'
  <2>1. victim[r] \in Ids
    BY <1>13 DEF CloseDeletedFails, LocalsOK, Locals, TypeOK
  <2>2. QED BY <1>13, <2>1, AttemptFailsType DEF CloseDeletedFails, Writes
<1>14. ASSUME NEW r \in Requests, Die(r) PROVE TypeOK'
  BY <1>14, ReturnType DEF Die, TypeOK, ledgerVars, graphVars
<1>15. ASSUME NEW w \in Writes, NEW m \in Ids, Land(w, m) PROVE TypeOK'
  <2>1. late' \in [Writes -> [Ids -> 0 .. MaxLate]]
    BY <1>15 DEF Land, TypeOK
  <2>2. openEdges' \in [Ids -> Nat]
    BY <1>15, AppliedType DEF Land, TypeOK
  <2>3. QED BY <1>15, <2>1, <2>2 DEF Land, TypeOK, ledgerVars, requestVars
<1>16. CASE UNCHANGED vars
  BY <1>16 DEF TypeOK, vars, ledgerVars, graphVars, requestVars
<1>17. QED
  BY <1>1, <1>2, <1>3, <1>4, <1>5, <1>6, <1>7, <1>8, <1>9, <1>10, <1>11, <1>12,
     <1>13, <1>14, <1>15, <1>16
     DEF Next, Call, Step, DeleteMissing

-----------------------------------------------------------------------------
(* What the requests believe stays true while others act.                  *)

\* Postgres rows are written by the two commits only.
LEMMA LedgerFrame ==
    [Next]_vars =>
        \/ \E r \in Requests : Commit(r) \/ CommitDelete(r)
        \/ UNCHANGED <<rows, isActive, supersededBy, factOf, events>>
<1> SUFFICES ASSUME [Next]_vars,
                    ~ \E r \in Requests : Commit(r) \/ CommitDelete(r)
             PROVE  UNCHANGED <<rows, isActive, supersededBy, factOf, events>>
  OBVIOUS
<1>1. ASSUME NEW r \in Requests, Call(r)
      PROVE  UNCHANGED <<rows, isActive, supersededBy, factOf, events>>
  BY <1>1 DEF Call, AddNoop, AddStart, DeleteStart, DeleteMissing, vars, ledgerVars
<1>2. ASSUME NEW r \in Requests, Step(r)
      PROVE  UNCHANGED <<rows, isActive, supersededBy, factOf, events>>
  BY <1>2 DEF Step, FindActiveFact, Flush, CloseOld, CloseOldFails, Upsert,
              UpsertFails, CloseDeleted, CloseDeletedFails, AttemptFails, ledgerVars
<1>3. QED
  BY <1>1, <1>2 DEF Next, Die, Land, vars, ledgerVars

\* The locals of a request that does not move.
Still(q) ==
    /\ pc'[q] = pc[q]
    /\ want'[q] = want[q]
    /\ mine'[q] = mine[q]
    /\ victim'[q] = victim[q]

\* Rows are never taken away and never change what they state, so a request
\* that does not move keeps its beliefs, if its own row is not committed by
\* another.
LEMMA StillLocals ==
    ASSUME NEW q \in Requests, Locals(q), Still(q), TypeOK,
           issued' \in Nat, issued <= issued',
           rows \subseteq rows',
           \A m \in rows : factOf'[m] = factOf[m],
           pc[q] \in {"close", "commit"} => mine[q] \notin rows'
    PROVE  Locals(q)'
<1>1. pc[q] \in {"flush", "close", "commit"} /\ victim[q] # NoId =>
          factOf'[victim[q]] = factOf[victim[q]]
  BY DEF Locals
<1>2. pc[q] = "close" => Contradicts(q)'
  BY <1>1 DEF Locals, Contradicts, Still
<1>3. pc[q] \in {"close", "commit"} => mine[q] \in 1 .. issued'
  BY DEF Locals, TypeOK
<1>4. QED
  BY <1>1, <1>2, <1>3 DEF Locals, Still

\* What a request believes stays true while others commit, and is replaced
\* by what it has just seen when it moves itself.
LEMMA NextLocalsOK == IInv /\ [Next]_vars => LocalsOK'
<1> SUFFICES ASSUME IInv, [Next]_vars, NEW q \in Requests PROVE Locals(q)'
  BY DEF LocalsOK
<1> TypeOK /\ Locals(q)
  BY DEF IInv, LocalsOK
<1> issued \in Nat
  BY DEF TypeOK
<1>1. ASSUME NEW r \in Requests, Call(r) PROVE Locals(q)'
  <2>1. /\ issued' = issued
        /\ rows' = rows
        /\ factOf' = factOf
    BY <1>1 DEF Call, AddNoop, AddStart, DeleteStart, DeleteMissing, vars, ledgerVars
  <2>2. CASE Still(q)
    BY <2>1, <2>2, StillLocals DEF Locals
  <2>3. ASSUME NEW f \in Facts, AddStart(r, f), q = r PROVE Locals(q)'
    BY <2>3 DEF AddStart, Goto, Locals, TypeOK
  <2>4. ASSUME NEW m \in Ids, DeleteStart(r, m), q = r PROVE Locals(q)'
    BY <2>4 DEF DeleteStart, Goto, Deletable, Locals, TypeOK, ledgerVars
  <2>5. QED
    BY <1>1, <2>2, <2>3, <2>4
       DEF Call, AddNoop, AddStart, DeleteStart, DeleteMissing, Goto, Still, TypeOK,
           vars, requestVars
<1>2. ASSUME NEW r \in Requests, Return(r), rows' = rows, factOf' = factOf,
             issued' = issued
      PROVE  Locals(q)'
  <2>1. CASE q = r
    BY <1>2, <2>1 DEF Return, Locals, TypeOK
  <2>2. CASE q # r
    BY <1>2, <2>2, StillLocals DEF Return, Still, Locals, TypeOK
  <2>3. QED BY <2>1, <2>2
<1>3. ASSUME NEW r \in Requests, NEW w \in Writes, NEW m \in Ids,
             AttemptFails(r, w, m)
      PROVE  Locals(q)'
  <2>1. rows' = rows /\ factOf' = factOf /\ issued' = issued
    BY <1>3 DEF AttemptFails, ledgerVars
  <2>2. CASE Return(r)
    BY <1>2, <2>1, <2>2
  <2>3. CASE UNCHANGED <<pc, want, mine, victim>>
    BY <2>1, <2>3, StillLocals DEF Still, Locals
  <2>4. QED BY <1>3, <2>2, <2>3 DEF AttemptFails
<1>4. ASSUME NEW r \in Requests, FindActiveFact(r) PROVE Locals(q)'
  <2>1. CASE q = r
    <3>1. \A m \in OpenAbout(want[r].subject) :
             m \in rows /\ factOf[m].subject = want[r].subject
      BY DEF OpenAbout, IInv, OpenEdgesCommitted
    <3>2. victim'[r] # NoId => /\ victim'[r] \in rows
                               /\ factOf[victim'[r]].subject = want[r].subject
      BY <1>4, <3>1 DEF FindActiveFact, TypeOK
    <3>3. QED
      BY <1>4, <2>1, <3>2 DEF FindActiveFact, Goto, Locals, TypeOK, ledgerVars
  <2>2. CASE q # r
    BY <1>4, <2>2, StillLocals
       DEF FindActiveFact, Goto, Still, Locals, TypeOK, ledgerVars
  <2>3. QED BY <2>1, <2>2
<1>5. ASSUME NEW r \in Requests, Flush(r) PROVE Locals(q)'
  <2>1. issued' = issued + 1 /\ rows' = rows /\ factOf' = factOf
    BY <1>5 DEF Flush, ledgerVars
  <2>2. CASE q = r
    <3>1. mine'[r] = issued + 1 /\ mine'[r] \in 1 .. issued'
      BY <1>5, <2>1 DEF Flush, TypeOK
    <3>2. mine'[r] \notin rows /\ victim[r] < mine'[r]
      BY <1>5, <2>2, <3>1 DEF Flush, IInv, RowsStateFacts, Locals, TypeOK, NoId, Ids
    <3>3. QED
      BY <1>5, <2>1, <2>2, <3>1, <3>2
         DEF Flush, Goto, Locals, Contradicts, TypeOK, ledgerVars
  <2>3. CASE q # r
    BY <1>5, <2>1, <2>3, StillLocals DEF Flush, Goto, Still, Locals, TypeOK
  <2>4. QED BY <2>2, <2>3
<1>6. ASSUME NEW r \in Requests, CloseOld(r) PROVE Locals(q)'
  <2>1. CASE q = r
    BY <1>6, <2>1 DEF CloseOld, Goto, Locals, TypeOK, ledgerVars
  <2>2. CASE q # r
    BY <1>6, <2>2, StillLocals DEF CloseOld, Goto, Still, Locals, TypeOK, ledgerVars
  <2>3. QED BY <2>1, <2>2
<1>7. ASSUME NEW r \in Requests, Commit(r) PROVE Locals(q)'
  <2>1. CASE q = r
    BY <1>7, <2>1 DEF Commit, Goto, Locals, TypeOK
  <2>2. CASE q # r
    <3>1. pc[q] \in {"close", "commit"} => mine[q] \notin rows'
      BY <1>7, <2>2 DEF Commit, IInv, MineDistinct, Locals
    <3>2. \A m \in rows : factOf'[m] = factOf[m]
      BY <1>7 DEF Commit, IInv, LocalsOK, Locals, TypeOK
    <3>3. QED
      BY <1>7, <2>2, <3>1, <3>2, StillLocals DEF Commit, Goto, Still, TypeOK
  <2>3. QED BY <2>1, <2>2
<1>8. ASSUME NEW r \in Requests, CommitDelete(r) PROVE Locals(q)'
  <2>1. CASE q = r
    BY <1>8, <2>1 DEF CommitDelete, Goto, Locals, TypeOK
  <2>2. CASE q # r
    BY <1>8, <2>2, StillLocals DEF CommitDelete, Goto, Still, Locals, TypeOK
  <2>3. QED BY <2>1, <2>2
<1>9. CASE UNCHANGED <<ledgerVars, requestVars, issued>>
  BY <1>9, StillLocals DEF Still, Locals, ledgerVars, requestVars
<1>10. ASSUME NEW r \in Requests, Step(r) PROVE Locals(q)'
  <2>1. Locals(r)
    BY DEF IInv, LocalsOK
  <2>2. CASE Upsert(r) \/ CloseDeleted(r)
    BY <1>2, <2>2 DEF Upsert, CloseDeleted, ledgerVars
  <2>3. CASE CloseOldFails(r)
    BY <1>3, <2>1, <2>3 DEF CloseOldFails, Locals, Contradicts, TypeOK, Writes
  <2>4. CASE UpsertFails(r)
    BY <1>3, <2>1, <2>4 DEF UpsertFails, Locals, TypeOK, Writes
  <2>5. CASE CloseDeletedFails(r)
    BY <1>3, <2>1, <2>5 DEF CloseDeletedFails, Locals, TypeOK, Writes
  <2>6. QED
    BY <1>4, <1>5, <1>6, <1>7, <1>8, <1>10, <2>2, <2>3, <2>4, <2>5 DEF Step
<1>11. QED
  BY <1>1, <1>2, <1>9, <1>10 DEF Next, Die, Land, vars, ledgerVars, requestVars

\* A flushed row's id is new, and the others keep theirs or give them up.
LEMMA NextMineDistinct == IInv /\ [Next]_vars => MineDistinct'
<1> SUFFICES ASSUME IInv, [Next]_vars PROVE MineDistinct'
  OBVIOUS
<1> TypeOK /\ MineDistinct /\ LocalsOK
  BY DEF IInv
<1>1. ASSUME NEW r \in Requests, Flush(r) PROVE MineDistinct'
  <2>1. mine'[r] = issued + 1
    BY <1>1 DEF Flush, TypeOK
  <2>2. ASSUME NEW q \in Requests, q # r, pc'[q] \in {"close", "commit"}
        PROVE  mine'[q] \in 1 .. issued
    BY <1>1, <2>2 DEF Flush, Goto, LocalsOK, Locals, TypeOK
  <2>3. ASSUME NEW q \in Requests, q # r, pc'[q] \in {"close", "commit"}
        PROVE  mine'[q] # mine'[r]
    BY <2>1, <2>2, <2>3 DEF TypeOK
  <2>4. ASSUME NEW p \in Requests, NEW q \in Requests, p # r, q # r,
               pc'[p] \in {"close", "commit"}, pc'[q] \in {"close", "commit"},
               mine'[p] = mine'[q]
        PROVE  p = q
    BY <1>1, <2>4 DEF Flush, Goto, MineDistinct, TypeOK
  <2>5. QED BY <2>3, <2>4 DEF MineDistinct
<1>2. ASSUME \A q \in Requests : pc'[q] \in {"close", "commit"} =>
                 pc[q] \in {"close", "commit"} /\ mine'[q] = mine[q]
      PROVE  MineDistinct'
  BY <1>2 DEF MineDistinct
<1>3. ASSUME NEW r \in Requests, Call(r) PROVE MineDistinct'
  BY <1>2, <1>3
     DEF Call, AddNoop, AddStart, DeleteStart, DeleteMissing, Goto, TypeOK, vars,
         requestVars
<1>4. ASSUME NEW r \in Requests, Return(r) PROVE MineDistinct'
  BY <1>2, <1>4 DEF Return, TypeOK
<1>5. ASSUME NEW r \in Requests, NEW w \in Writes, NEW m \in Ids,
             AttemptFails(r, w, m)
      PROVE  MineDistinct'
  BY <1>2, <1>4, <1>5 DEF AttemptFails
<1>6. ASSUME NEW r \in Requests, Step(r) PROVE MineDistinct'
  <2>1. Locals(r)
    BY DEF LocalsOK
  <2>2. CASE Upsert(r) \/ CloseDeleted(r)
    BY <1>4, <2>2 DEF Upsert, CloseDeleted
  <2>3. CASE CloseOldFails(r) \/ UpsertFails(r) \/ CloseDeletedFails(r)
    BY <1>5, <2>1, <2>3
       DEF CloseOldFails, UpsertFails, CloseDeletedFails, Locals, Contradicts,
           TypeOK, Writes
  <2>4. CASE FindActiveFact(r) \/ CloseOld(r) \/ Commit(r) \/ CommitDelete(r)
    BY <1>2, <2>4 DEF FindActiveFact, CloseOld, Commit, CommitDelete, Goto, TypeOK
  <2>5. QED BY <1>1, <1>6, <2>2, <2>3, <2>4 DEF Step
<1>7. QED
  BY <1>2, <1>3, <1>4, <1>6 DEF Next, Die, Land, vars, requestVars

-----------------------------------------------------------------------------
(* The ledger's invariants.                                                *)

\* Ids are only ever handed out.
LEMMA IssuedGrows == TypeOK /\ [Next]_vars => issued' \in Nat /\ issued <= issued'
<1> SUFFICES ASSUME TypeOK, [Next]_vars PROVE issued' \in Nat /\ issued <= issued'
  OBVIOUS
<1>1. ASSUME NEW r \in Requests, Flush(r) PROVE issued' = issued + 1
  BY <1>1 DEF Flush
<1>2. ASSUME NEW r \in Requests, Step(r), ~Flush(r) PROVE issued' = issued
  BY <1>2 DEF Step, FindActiveFact, CloseOld, CloseOldFails, Commit, Upsert,
              UpsertFails, CommitDelete, CloseDeleted, CloseDeletedFails, AttemptFails
<1>3. ASSUME NEW r \in Requests, Call(r) PROVE issued' = issued
  BY <1>3 DEF Call, AddNoop, AddStart, DeleteStart, DeleteMissing, vars
<1>4. QED
  BY <1>1, <1>2, <1>3 DEF Next, Die, Land, vars, TypeOK

\* Rows are committed with an issued id and a fact, for good.
LEMMA NextRowsStateFacts == IInv /\ [Next]_vars => RowsStateFacts'
<1> SUFFICES ASSUME IInv, [Next]_vars PROVE RowsStateFacts'
  OBVIOUS
<1> TypeOK /\ RowsStateFacts /\ LocalsOK
  BY DEF IInv
<1>1. issued' \in Nat /\ issued <= issued' /\ issued \in Nat /\ rows \subseteq Nat
  BY IssuedGrows DEF TypeOK, Ids
<1>2. ASSUME NEW r \in Requests, Commit(r) PROVE RowsStateFacts'
  <2>1. /\ mine[r] \in 1 .. issued
        /\ mine[r] \in Ids
        /\ want[r] \in Facts
    BY <1>1, <1>2 DEF Commit, LocalsOK, Locals, TypeOK, NoId
  <2>2. /\ rows' = rows \cup {mine[r]}
        /\ factOf' = [factOf EXCEPT ![mine[r]] = want[r]]
    BY <1>2 DEF Commit
  <2>3. ASSUME NEW m \in rows' PROVE m <= issued' /\ factOf'[m] \in Facts
    <3>1. CASE m = mine[r]
      BY <1>1, <2>1, <2>2, <3>1 DEF TypeOK
    <3>2. CASE m # mine[r]
      <4>1. m \in rows /\ m \in Nat /\ m <= issued /\ factOf[m] \in Facts
        BY <1>1, <2>2, <2>3, <3>2 DEF RowsStateFacts
      <4>2. m <= issued'
        BY <1>1, <4>1
      <4>3. QED BY <2>2, <3>2, <4>1, <4>2 DEF TypeOK
    <3>3. QED BY <3>1, <3>2
  <2>4. QED BY <2>3 DEF RowsStateFacts
<1>3. ASSUME rows' = rows, factOf' = factOf PROVE RowsStateFacts'
  BY <1>1, <1>3 DEF RowsStateFacts
<1>4. QED BY <1>2, <1>3, LedgerFrame DEF CommitDelete

\* Every commit moves the table and its audit trail together.
LEMMA NextAudit == IInv /\ [Next]_vars => AuditExplainsState'
<1> SUFFICES ASSUME IInv, [Next]_vars PROVE AuditExplainsState'
  OBVIOUS
<1> TypeOK /\ AuditExplainsState /\ LocalsOK
  BY DEF IInv
<1>1. ASSUME NEW r \in Requests, Commit(r), NEW m \in Ids
      PROVE  /\ events'[m].ADD + events'[m].UPDATE = IF m \in rows' THEN 1 ELSE 0
             /\ events'[m].DELETE > 0 \/ supersededBy'[m] # NoId => m \in rows'
             /\ m \in isActive' <=> /\ m \in rows'
                                    /\ events'[m].DELETE = 0
                                    /\ supersededBy'[m] = NoId
  <2>1. /\ mine[r] \in Ids
        /\ mine[r] \notin rows
        /\ mine[r] # NoId
        /\ Contradicts(r) => victim[r] \in rows /\ victim[r] # mine[r]
    BY <1>1 DEF Commit, LocalsOK, Locals, Contradicts, TypeOK, Ids, NoId
  <2>2. \A n \in Ids : events[n] \in EventCounts
    BY DEF TypeOK
  <2>3. /\ events[mine[r]].ADD = 0
        /\ events[mine[r]].UPDATE = 0
        /\ events[mine[r]].DELETE = 0
        /\ supersededBy[mine[r]] = NoId
    BY <2>1, <2>2 DEF AuditExplainsState, EventCounts
  <2>4. CASE Contradicts(r)
    <3>1. /\ events' = [events EXCEPT ![mine[r]].UPDATE = @ + 1]
          /\ supersededBy' = [supersededBy EXCEPT ![victim[r]] = mine[r]]
          /\ rows' = rows \cup {mine[r]}
          /\ isActive' = (isActive \cup {mine[r]}) \ {victim[r]}
      BY <1>1, <2>4 DEF Commit, Linked
    <3>2. CASE m = mine[r]
      BY <2>1, <2>2, <2>3, <2>4, <3>1, <3>2 DEF TypeOK, EventCounts
    <3>3. CASE m # mine[r]
      <4>1. events'[m] = events[m]
        BY <3>1, <3>3 DEF TypeOK
      <4>2. QED BY <2>1, <2>4, <3>1, <3>3, <4>1 DEF AuditExplainsState, TypeOK
    <3>4. QED BY <3>2, <3>3
  <2>5. CASE ~Contradicts(r)
    <3>1. /\ events' = [events EXCEPT ![mine[r]].ADD = @ + 1]
          /\ supersededBy' = supersededBy
          /\ rows' = rows \cup {mine[r]}
          /\ isActive' = isActive \cup {mine[r]}
      BY <1>1, <2>5 DEF Commit
    <3>2. CASE m = mine[r]
      BY <2>1, <2>2, <2>3, <3>1, <3>2 DEF TypeOK, EventCounts
    <3>3. CASE m # mine[r]
      <4>1. events'[m] = events[m]
        BY <3>1, <3>3 DEF TypeOK
      <4>2. QED BY <3>1, <3>3, <4>1 DEF AuditExplainsState
    <3>4. QED BY <3>2, <3>3
  <2>6. QED BY <2>4, <2>5
<1>2. ASSUME NEW r \in Requests, CommitDelete(r), NEW m \in Ids
      PROVE  /\ events'[m].ADD + events'[m].UPDATE = IF m \in rows' THEN 1 ELSE 0
             /\ events'[m].DELETE > 0 \/ supersededBy'[m] # NoId => m \in rows'
             /\ m \in isActive' <=> /\ m \in rows'
                                    /\ events'[m].DELETE = 0
                                    /\ supersededBy'[m] = NoId
  <2>1. /\ victim[r] \in rows
        /\ victim[r] \in Ids
        /\ events[victim[r]] \in EventCounts
    BY <1>2 DEF CommitDelete, LocalsOK, Locals, TypeOK
  <2>2. /\ events' = [events EXCEPT ![victim[r]].DELETE = @ + 1]
        /\ isActive' = isActive \ {victim[r]}
        /\ rows' = rows
        /\ supersededBy' = supersededBy
    BY <1>2 DEF CommitDelete
  <2>3. CASE m = victim[r]
    BY <2>1, <2>2, <2>3 DEF AuditExplainsState, TypeOK, EventCounts
  <2>4. CASE m # victim[r]
    BY <2>1, <2>2, <2>4 DEF AuditExplainsState, TypeOK
  <2>5. QED BY <2>3, <2>4
<1>3. CASE UNCHANGED <<rows, isActive, supersededBy, factOf, events>>
  BY <1>3 DEF AuditExplainsState
<1>4. QED BY <1>1, <1>2, <1>3, LedgerFrame DEF AuditExplainsState

\* An update supersedes an older row of its subject that says another thing,
\* which is what LocalsOK kept of the edge it found.
LEMMA NextSuperseded == IInv /\ [Next]_vars => SupersededByNewer'
<1> SUFFICES ASSUME IInv, [Next]_vars PROVE SupersededByNewer'
  OBVIOUS
<1> TypeOK /\ SupersededByNewer /\ LocalsOK
  BY DEF IInv
<1>1. ASSUME NEW r \in Requests, Commit(r), NEW m \in Ids, supersededBy'[m] # NoId
      PROVE  /\ m \in rows' \ isActive'
             /\ supersededBy'[m] \in rows'
             /\ m < supersededBy'[m]
             /\ factOf'[m].subject = factOf'[supersededBy'[m]].subject
             /\ factOf'[m].object # factOf'[supersededBy'[m]].object
  <2>1. /\ mine[r] \in Ids
        /\ mine[r] \notin rows
        /\ factOf' = [factOf EXCEPT ![mine[r]] = want[r]]
        /\ rows' = rows \cup {mine[r]}
    BY <1>1 DEF Commit, LocalsOK, Locals, TypeOK, NoId
  <2>2. CASE Contradicts(r) /\ m = victim[r]
    <3>1. /\ supersededBy'[m] = mine[r]
          /\ isActive' = (isActive \cup {mine[r]}) \ {m}
      BY <1>1, <2>2 DEF Commit, Linked, TypeOK
    <3>2. /\ m \in rows
          /\ m < mine[r]
          /\ m # mine[r]
          /\ factOf[m].subject = want[r].subject
          /\ factOf[m].object # want[r].object
      BY <1>1, <2>1, <2>2 DEF Commit, LocalsOK, Locals, Contradicts
    <3>3. factOf'[m] = factOf[m] /\ factOf'[mine[r]] = want[r]
      BY <2>1, <3>2 DEF TypeOK
    <3>4. QED BY <2>1, <3>1, <3>2, <3>3
  <2>3. CASE ~(Contradicts(r) /\ m = victim[r])
    <3>1. /\ supersededBy'[m] = supersededBy[m]
          /\ isActive' \subseteq isActive \cup {mine[r]}
      BY <1>1, <2>3 DEF Commit, Linked, TypeOK
    <3>2. /\ m \in rows \ isActive
          /\ supersededBy[m] \in rows
          /\ m < supersededBy[m]
          /\ factOf[m].subject = factOf[supersededBy[m]].subject
          /\ factOf[m].object # factOf[supersededBy[m]].object
      BY <1>1, <3>1 DEF SupersededByNewer
    <3>3. factOf'[m] = factOf[m] /\ factOf'[supersededBy[m]] = factOf[supersededBy[m]]
      BY <2>1, <3>2 DEF TypeOK
    <3>4. QED BY <2>1, <3>1, <3>2, <3>3
  <2>4. QED BY <2>2, <2>3
<1>2. ASSUME NEW r \in Requests, CommitDelete(r) PROVE SupersededByNewer'
  <2>1. /\ isActive' \subseteq isActive
        /\ rows' = rows
        /\ supersededBy' = supersededBy
        /\ factOf' = factOf
    BY <1>2 DEF CommitDelete
  <2>2. QED BY <2>1 DEF SupersededByNewer
<1>3. CASE UNCHANGED <<rows, isActive, supersededBy, factOf, events>>
  BY <1>3 DEF SupersededByNewer
<1>4. QED BY <1>1, <1>2, <1>3, LedgerFrame DEF SupersededByNewer

-----------------------------------------------------------------------------
(* The graph's invariant.                                                  *)

\* Only committed rows are opened, and only their writes are left behind.
LEMMA NextOpenEdges == IInv /\ [Next]_vars => OpenEdgesCommitted'
<1> SUFFICES ASSUME IInv, [Next]_vars PROVE OpenEdgesCommitted'
  OBVIOUS
<1> TypeOK /\ OpenEdgesCommitted /\ LocalsOK
  BY DEF IInv
<1>1. rows \subseteq rows'
  BY LedgerFrame DEF Commit, CommitDelete
<1>2. ASSUME UNCHANGED graphVars PROVE OpenEdgesCommitted'
  BY <1>1, <1>2 DEF OpenEdgesCommitted, graphVars
<1>3. ASSUME NEW w \in Writes, NEW m \in Ids,
             w = "open" => m \in rows,
             openEdges' = Applied(w, m) \/ openEdges' = openEdges,
             \/ late' = late
             \/ late' = [late EXCEPT ![w][m] = @ + 1]
             \/ late' = [late EXCEPT ![w][m] = @ - 1]
      PROVE  OpenEdgesCommitted'
  <2>1. ASSUME NEW n \in Ids, n \notin rows
        PROVE  openEdges'[n] <= openEdges[n] /\ late'["open"][n] = late["open"][n]
    <3>1. openEdges'[n] <= openEdges[n]
      BY <1>3, <2>1 DEF Applied, Opened, Closed, TypeOK
    <3>2. late'["open"][n] = late["open"][n]
      BY <1>3, <2>1 DEF TypeOK, Writes
    <3>3. QED BY <3>1, <3>2
  <2>2. \A n \in Ids : openEdges[n] \in Nat /\ openEdges'[n] \in Nat
    BY <1>3 DEF Applied, Opened, Closed, TypeOK
  <2>3. QED
    BY <1>1, <2>1, <2>2 DEF OpenEdgesCommitted
<1>4. ASSUME NEW r \in Requests, NEW w \in Writes, NEW m \in Ids,
             AttemptFails(r, w, m), w = "open" => m \in rows
      PROVE  OpenEdgesCommitted'
  BY <1>3, <1>4 DEF AttemptFails, Lose
<1>5. ASSUME NEW r \in Requests, NEW w \in Writes, NEW m \in Ids,
             Acknowledged(w, m), w = "open" => m \in rows
      PROVE  OpenEdgesCommitted'
  BY <1>3, <1>5 DEF Acknowledged
<1>6. ASSUME NEW r \in Requests, Step(r) PROVE OpenEdgesCommitted'
  <2>1. Locals(r)
    BY DEF LocalsOK
  <2>2. CASE FindActiveFact(r) \/ Flush(r) \/ Commit(r) \/ CommitDelete(r)
    BY <1>2, <2>2 DEF FindActiveFact, Flush, Commit, CommitDelete
  <2>3. CASE CloseOld(r) \/ CloseOldFails(r)
    <3>1. victim[r] \in Ids
      BY <2>1, <2>3 DEF CloseOld, CloseOldFails, Locals, Contradicts, TypeOK
    <3>2. QED BY <1>4, <1>5, <2>3, <3>1 DEF CloseOld, CloseOldFails, Writes
  <2>4. CASE Upsert(r) \/ UpsertFails(r)
    <3>1. mine[r] \in rows /\ mine[r] \in Ids
      BY <2>1, <2>4 DEF Upsert, UpsertFails, Locals, TypeOK
    <3>2. QED BY <1>4, <1>5, <2>4, <3>1 DEF Upsert, UpsertFails, Writes
  <2>5. CASE CloseDeleted(r) \/ CloseDeletedFails(r)
    <3>1. victim[r] \in Ids
      BY <2>1, <2>5 DEF CloseDeleted, CloseDeletedFails, Locals, TypeOK
    <3>2. QED BY <1>4, <1>5, <2>5, <3>1 DEF CloseDeleted, CloseDeletedFails, Writes
  <2>6. QED BY <1>6, <2>2, <2>3, <2>4, <2>5 DEF Step
<1>7. ASSUME NEW r \in Requests, Call(r) PROVE OpenEdgesCommitted'
  BY <1>2, <1>7
     DEF Call, AddNoop, AddStart, DeleteStart, DeleteMissing, vars, graphVars
<1>8. ASSUME NEW w \in Writes, NEW m \in Ids, Land(w, m) PROVE OpenEdgesCommitted'
  <2>1. w = "open" => m \in rows
    BY <1>8 DEF Land, OpenEdgesCommitted
  <2>2. QED BY <1>3, <1>8, <2>1 DEF Land
<1>9. QED
  BY <1>2, <1>6, <1>7, <1>8 DEF Next, Die, vars

-----------------------------------------------------------------------------
(* Theorems.                                                               *)

\* IInv holds initially and every step keeps it.
LEMMA InitIInv == Init => IInv
<1> SUFFICES ASSUME Init PROVE IInv
  OBVIOUS
<1>1. TypeOK
  BY InitTypeOK
<1>2. LocalsOK /\ MineDistinct /\ RowsStateFacts
  BY DEF Init, LocalsOK, Locals, MineDistinct, RowsStateFacts
<1>3. AuditExplainsState
  BY DEF Init, AuditExplainsState, NoEvents
<1>4. SupersededByNewer /\ OpenEdgesCommitted
  BY DEF Init, SupersededByNewer, OpenEdgesCommitted, Writes
<1>5. QED BY <1>1, <1>2, <1>3, <1>4 DEF IInv

\* Every step keeps every part of the invariant.
LEMMA NextIInv == IInv /\ [Next]_vars => IInv'
BY NextTypeOK, NextLocalsOK, NextMineDistinct, NextRowsStateFacts, NextAudit,
   NextSuperseded, NextOpenEdges
   DEF IInv

\* IInv holds in every reachable state.
THEOREM Invariance == Spec => []IInv
BY InitIInv, NextIInv, PTL DEF Spec

\* Every variable keeps its type in every reachable state.
THEOREM TypeCorrect == Spec => []TypeOK
<1>1. IInv => TypeOK
  BY DEF IInv
<1>2. QED BY <1>1, Invariance, PTL

\* The audit trail explains the table: no interleaving, failed attempt or
\* dead request makes memories and memory_events tell different stories.
THEOREM AuditTrailIsComplete == Spec => []AuditExplainsState
<1>1. IInv => AuditExplainsState
  BY DEF IInv
<1>2. QED BY <1>1, Invariance, PTL

\* The supersede chain runs strictly forward in time, within one subject.
THEOREM SupersessionMovesForward == Spec => []SupersededByNewer
<1>1. IInv => SupersededByNewer
  BY DEF IInv
<1>2. QED BY <1>1, Invariance, PTL

\* The graph states only what Postgres has committed.
THEOREM GraphFollowsCommit == Spec => []OpenEdgesCommitted
<1>1. IInv => OpenEdgesCommitted
  BY DEF IInv
<1>2. QED BY <1>1, Invariance, PTL

-----------------------------------------------------------------------------
(* Refinement: MemoryStore implements MemoryLedger.  Whatever requests do  *)
(* at their awaits, Postgres moves by whole ledger steps, so everything    *)
(* that holds of the ledger holds of the backend.  The invariant IInv      *)
(* supplies what a request believed when it chose a row to supersede or    *)
(* delete.                                                                 *)

\* A commit of an add is the ledger's Add or Update.
LEMMA CommitImplements ==
    ASSUME IInv, NEW r \in Requests, Commit(r)
    PROVE  Ledger!Next
<1>1. /\ mine[r] \in Ids
      /\ mine[r] \notin rows
      /\ want[r] \in Facts
  BY DEF Commit, IInv, LocalsOK, Locals, TypeOK, NoId
<1>2. CASE Contradicts(r)
  <2>1. /\ victim[r] \in Ids
        /\ victim[r] \in rows
        /\ victim[r] < mine[r]
        /\ factOf[victim[r]].subject = want[r].subject
        /\ factOf[victim[r]].object # want[r].object
    BY <1>2 DEF Commit, IInv, LocalsOK, Locals, Contradicts, TypeOK
  <2>2. Ledger!Update(mine[r], want[r], victim[r])
    BY <1>1, <1>2, <2>1 DEF Commit, Linked, Ledger!Update
  <2>3. QED BY <1>1, <2>1, <2>2 DEF Ledger!Next, Ledger!Ids, Ledger!Facts, Ids, Facts
<1>3. CASE ~Contradicts(r)
  <2>1. Ledger!Add(mine[r], want[r])
    BY <1>1, <1>3 DEF Commit, Ledger!Add
  <2>2. QED BY <1>1, <2>1 DEF Ledger!Next, Ledger!Ids, Ledger!Facts, Ids, Facts
<1>4. QED BY <1>2, <1>3

\* A commit of a delete is the ledger's Delete, although another request may
\* have deactivated the row since it was read.
LEMMA DeleteImplements ==
    ASSUME IInv, NEW r \in Requests, CommitDelete(r)
    PROVE  Ledger!Next
<1>1. victim[r] \in rows /\ victim[r] \in Ids
  BY DEF CommitDelete, IInv, LocalsOK, Locals, TypeOK
<1>2. Ledger!Delete(victim[r])
  BY <1>1 DEF CommitDelete, Ledger!Delete
<1>3. QED BY <1>1, <1>2 DEF Ledger!Next, Ledger!Ids, Ids

\* Every step of the backend is a step of the ledger, or leaves it alone.
LEMMA StepImplements == IInv /\ [Next]_vars => [Ledger!Next]_(Ledger!ledgerVars)
<1> SUFFICES ASSUME IInv, [Next]_vars
             PROVE  Ledger!Next \/ UNCHANGED Ledger!ledgerVars
  OBVIOUS
<1> USE DEF Ledger!ledgerVars
<1>1. ASSUME NEW r \in Requests, Call(r)
      PROVE  Ledger!Next \/ UNCHANGED Ledger!ledgerVars
  <2>1. CASE AddNoop(r)
    <3>1. Ledger!Noop
      BY <2>1 DEF AddNoop, Ledger!Noop
    <3>2. QED BY <3>1 DEF Ledger!Next
  <2>2. CASE ~AddNoop(r)
    BY <1>1, <2>2 DEF Call, AddStart, DeleteStart, DeleteMissing, vars, ledgerVars
  <2>3. QED BY <2>1, <2>2
<1>2. ASSUME NEW r \in Requests, Step(r), ~Commit(r), ~CommitDelete(r)
      PROVE  UNCHANGED Ledger!ledgerVars
  BY <1>2 DEF Step, FindActiveFact, Flush, CloseOld, CloseOldFails, Upsert,
              UpsertFails, CloseDeleted, CloseDeletedFails, AttemptFails, ledgerVars
<1>3. QED
  BY <1>1, <1>2, CommitImplements, DeleteImplements
     DEF Next, Die, Land, vars, ledgerVars

\* The backend implements the ledger: rows are never taken away, changed or
\* reactivated, and each change of the table is one transaction that writes
\* exactly one audit event.
THEOREM ImplementsLedger == Spec => LedgerSpec
<1>1. Init => Ledger!Init
  BY DEF Init, Ledger!Init, Ids, NoId, NoEvents, Ledger!Ids, Ledger!NoId,
         Ledger!NoEvents
<1>2. QED
  BY <1>1, StepImplements, Invariance, PTL DEF Spec, LedgerSpec, Ledger!Spec
=============================================================================
