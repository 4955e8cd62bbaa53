----------------------- MODULE MemoryStoreGraphProofs -----------------------
(***************************************************************************)
(* What MemoryStore's two stores owe each other: while nothing has failed, *)
(* an active row is linked; and with any failures, one row's upsert leaves *)
(* at most one edge per attempt.                                           *)
(***************************************************************************)
EXTENDS MemoryStoreProofs

\* A request that has committed its delete has deactivated the row, and
\* without a failed attempt there is no write left behind.
DeletedIsInactive ==
    \A r \in Requests : pc[r] = "delclose" => victim[r] \notin isActive

NothingLate ==
    ~faulty => \A w \in Writes, m \in Ids : late[w][m] = 0

LinkInv == IInv /\ DeletedIsInactive /\ NothingLate /\ ActiveRowLinked

\* A row is never reactivated.
LEMMA OnlyCommitActivates ==
    ASSUME [Next]_vars
    PROVE  \/ \E r \in Requests : Commit(r)
           \/ isActive' \subseteq isActive
BY LedgerFrame DEF CommitDelete

\* A request that has committed its delete finds the row inactive for good.
LEMMA NextDeletedIsInactive ==
    IInv /\ DeletedIsInactive /\ [Next]_vars => DeletedIsInactive'
<1> SUFFICES ASSUME IInv, DeletedIsInactive, [Next]_vars,
                    NEW q \in Requests, pc'[q] = "delclose"
             PROVE  victim'[q] \notin isActive'
  BY DEF DeletedIsInactive
<1> TypeOK /\ LocalsOK
  BY DEF IInv
<1>1. CASE pc[q] = "delclose" /\ victim'[q] = victim[q]
  <2>1. victim[q] \in rows /\ victim[q] \notin isActive
    BY <1>1 DEF LocalsOK, Locals, DeletedIsInactive
  <2>2. ASSUME NEW r \in Requests, Commit(r) PROVE isActive' \subseteq isActive \cup {mine[r]}
    BY <2>2 DEF Commit
  <2>3. ASSUME NEW r \in Requests, Commit(r) PROVE mine[r] # victim[q]
    BY <2>1, <2>3 DEF Commit, LocalsOK, Locals
  <2>4. QED BY <1>1, <2>1, <2>2, <2>3, OnlyCommitActivates
<1>2. ASSUME NEW r \in Requests, CommitDelete(r), q = r
      PROVE  victim'[q] \notin isActive'
  BY <1>2 DEF CommitDelete
<1>3. ASSUME NEW r \in Requests, Step(r)
      PROVE  \/ pc[q] = "delclose" /\ victim'[q] = victim[q]
             \/ CommitDelete(r) /\ q = r
  <2>1. CASE FindActiveFact(r) \/ Flush(r) \/ CloseOld(r) \/ Commit(r) \/ CommitDelete(r)
    BY <2>1 DEF FindActiveFact, Flush, CloseOld, Commit, CommitDelete, Goto, TypeOK
  <2>2. CASE Return(r)
    BY <2>2 DEF Return, TypeOK
  <2>3. CASE UNCHANGED <<pc, victim>>
    BY <2>3
  <2>4. QED
    BY <1>3, <2>1, <2>2, <2>3
       DEF Step, CloseOldFails, Upsert, UpsertFails, CloseDeleted, CloseDeletedFails,
           AttemptFails
<1>4. ASSUME NEW r \in Requests, Call(r)
      PROVE  pc[q] = "delclose" /\ victim'[q] = victim[q]
  BY <1>4 DEF Call, AddNoop, AddStart, DeleteStart, DeleteMissing, Goto, TypeOK, vars,
              requestVars
<1>5. ASSUME NEW r \in Requests, Return(r)
      PROVE  pc[q] = "delclose" /\ victim'[q] = victim[q]
  BY <1>5 DEF Return, TypeOK
<1>6. QED
  BY <1>1, <1>2, <1>3, <1>4, <1>5 DEF Next, Die, Land, vars, requestVars

\* The steps of a request none of whose writes fail.
QuietStep(r) ==
    \/ FindActiveFact(r)
    \/ Flush(r)
    \/ CloseOld(r)
    \/ Commit(r)
    \/ Upsert(r)
    \/ CommitDelete(r)
    \/ CloseDeleted(r)

\* Once something has failed it has failed; until then every write was
\* acknowledged and none is left behind.
LEMMA QuietNext ==
    ASSUME TypeOK, NothingLate, [Next]_vars, ~faulty'
    PROVE  /\ ~faulty
           /\ late' = late
           /\ \/ UNCHANGED vars
              \/ \E r \in Requests : Call(r) \/ QuietStep(r)
<1>1. ASSUME NEW r \in Requests, NEW w, NEW m, AttemptFails(r, w, m)
      PROVE  FALSE
  BY <1>1 DEF AttemptFails, Lose
<1>2. ASSUME NEW r \in Requests, Step(r)
      PROVE  QuietStep(r) /\ faulty' = faulty /\ late' = late
  BY <1>1, <1>2
     DEF Step, QuietStep, FindActiveFact, Flush, CloseOld, CloseOldFails, Commit,
         Upsert, UpsertFails, CommitDelete, CloseDeleted, CloseDeletedFails,
         Acknowledged, graphVars
<1>3. ASSUME NEW r \in Requests, Call(r)
      PROVE  faulty' = faulty /\ late' = late
  BY <1>3 DEF Call, AddNoop, AddStart, DeleteStart, DeleteMissing, vars, graphVars
<1>4. ASSUME NEW w \in Writes, NEW m \in Ids, Land(w, m) PROVE FALSE
  BY <1>4 DEF Land, NothingLate
<1>5. ASSUME NEW r \in Requests, Die(r) PROVE FALSE
  BY <1>5 DEF Die
<1>6. CASE UNCHANGED vars
  BY <1>6 DEF vars, graphVars
<1>7. QED
  BY <1>2, <1>3, <1>4, <1>5, <1>6 DEF Next

\* Only a failed attempt leaves a write behind.
LEMMA NextNothingLate == TypeOK /\ NothingLate /\ [Next]_vars => NothingLate'
BY QuietNext DEF NothingLate

\* The two requests an active row without an edge may be waiting for.
Linking(m) == \E r \in Requests : pc[r] = "upsert" /\ mine[r] = m
Replacing(m) ==
    \E r \in Requests : pc[r] = "commit" /\ Contradicts(r) /\ victim[r] = m

\* Only the step that ends the wait takes such a request away.
LEMMA NextActiveRowLinked == LinkInv /\ [Next]_vars => ActiveRowLinked'
<1> SUFFICES ASSUME LinkInv, [Next]_vars, ~faulty', NEW m \in isActive'
             PROVE  openEdges'[m] > 0 \/ Linking(m)' \/ Replacing(m)'
  BY DEF ActiveRowLinked, Linking, Replacing
<1> /\ TypeOK
    /\ LocalsOK
    /\ \A n \in isActive : openEdges[n] > 0 \/ Linking(n) \/ Replacing(n)
  BY QuietNext DEF LinkInv, IInv, ActiveRowLinked, Linking, Replacing
<1>1. ASSUME m \in isActive,
             openEdges' = openEdges,
             factOf' = factOf,
             \A q \in Requests : pc[q] \in {"commit", "upsert"} =>
                 /\ pc'[q] = pc[q]
                 /\ mine'[q] = mine[q]
                 /\ victim'[q] = victim[q]
                 /\ want'[q] = want[q]
      PROVE  openEdges'[m] > 0 \/ Linking(m)' \/ Replacing(m)'
  BY <1>1 DEF Linking, Replacing, Contradicts
<1>2. ASSUME NEW r \in Requests, Call(r)
      PROVE  openEdges'[m] > 0 \/ Linking(m)' \/ Replacing(m)'
  BY <1>1, <1>2
     DEF Call, AddNoop, AddStart, DeleteStart, DeleteMissing, Goto, TypeOK, vars,
         ledgerVars, graphVars, requestVars
<1>3. ASSUME NEW r \in Requests, FindActiveFact(r) \/ Flush(r) \/ CommitDelete(r)
      PROVE  openEdges'[m] > 0 \/ Linking(m)' \/ Replacing(m)'
  BY <1>1, <1>3
     DEF FindActiveFact, Flush, CommitDelete, Goto, TypeOK, ledgerVars, graphVars
<1>4. ASSUME NEW r \in Requests, CloseOld(r)
      PROVE  openEdges'[m] > 0 \/ Linking(m)' \/ Replacing(m)'
  <2>1. /\ m \in isActive
        /\ openEdges' = [openEdges EXCEPT ![victim[r]] = 0]
        /\ factOf' = factOf
        /\ pc' = [pc EXCEPT ![r] = "commit"]
        /\ UNCHANGED <<want, mine, victim>>
        /\ pc[r] = "close"
    BY <1>4 DEF CloseOld, Acknowledged, Applied, Closed, Goto, ledgerVars
  <2>2. CASE m = victim[r]
    <3>1. pc'[r] = "commit" /\ Contradicts(r)' /\ victim'[r] = m
      BY <2>1, <2>2 DEF LocalsOK, Locals, Contradicts, TypeOK
    <3>2. QED BY <3>1 DEF Replacing
  <2>3. CASE m # victim[r]
    <3>1. openEdges'[m] = openEdges[m]
      BY <2>1, <2>3 DEF TypeOK
    <3>2. Linking(m) => Linking(m)'
      BY <2>1 DEF Linking, TypeOK
    <3>3. Replacing(m) => Replacing(m)'
      BY <2>1 DEF Replacing, Contradicts, TypeOK
    <3>4. QED BY <2>1, <3>1, <3>2, <3>3
  <2>4. QED BY <2>2, <2>3
<1>5. ASSUME NEW r \in Requests, Commit(r)
      PROVE  openEdges'[m] > 0 \/ Linking(m)' \/ Replacing(m)'
  <2>1. /\ pc[r] = "commit"
        /\ pc' = [pc EXCEPT ![r] = "upsert"]
        /\ openEdges' = openEdges
        /\ factOf' = [factOf EXCEPT ![mine[r]] = want[r]]
        /\ isActive' \subseteq isActive \cup {mine[r]}
        /\ UNCHANGED <<want, mine, victim>>
    BY <1>5 DEF Commit, Goto, graphVars
  <2>2. CASE m = mine[r]
    <3>1. pc'[r] = "upsert" /\ mine'[r] = m
      BY <2>1, <2>2 DEF TypeOK
    <3>2. QED BY <3>1 DEF Linking
  <2>3. CASE m # mine[r]
    <3>1. m \in isActive
      BY <2>1, <2>3
    <3>2. Linking(m) => Linking(m)'
      BY <2>1 DEF Linking, TypeOK
    <3>3. ASSUME NEW q \in Requests, pc[q] = "commit", Contradicts(q), victim[q] = m
          PROVE  Replacing(m)'
      <4>1. q # r
        BY <1>5, <2>3, <3>3 DEF Commit
      <4>2. pc'[q] = "commit" /\ Contradicts(q)' /\ victim'[q] = m
        BY <2>1, <2>3, <3>3, <4>1 DEF Contradicts, TypeOK
      <4>3. QED BY <4>2 DEF Replacing
    <3>4. Replacing(m) => Replacing(m)'
      BY <3>3 DEF Replacing
    <3>5. QED BY <2>1, <3>1, <3>2, <3>4
  <2>4. QED BY <2>2, <2>3
<1>6. ASSUME NEW r \in Requests, Upsert(r)
      PROVE  openEdges'[m] > 0 \/ Linking(m)' \/ Replacing(m)'
  <2>1. /\ m \in isActive
        /\ m \in Ids
        /\ pc[r] = "upsert"
        /\ factOf' = factOf
        /\ openEdges' = [openEdges EXCEPT ![mine[r]] = @ + 1]
    BY <1>6 DEF Upsert, Acknowledged, Applied, Opened, TypeOK, ledgerVars
  <2>2. CASE m = mine[r]
    BY <2>1, <2>2 DEF TypeOK
  <2>3. CASE m # mine[r]
    <3>1. openEdges'[m] = openEdges[m]
      BY <2>1, <2>3 DEF TypeOK
    <3>2. Linking(m) => Linking(m)'
      BY <1>6, <2>3 DEF Upsert, Return, Linking, TypeOK
    <3>3. Replacing(m) => Replacing(m)'
      BY <1>6, <2>1 DEF Upsert, Return, Replacing, Contradicts, TypeOK
    <3>4. QED BY <2>1, <3>1, <3>2, <3>3
  <2>4. QED BY <2>2, <2>3
<1>7. ASSUME NEW r \in Requests, CloseDeleted(r)
      PROVE  openEdges'[m] > 0 \/ Linking(m)' \/ Replacing(m)'
  <2>1. /\ m \in isActive
        /\ pc[r] = "delclose"
        /\ factOf' = factOf
        /\ openEdges' = [openEdges EXCEPT ![victim[r]] = 0]
    BY <1>7 DEF CloseDeleted, Acknowledged, Applied, Closed, ledgerVars
  <2>2. m # victim[r]
    BY <2>1 DEF LinkInv, DeletedIsInactive
  <2>3. openEdges'[m] = openEdges[m]
    BY <2>1, <2>2 DEF TypeOK
  <2>4. Linking(m) => Linking(m)'
    BY <1>7, <2>1 DEF CloseDeleted, Return, Linking, TypeOK
  <2>5. Replacing(m) => Replacing(m)'
    BY <1>7, <2>1 DEF CloseDeleted, Return, Replacing, Contradicts, TypeOK
  <2>6. QED BY <2>1, <2>3, <2>4, <2>5
<1>8. CASE UNCHANGED vars
  BY <1>1, <1>8 DEF vars, ledgerVars, graphVars, requestVars
<1>9. QED
  BY <1>2, <1>3, <1>4, <1>5, <1>6, <1>7, <1>8, QuietNext DEF LinkInv, QuietStep

\* While nothing has failed, a later contradiction finds every active row, or
\* the request that will link or deactivate it is under way: closing the old
\* edge before the commit opens no other window.
THEOREM ActiveRowsAreLinked == Spec => []ActiveRowLinked
<1>1. Init => LinkInv
  BY InitIInv DEF Init, LinkInv, DeletedIsInactive, NothingLate, ActiveRowLinked
<1>2. LinkInv /\ [Next]_vars => LinkInv'
  BY NextIInv, NextDeletedIsInactive, NextNothingLate, NextActiveRowLinked
     DEF LinkInv, IInv
<1>3. LinkInv => ActiveRowLinked
  BY DEF LinkInv
<1>4. QED
  BY <1>1, <1>2, <1>3, PTL DEF Spec

-----------------------------------------------------------------------------
(* Edges of one row.                                                       *)

\* The edges a row has, and those a write left behind may still give it;
\* before a step and after it.
Edges(m) == openEdges[m] + late["open"][m]
EdgesAfter(m) == openEdges'[m] + late'["open"][m]

\* A row's one upsert has left no more of them than attempts that failed.
UpsertCounted ==
    \A r \in Requests : pc[r] = "upsert" => Edges(mine[r]) <= attempt[r]

\* A row is upserted by the add that committed it, and by no other.
UpsertDistinct ==
    \A r, q \in Requests :
        pc[r] = "upsert" /\ pc[q] = "upsert" /\ mine[r] = mine[q] => r = q

EdgeInv == EdgesPerRow /\ UpsertCounted /\ UpsertDistinct

\* Edges are counted by natural numbers.
LEMMA EdgesAreNat ==
    ASSUME TypeOK, TypeOK'
    PROVE  \A m \in Ids : /\ Edges(m) \in Nat /\ EdgesAfter(m) \in Nat
                          /\ openEdges[m] \in Nat /\ openEdges'[m] \in Nat
                          /\ late["open"][m] \in Nat /\ late'["open"][m] \in Nat
BY BoundsAssumption DEF TypeOK, Edges, EdgesAfter, Writes

\* Steps that add no edge and start no upsert.
LEMMA NoEdgeAdded ==
    ASSUME TypeOK, TypeOK', EdgeInv, LocalsOK,
           \A m \in Ids : EdgesAfter(m) <= Edges(m),
           \A q \in Requests : pc'[q] = "upsert" =>
               pc[q] = "upsert" /\ mine'[q] = mine[q] /\ attempt'[q] = attempt[q]
    PROVE  EdgeInv'
<1>1. ASSUME NEW m \in Ids PROVE EdgesAfter(m) <= MaxAttempts
  <2>1. Edges(m) <= MaxAttempts
    BY DEF EdgeInv, EdgesPerRow, Edges
  <2>2. QED BY <2>1, EdgesAreNat DEF MaxAttempts
<1>2. ASSUME NEW q \in Requests, pc'[q] = "upsert"
      PROVE  EdgesAfter(mine'[q]) <= attempt'[q]
  <2>1. /\ mine[q] \in Ids
        /\ mine'[q] = mine[q]
        /\ Edges(mine[q]) <= attempt[q]
        /\ attempt'[q] = attempt[q]
        /\ attempt[q] \in Nat
    BY <1>2 DEF LocalsOK, Locals, EdgeInv, UpsertCounted, TypeOK, MaxAttempts
  <2>2. QED BY <2>1, EdgesAreNat
<1>3. UpsertDistinct'
  BY DEF EdgeInv, UpsertDistinct
<1>4. QED
  BY <1>1, <1>2, <1>3
     DEF EdgeInv, EdgesPerRow, UpsertCounted, Edges, EdgesAfter, MaxAttempts

\* One attempt of an upsert adds at most one edge, to its own row.
LEMMA OneEdgeAdded ==
    ASSUME TypeOK, TypeOK', EdgeInv, LocalsOK,
           NEW r \in Requests, pc[r] = "upsert",
           EdgesAfter(mine[r]) <= Edges(mine[r]) + 1,
           \A m \in Ids : m # mine[r] => EdgesAfter(m) = Edges(m),
           \A q \in Requests : q # r =>
               pc'[q] = pc[q] /\ mine'[q] = mine[q] /\ attempt'[q] = attempt[q],
           pc'[r] = "upsert" => mine'[r] = mine[r] /\ attempt'[r] = attempt[r] + 1
    PROVE  EdgeInv'
<1>1. /\ mine[r] \in Ids
      /\ attempt[r] \in 0 .. 1
      /\ Edges(mine[r]) <= attempt[r]
  BY DEF LocalsOK, Locals, EdgeInv, UpsertCounted, TypeOK, MaxAttempts
<1>2. ASSUME NEW m \in Ids PROVE EdgesAfter(m) <= MaxAttempts
  <2>1. Edges(m) <= MaxAttempts
    BY DEF EdgeInv, EdgesPerRow, Edges
  <2>2. CASE m = mine[r]
    BY <1>1, <2>2, EdgesAreNat DEF MaxAttempts
  <2>3. CASE m # mine[r]
    BY <2>1, <2>3
  <2>4. QED BY <2>2, <2>3
<1>3. ASSUME NEW q \in Requests, pc'[q] = "upsert"
      PROVE  EdgesAfter(mine'[q]) <= attempt'[q]
  <2>1. CASE q = r
    BY <1>1, <1>3, <2>1, EdgesAreNat
  <2>2. CASE q # r
    <3>1. /\ pc[q] = "upsert"
          /\ mine'[q] = mine[q]
          /\ attempt'[q] = attempt[q]
      BY <1>3, <2>2
    <3>2. /\ mine[q] \in Ids
          /\ mine[q] # mine[r]
          /\ Edges(mine[q]) <= attempt[q]
      BY <2>2, <3>1
         DEF LocalsOK, Locals, EdgeInv, UpsertCounted, UpsertDistinct, TypeOK
    <3>3. QED BY <3>1, <3>2
  <2>3. QED BY <2>1, <2>2
<1>4. UpsertDistinct'
  BY DEF EdgeInv, UpsertDistinct
<1>5. QED
  BY <1>2, <1>3, <1>4
     DEF EdgeInv, EdgesPerRow, UpsertCounted, Edges, EdgesAfter, MaxAttempts

\* An attempt that adds an edge was an upsert's, and was counted by it.
LEMMA NextEdgeInv == IInv /\ EdgeInv /\ [Next]_vars => EdgeInv'
<1> SUFFICES ASSUME IInv, EdgeInv, [Next]_vars PROVE EdgeInv'
  OBVIOUS
<1> TypeOK /\ TypeOK' /\ LocalsOK
  BY NextIInv DEF IInv
<1>1. ASSUME UNCHANGED graphVars PROVE \A m \in Ids : EdgesAfter(m) <= Edges(m)
  BY <1>1, EdgesAreNat DEF graphVars, Edges, EdgesAfter
<1>2. ASSUME NEW m \in Ids, Acknowledged("close", m)
      PROVE  \A n \in Ids : EdgesAfter(n) <= Edges(n)
  <2>1. late' = late /\ \A n \in Ids : openEdges'[n] <= openEdges[n]
    BY <1>2, EdgesAreNat DEF Acknowledged, Applied, Closed, TypeOK
  <2>2. QED BY <2>1, EdgesAreNat DEF Edges, EdgesAfter
<1>3. ASSUME NEW m, AllowFaults, Lose("close", m)
      PROVE  \A n \in Ids : EdgesAfter(n) <= Edges(n)
  <2>1. openEdges' = openEdges /\ late'["open"] = late["open"]
    BY <1>3 DEF Lose, TypeOK, Writes
  <2>2. QED BY <2>1, EdgesAreNat DEF Edges, EdgesAfter
<1>4. ASSUME NEW r \in Requests, Call(r) PROVE EdgeInv'
  BY <1>1, <1>4, NoEdgeAdded
     DEF Call, AddNoop, AddStart, DeleteStart, DeleteMissing, Goto, TypeOK, vars,
         requestVars, graphVars
<1>5. ASSUME NEW r \in Requests,
             FindActiveFact(r) \/ Flush(r) \/ CommitDelete(r)
      PROVE  EdgeInv'
  BY <1>1, <1>5, NoEdgeAdded DEF FindActiveFact, Flush, CommitDelete, Goto, TypeOK
<1>6. ASSUME NEW r \in Requests, Commit(r) PROVE EdgeInv'
  <2>1. /\ pc[r] = "commit"
        /\ mine[r] \in Ids
        /\ mine[r] \notin rows
        /\ pc' = [pc EXCEPT ![r] = "upsert"]
        /\ UNCHANGED <<graphVars, mine, attempt>>
    BY <1>6 DEF Commit, Goto, LocalsOK, Locals, TypeOK, NoId
  <2>2. Edges(mine[r]) = 0
    BY <2>1, EdgesAreNat DEF IInv, OpenEdgesCommitted, Edges
  <2>3. EdgesPerRow'
    BY <2>1 DEF EdgeInv, EdgesPerRow, graphVars, MaxAttempts
  <2>4. ASSUME NEW q \in Requests, pc'[q] = "upsert"
        PROVE  Edges(mine[q]) <= attempt[q]
    <3>1. CASE q = r
      BY <2>2, <3>1 DEF TypeOK, MaxAttempts
    <3>2. CASE q # r
      BY <2>1, <2>4, <3>2 DEF EdgeInv, UpsertCounted, TypeOK
    <3>3. QED BY <3>1, <3>2
  <2>5. UpsertCounted'
    BY <2>1, <2>4 DEF UpsertCounted, Edges, graphVars
  <2>6. \A q \in Requests : pc[q] = "upsert" => mine[q] # mine[r]
    BY <2>1 DEF LocalsOK, Locals
  <2>7. UpsertDistinct'
    BY <2>1, <2>6 DEF EdgeInv, UpsertDistinct, TypeOK
  <2>8. QED BY <2>3, <2>5, <2>7 DEF EdgeInv
<1>7. ASSUME NEW r \in Requests, CloseOld(r) \/ CloseDeleted(r) PROVE EdgeInv'
  <2>1. victim[r] \in Ids
    BY <1>7 DEF CloseOld, CloseDeleted, LocalsOK, Locals, Contradicts, TypeOK
  <2>2. \A n \in Ids : EdgesAfter(n) <= Edges(n)
    BY <1>2, <1>7, <2>1 DEF CloseOld, CloseDeleted
  <2>3. QED
    BY <1>7, <2>2, NoEdgeAdded DEF CloseOld, CloseDeleted, Goto, Return, TypeOK
<1>8. ASSUME NEW r \in Requests, CloseOldFails(r) \/ CloseDeletedFails(r)
      PROVE  EdgeInv'
  <2>1. \A n \in Ids : EdgesAfter(n) <= Edges(n)
    BY <1>3, <1>8 DEF CloseOldFails, CloseDeletedFails, AttemptFails, Lose
  <2>2. QED
    BY <1>8, <2>1, NoEdgeAdded
       DEF CloseOldFails, CloseDeletedFails, AttemptFails, Return, TypeOK
<1>9. ASSUME NEW r \in Requests, Upsert(r) PROVE EdgeInv'
  <2>1. pc[r] = "upsert" /\ mine[r] \in Ids
    BY <1>9 DEF Upsert, LocalsOK, Locals, TypeOK
  <2>2. late' = late /\ openEdges' = [openEdges EXCEPT ![mine[r]] = @ + 1]
    BY <1>9 DEF Upsert, Acknowledged, Applied, Opened
  <2>3. /\ EdgesAfter(mine[r]) <= Edges(mine[r]) + 1
        /\ \A m \in Ids : m # mine[r] => EdgesAfter(m) = Edges(m)
    BY <2>1, <2>2, EdgesAreNat DEF Edges, EdgesAfter, TypeOK
  <2>4. QED
    BY <1>9, <2>1, <2>3, OneEdgeAdded DEF Upsert, Return, TypeOK
<1>10. ASSUME NEW r \in Requests, UpsertFails(r) PROVE EdgeInv'
  <2>1. pc[r] = "upsert" /\ mine[r] \in Ids
    BY <1>10 DEF UpsertFails, LocalsOK, Locals, TypeOK
  <2>2. /\ openEdges' = openEdges
        /\ \/ late' = late
           \/ late' = [late EXCEPT !["open"][mine[r]] = @ + 1]
    BY <1>10 DEF UpsertFails, AttemptFails, Lose
  <2>3. /\ EdgesAfter(mine[r]) <= Edges(mine[r]) + 1
        /\ \A m \in Ids : m # mine[r] => EdgesAfter(m) = Edges(m)
    BY <2>1, <2>2, EdgesAreNat DEF Edges, EdgesAfter, TypeOK, Writes
  <2>4. QED
    BY <1>10, <2>1, <2>3, OneEdgeAdded
       DEF UpsertFails, AttemptFails, Return, TypeOK
<1>11. ASSUME NEW w \in Writes, NEW m \in Ids, Land(w, m) PROVE EdgeInv'
  <2>1. \A n \in Ids : EdgesAfter(n) <= Edges(n)
    <3>1. CASE w = "open"
      BY <1>11, <3>1, EdgesAreNat
         DEF Land, Applied, Opened, Edges, EdgesAfter, TypeOK, Writes
    <3>2. CASE w = "close"
      BY <1>11, <3>2, EdgesAreNat
         DEF Land, Applied, Closed, Edges, EdgesAfter, TypeOK, Writes
    <3>3. QED BY <3>1, <3>2 DEF Writes
  <2>2. QED BY <1>11, <2>1, NoEdgeAdded DEF Land, requestVars
<1>12. ASSUME NEW r \in Requests, Die(r) PROVE EdgeInv'
  BY <1>1, <1>12, NoEdgeAdded DEF Die, Return, TypeOK
<1>13. CASE UNCHANGED vars
  BY <1>1, <1>13, NoEdgeAdded DEF vars, requestVars
<1>14. QED
  BY <1>4, <1>5, <1>6, <1>7, <1>8, <1>9, <1>10, <1>11, <1>12, <1>13 DEF Next, Step

\* The upsert's CREATE is retried and an attempt that timed out may still be
\* carried out; even so a row never has more open edges than attempts.
THEOREM EdgesAreBounded == Spec => []EdgesPerRow
<1>1. Init => IInv /\ EdgeInv
  <2>1. Init => EdgeInv
    BY DEF Init, EdgeInv, EdgesPerRow, UpsertCounted, UpsertDistinct, MaxAttempts, Writes
  <2>2. QED BY <2>1, InitIInv
<1>2. IInv /\ EdgeInv /\ [Next]_vars => (IInv /\ EdgeInv)'
  BY NextIInv, NextEdgeInv
<1>3. IInv /\ EdgeInv => EdgesPerRow
  BY DEF EdgeInv
<1>4. QED BY <1>1, <1>2, <1>3, PTL DEF Spec
=============================================================================
