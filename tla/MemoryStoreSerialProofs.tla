----------------------- MODULE MemoryStoreSerialProofs ----------------------
(***************************************************************************)
(* What the mock backend keeps when its requests come one at a time and    *)
(* nothing fails, for any subjects, objects and number of rows: the graph  *)
(* mirrors the table between requests, an update replaces exactly one row, *)
(* and a contradiction is left active only where a fact had been restated. *)
(* All three hang together: the graph decides which row an update          *)
(* supersedes, so what it mirrors has to be known at every await.          *)
(***************************************************************************)
EXTENDS MCMemoryStore, MemoryStoreGraphProofs, FiniteSetTheorems

\* One request at a time.
Lone == \A q \in Requests \ {SerialRequest} : pc[q] = "idle"

\* The rows with an open edge: the active ones, but for one that is about to
\* get its edge and one that is about to be superseded; and a deleted one
\* until its edge is closed.
HasEdge(m) ==
    \/ /\ m \in isActive
       /\ ~(pc[SerialRequest] = "upsert" /\ mine[SerialRequest] = m)
       /\ ~(pc[SerialRequest] = "commit" /\ Contradicts(SerialRequest)
            /\ victim[SerialRequest] = m)
    \/ pc[SerialRequest] = "delclose" /\ victim[SerialRequest] = m

Mirrored == \A m \in Ids : openEdges[m] = IF HasEdge(m) THEN 1 ELSE 0

ActiveAbout(s) == {m \in isActive : factOf[m].subject = s}

\* What the request has found is the latest active row of its subject, still.
FoundIsLatest ==
    pc[SerialRequest] \in {"flush", "close", "commit"} =>
        LET found == ActiveAbout(want[SerialRequest].subject) IN
        \/ found = {} /\ victim[SerialRequest] = NoId
        \/ victim[SerialRequest] \in found /\ Latest(victim[SerialRequest], found)

\* The row it has flushed is later than all others.
MineIsLatest ==
    pc[SerialRequest] \in {"close", "commit"} =>
        \A m \in rows : m < mine[SerialRequest]

\* The row it deletes or has committed is active.
ActsOnActive ==
    /\ pc[SerialRequest] = "delete" => victim[SerialRequest] \in isActive
    /\ pc[SerialRequest] = "upsert" => mine[SerialRequest] \in isActive

GraphSide == Mirrored /\ FoundIsLatest /\ MineIsLatest /\ ActsOnActive

SerialInv ==
    scope = "serial" /\ ~faulty =>
        /\ Lone
        /\ GraphSide
        /\ ConflictNeedsRestatement
        /\ UpdateReplacesOne

\* What holds of the backend in any scope.
StoreInv == IInv /\ DeletedIsInactive /\ NothingLate

LEMMA StoreInvariance == Spec => []StoreInv
<1>1. Init => StoreInv
  BY InitIInv DEF Init, StoreInv, DeletedIsInactive, NothingLate
<1>2. StoreInv /\ [Next]_vars => StoreInv'
  BY NextIInv, NextDeletedIsInactive, NextNothingLate DEF StoreInv, IInv
<1>3. QED BY <1>1, <1>2, PTL DEF Spec

\* A run of any scope is a behaviour of the backend.
LEMMA ScopesAreBehaviours == MCSpec => Spec
<1>1. MCInit => Init
  BY DEF MCInit
<1>2. [MCNext]_<<vars, scope>> => [Next]_vars
  BY DEF MCNext
<1>3. QED BY <1>1, <1>2, PTL DEF MCSpec, Spec

\* One request at a time: what a step can be.
LEMMA SerialSteps ==
    ASSUME StoreInv, Lone, scope = "serial", [MCNext]_<<vars, scope>>, ~faulty'
    PROVE  /\ Lone'
           /\ \/ UNCHANGED <<rows, isActive, supersededBy, factOf, events, openEdges,
                             requestVars, issued>>
              \/ \E f \in Facts : AddStart(SerialRequest, f)
              \/ \E m \in Ids : DeleteStart(SerialRequest, m)
              \/ QuietStep(SerialRequest)
<1> USE ScopeAssumption
<1>1. TypeOK /\ NothingLate
  BY DEF StoreInv, IInv
<1>2. CASE UNCHANGED <<vars, scope>>
  BY <1>2 DEF vars, ledgerVars, graphVars, requestVars, Lone
<1>3. CASE MCNext
  <2>1. Lone'
    BY <1>3 DEF MCNext, InScope, Lone
  <2>2. \/ UNCHANGED vars
        \/ \E r \in Requests : Call(r) \/ QuietStep(r)
    BY <1>1, <1>3, QuietNext DEF MCNext
  <2>3. ASSUME NEW r \in Requests, QuietStep(r) PROVE r = SerialRequest
    BY <2>3 DEF QuietStep, FindActiveFact, Flush, CloseOld, Commit, Upsert,
                CommitDelete, CloseDeleted, Lone
  <2>4. ASSUME NEW r \in Requests, NEW f \in Facts, AddStart(r, f)
        PROVE  r = SerialRequest
    BY <1>1, <2>1, <2>4 DEF AddStart, Goto, Lone, TypeOK
  <2>5. ASSUME NEW r \in Requests, NEW m \in Ids, DeleteStart(r, m)
        PROVE  r = SerialRequest
    BY <1>1, <2>1, <2>5 DEF DeleteStart, Goto, Lone, TypeOK
  <2>6. ASSUME NEW r \in Requests, NEW m \in Ids, DeleteMissing(r, m) \/ AddNoop(r)
        PROVE  UNCHANGED <<rows, isActive, supersededBy, factOf, events, openEdges,
                           requestVars, issued>>
    BY <2>6 DEF DeleteMissing, AddNoop, vars, ledgerVars, graphVars, requestVars
  <2>7. ASSUME NEW r \in Requests, AddNoop(r)
        PROVE  UNCHANGED <<rows, isActive, supersededBy, factOf, events, openEdges,
                           requestVars, issued>>
    BY <2>7 DEF AddNoop, graphVars
  <2>8. CASE UNCHANGED vars
    BY <2>1, <2>8 DEF vars, ledgerVars, graphVars
  <2>9. QED BY <2>1, <2>2, <2>3, <2>4, <2>5, <2>6, <2>7, <2>8 DEF Call
<1>4. QED BY <1>2, <1>3

\* The parts of the invariant that change only with the table.
LEMMA TableUnchanged ==
    ASSUME ConflictNeedsRestatement, UpdateReplacesOne, ~faulty,
           UNCHANGED <<rows, isActive, supersededBy, factOf, events>>
    PROVE  ConflictNeedsRestatement' /\ UpdateReplacesOne'
BY DEF ConflictNeedsRestatement, UpdateReplacesOne, Rivals

-----------------------------------------------------------------------------
(* The graph's side, one lemma for each step of the request.               *)

\* A call leaves the stores alone; a delete has found its row active.
LEMMA CallKeepsGraphSide ==
    ASSUME StoreInv, GraphSide,
           \/ \E f \in Facts : AddStart(SerialRequest, f)
           \/ \E m \in Ids : DeleteStart(SerialRequest, m)
    PROVE  GraphSide'
<1> USE ScopeAssumption
<1>1. /\ openEdges' = openEdges
      /\ isActive' = isActive
      /\ pc[SerialRequest] = "idle"
      /\ \/ pc'[SerialRequest] = "find"
         \/ pc'[SerialRequest] = "delete" /\ victim'[SerialRequest] \in isActive
  BY DEF AddStart, DeleteStart, Goto, Deletable, ledgerVars, graphVars, StoreInv, IInv,
         TypeOK
<1>2. \A m \in Ids : HasEdge(m)' <=> HasEdge(m)
  BY <1>1 DEF HasEdge
<1>3. QED
  BY <1>1, <1>2 DEF GraphSide, Mirrored, FoundIsLatest, MineIsLatest, ActsOnActive

\* The open edges of a subject are those of its active rows.
LEMMA FindKeepsGraphSide ==
    ASSUME StoreInv, GraphSide, FindActiveFact(SerialRequest)
    PROVE  GraphSide'
<1> USE ScopeAssumption
<1> DEFINE s == want[SerialRequest].subject
<1>1. /\ UNCHANGED <<openEdges, isActive, factOf, want>>
      /\ pc[SerialRequest] = "find"
      /\ pc'[SerialRequest] = "flush"
  BY DEF FindActiveFact, Goto, ledgerVars, graphVars, StoreInv, IInv, TypeOK
<1>2. \A m \in Ids : HasEdge(m)' <=> HasEdge(m)
  BY <1>1 DEF HasEdge
<1>3. OpenAbout(s) = ActiveAbout(s)
  <2>1. \A m \in Ids : openEdges[m] > 0 <=> m \in isActive
    BY <1>1 DEF GraphSide, Mirrored, HasEdge
  <2>2. isActive \subseteq Ids
    BY DEF StoreInv, IInv, TypeOK
  <2>3. QED BY <2>1, <2>2 DEF OpenAbout, ActiveAbout
<1>4. FoundIsLatest'
  <2>1. \/ OpenAbout(s) = {} /\ victim'[SerialRequest] = NoId
        \/ victim'[SerialRequest] \in OpenAbout(s)
              /\ Latest(victim'[SerialRequest], OpenAbout(s))
    BY DEF FindActiveFact, StoreInv, IInv, TypeOK
  <2>2. ActiveAbout(want[SerialRequest].subject)' = ActiveAbout(s)
    BY <1>1 DEF ActiveAbout
  <2>3. QED BY <1>1, <1>3, <2>1, <2>2 DEF FoundIsLatest, Latest
<1>5. QED
  BY <1>1, <1>2, <1>4 DEF GraphSide, Mirrored, MineIsLatest, ActsOnActive

\* The flushed row is later than every committed one.
LEMMA FlushKeepsGraphSide ==
    ASSUME StoreInv, GraphSide, Flush(SerialRequest)
    PROVE  GraphSide'
<1> USE ScopeAssumption
<1>1. /\ UNCHANGED <<openEdges, isActive, factOf, want, victim, rows>>
      /\ pc[SerialRequest] = "flush"
      /\ pc'[SerialRequest] = IF Contradicts(SerialRequest) THEN "close" ELSE "commit"
      /\ mine'[SerialRequest] = issued + 1
  BY DEF Flush, Goto, ledgerVars, graphVars, StoreInv, IInv, TypeOK
<1>2. Contradicts(SerialRequest)' <=> Contradicts(SerialRequest)
  BY <1>1 DEF Contradicts
<1>3. \A m \in Ids : HasEdge(m)' <=> HasEdge(m)
  BY <1>1, <1>2 DEF HasEdge
<1>4. \A m \in rows : m < issued + 1
  BY DEF StoreInv, IInv, RowsStateFacts, TypeOK, Ids
<1>5. QED
  BY <1>1, <1>3, <1>4
     DEF GraphSide, Mirrored, FoundIsLatest, MineIsLatest, ActsOnActive, ActiveAbout,
         Latest

\* The edge that is closed is the one of the row about to be superseded.
LEMMA CloseKeepsGraphSide ==
    ASSUME StoreInv, GraphSide, CloseOld(SerialRequest)
    PROVE  GraphSide'
<1> USE ScopeAssumption
<1>1. /\ UNCHANGED <<isActive, factOf, want, victim, rows, mine>>
      /\ pc[SerialRequest] = "close"
      /\ pc'[SerialRequest] = "commit"
      /\ openEdges' = [openEdges EXCEPT ![victim[SerialRequest]] = 0]
      /\ openEdges \in [Ids -> Nat]
  BY DEF CloseOld, Acknowledged, Applied, Closed, Goto, ledgerVars, StoreInv, IInv,
         TypeOK
<1>2. Contradicts(SerialRequest) /\ Contradicts(SerialRequest)'
  BY <1>1 DEF Contradicts, StoreInv, IInv, LocalsOK, Locals
<1>3. Mirrored'
  <2>1. \A m \in Ids : HasEdge(m)' <=> m \in isActive /\ m # victim[SerialRequest]
    BY <1>1, <1>2 DEF HasEdge
  <2>2. \A m \in Ids : openEdges[m] = IF m \in isActive THEN 1 ELSE 0
    BY <1>1 DEF GraphSide, Mirrored, HasEdge
  <2>3. QED BY <1>1, <2>1, <2>2 DEF Mirrored
<1>4. QED
  BY <1>1, <1>3 DEF GraphSide, FoundIsLatest, MineIsLatest, ActsOnActive, ActiveAbout,
                    Latest

\* The new row has no edge yet, and the superseded one has none any more.
LEMMA CommitKeepsGraphSide ==
    ASSUME StoreInv, GraphSide, Commit(SerialRequest)
    PROVE  GraphSide'
<1> USE ScopeAssumption
<1>1. /\ UNCHANGED <<openEdges, want, victim, mine>>
      /\ pc[SerialRequest] = "commit"
      /\ pc'[SerialRequest] = "upsert"
      /\ isActive' = (isActive \cup {mine[SerialRequest]})
                        \ (IF Contradicts(SerialRequest) THEN {victim[SerialRequest]}
                                                         ELSE {})
  BY DEF Commit, Goto, graphVars, StoreInv, IInv, TypeOK
<1>2. /\ mine[SerialRequest] \notin isActive
      /\ Contradicts(SerialRequest) => victim[SerialRequest] # mine[SerialRequest]
  BY <1>1 DEF StoreInv, IInv, LocalsOK, Locals, TypeOK, Contradicts
<1>3. \A m \in Ids : HasEdge(m)' <=> HasEdge(m)
  BY <1>1, <1>2 DEF HasEdge
<1>4. QED
  BY <1>1, <1>2, <1>3 DEF GraphSide, Mirrored, FoundIsLatest, MineIsLatest, ActsOnActive

\* The new row gets its one edge.
LEMMA UpsertKeepsGraphSide ==
    ASSUME StoreInv, GraphSide, Upsert(SerialRequest)
    PROVE  GraphSide'
<1> USE ScopeAssumption
<1>1. /\ isActive' = isActive
      /\ pc[SerialRequest] = "upsert"
      /\ pc'[SerialRequest] = "idle"
      /\ openEdges' = [openEdges EXCEPT ![mine[SerialRequest]] = @ + 1]
      /\ openEdges \in [Ids -> Nat]
      /\ mine[SerialRequest] \in isActive
  BY DEF Upsert, Acknowledged, Applied, Opened, Return, ledgerVars, StoreInv, IInv,
         TypeOK, GraphSide, ActsOnActive
<1>2. Mirrored'
  <2>1. \A m \in Ids : HasEdge(m)' <=> m \in isActive
    BY <1>1 DEF HasEdge
  <2>2. \A m \in Ids : openEdges[m] =
            IF m \in isActive /\ m # mine[SerialRequest] THEN 1 ELSE 0
    BY <1>1 DEF GraphSide, Mirrored, HasEdge
  <2>3. QED BY <1>1, <2>1, <2>2 DEF Mirrored
<1>3. QED
  BY <1>1, <1>2 DEF GraphSide, FoundIsLatest, MineIsLatest, ActsOnActive

\* The deleted row keeps its edge until it is closed.
LEMMA CommitDeleteKeepsGraphSide ==
    ASSUME StoreInv, GraphSide, CommitDelete(SerialRequest)
    PROVE  GraphSide'
<1> USE ScopeAssumption
<1>1. /\ UNCHANGED <<openEdges, victim>>
      /\ pc[SerialRequest] = "delete"
      /\ pc'[SerialRequest] = "delclose"
      /\ isActive' = isActive \ {victim[SerialRequest]}
      /\ victim[SerialRequest] \in isActive
  BY DEF CommitDelete, Goto, graphVars, StoreInv, IInv, TypeOK, GraphSide, ActsOnActive
<1>2. \A m \in Ids : HasEdge(m)' <=> HasEdge(m)
  BY <1>1 DEF HasEdge
<1>3. QED
  BY <1>1, <1>2 DEF GraphSide, Mirrored, FoundIsLatest, MineIsLatest, ActsOnActive

\* Then it has none.
LEMMA CloseDeletedKeepsGraphSide ==
    ASSUME StoreInv, GraphSide, CloseDeleted(SerialRequest)
    PROVE  GraphSide'
<1> USE ScopeAssumption
<1>1. /\ isActive' = isActive
      /\ pc[SerialRequest] = "delclose"
      /\ pc'[SerialRequest] = "idle"
      /\ openEdges' = [openEdges EXCEPT ![victim[SerialRequest]] = 0]
      /\ openEdges \in [Ids -> Nat]
      /\ victim[SerialRequest] \notin isActive
  BY DEF CloseDeleted, Acknowledged, Applied, Closed, Return, ledgerVars, StoreInv, IInv,
         TypeOK, DeletedIsInactive
<1>2. Mirrored'
  <2>1. \A m \in Ids : HasEdge(m)' <=> m \in isActive
    BY <1>1 DEF HasEdge
  <2>2. \A m \in Ids : openEdges[m] =
            IF m \in isActive \/ m = victim[SerialRequest] THEN 1 ELSE 0
    BY <1>1 DEF GraphSide, Mirrored, HasEdge
  <2>3. QED BY <1>1, <2>1, <2>2 DEF Mirrored
<1>3. QED
  BY <1>1, <1>2 DEF GraphSide, FoundIsLatest, MineIsLatest, ActsOnActive

-----------------------------------------------------------------------------
(* The table's side: what the two commits do to it.                        *)

\* What an add has found, when it commits: nothing is active of its subject,
\* or the row it found is, and no later one.
LEMMA FoundAtCommit ==
    ASSUME StoreInv, GraphSide, Commit(SerialRequest), NEW a \in isActive,
           factOf[a].subject = want[SerialRequest].subject
    PROVE  /\ victim[SerialRequest] \in isActive
           /\ a <= victim[SerialRequest]
           /\ factOf[victim[SerialRequest]].subject = factOf[a].subject
<1>1. a \in ActiveAbout(want[SerialRequest].subject)
  BY DEF ActiveAbout
<1>2. pc[SerialRequest] = "commit"
  BY DEF Commit
<1>3. QED
  BY <1>1, <1>2 DEF GraphSide, FoundIsLatest, ActiveAbout, Latest

\* The row that an add leaves contradicted was followed by one that restates
\* it: either the row it found, or what lies between the two.
LEMMA CommitKeepsRestatement ==
    ASSUME StoreInv, GraphSide, ConflictNeedsRestatement, ~faulty,
           Commit(SerialRequest)
    PROVE  ConflictNeedsRestatement'
<1> USE ScopeAssumption
<1> DEFINE new == mine[SerialRequest]
           found == victim[SerialRequest]
<1> SUFFICES ASSUME NEW a \in Ids, NEW b \in Ids, Rivals(a, b)'
             PROVE  \E k \in rows' : a < k /\ k < b /\ factOf'[k] = factOf'[a]
  BY DEF ConflictNeedsRestatement
<1>1. /\ rows' = rows \cup {new}
      /\ isActive' \subseteq isActive \cup {new}
      /\ Contradicts(SerialRequest) => found \notin isActive'
      /\ new \notin rows
      /\ new \in Ids
      /\ factOf'[new] = want[SerialRequest]
      /\ want[SerialRequest] \in Facts
      /\ \A m \in rows : factOf'[m] = factOf[m] /\ m < new /\ factOf[m] \in Facts
      /\ isActive \subseteq rows
      /\ rows \subseteq Ids
  BY DEF Commit, StoreInv, IInv, LocalsOK, Locals, TypeOK, RowsStateFacts, GraphSide,
         MineIsLatest, NoId
<1>2. \A m \in rows : m \in Nat /\ m # 0
  BY <1>1 DEF Ids
<1>3. ASSUME NEW m \in rows, NEW n \in rows, Rivals(m, n)
      PROVE  \E k \in rows : m < k /\ k < n /\ factOf[k] = factOf[m]
  BY <1>1, <1>3 DEF ConflictNeedsRestatement
<1>4. CASE a # new /\ b # new
  <2>1. a \in rows /\ b \in rows /\ Rivals(a, b)
    BY <1>1, <1>4 DEF Rivals
  <2>2. QED BY <1>1, <1>3, <2>1
<1>5. CASE a = new
  <2>1. b \in rows \/ b = new
    BY <1>1 DEF Rivals
  <2>2. a < b
    BY DEF Rivals
  <2>3. QED BY <1>1, <1>5, <2>1, <2>2 DEF Ids
<1>6. CASE a # new /\ b = new
  <2>1. /\ a \in isActive
        /\ a \in rows
        /\ factOf[a].subject = want[SerialRequest].subject
        /\ factOf[a].object # want[SerialRequest].object
    BY <1>1, <1>6 DEF Rivals
  <2>2. /\ found \in isActive
        /\ found \in rows
        /\ found # NoId
        /\ a <= found
        /\ factOf[found].subject = factOf[a].subject
    <3>1. /\ found \in isActive
          /\ a <= found
          /\ factOf[found].subject = factOf[a].subject
      BY <2>1, FoundAtCommit
    <3>2. found \in rows
      BY <1>1, <3>1
    <3>3. QED BY <1>2, <3>1, <3>2 DEF NoId
  <2>3. a # found
    BY <1>1, <2>1, <2>2 DEF Contradicts, Rivals
  <2>4. a < found /\ found < b
    <3>1. found < new
      BY <1>1, <2>2
    <3>2. a \in Nat /\ found \in Nat
      BY <1>2, <2>1, <2>2
    <3>3. QED BY <1>6, <2>2, <2>3, <3>1, <3>2
  <2>5. CASE factOf[found].object = factOf[a].object
    <3>1. factOf[found] = factOf[a]
      BY <1>1, <2>1, <2>2, <2>5 DEF Facts
    <3>2. QED BY <1>1, <2>1, <2>2, <2>4, <3>1
  <2>6. CASE factOf[found].object # factOf[a].object
    <3>1. Rivals(a, found)
      BY <2>1, <2>2, <2>4, <2>6 DEF Rivals
    <3>2. PICK k \in rows : a < k /\ k < found /\ factOf[k] = factOf[a]
      BY <1>3, <2>1, <2>2, <3>1
    <3>3. k < b
      <4>1. k \in Nat /\ found \in Nat /\ b \in Nat
        BY <1>2, <2>2 DEF Ids
      <4>2. QED BY <2>4, <3>2, <4>1
    <3>4. QED BY <1>1, <2>1, <3>2, <3>3
  <2>7. QED BY <2>5, <2>6
<1>7. QED BY <1>4, <1>5, <1>6

\* The rows that name n as what replaced them.
ReplacedBy(n) == {m \in Ids : supersededBy[m] = n}

\* The row found is active, so nothing has replaced it yet; the new row is
\* new, so it has replaced nothing yet.
LEMMA CommitReplacesOne ==
    ASSUME StoreInv, GraphSide, UpdateReplacesOne, ~faulty, Commit(SerialRequest)
    PROVE  UpdateReplacesOne'
<1> USE ScopeAssumption
<1> DEFINE new == mine[SerialRequest]
           found == victim[SerialRequest]
<1> SUFFICES ASSUME NEW n \in rows'
             PROVE  Cardinality(ReplacedBy(n)') = events'[n].UPDATE
  BY DEF UpdateReplacesOne, ReplacedBy
<1>1. /\ rows' = rows \cup {new}
      /\ new \notin rows
      /\ new \in Ids
      /\ rows \subseteq Ids
      /\ supersededBy \in [Ids -> Ids \cup {NoId}]
      /\ events \in [Ids -> EventCounts]
      /\ pc[SerialRequest] = "commit"
      /\ \A m \in Ids : supersededBy[m] # NoId => supersededBy[m] \in rows
  BY DEF Commit, StoreInv, IInv, LocalsOK, Locals, TypeOK, SupersededByNewer, NoId
<1>2. ReplacedBy(new) = {} /\ events[new].UPDATE = 0
  <2>1. ReplacedBy(new) = {}
    BY <1>1 DEF ReplacedBy, NoId, Ids
  <2>2. events[new].ADD + events[new].UPDATE = 0
    BY <1>1 DEF StoreInv, IInv, AuditExplainsState
  <2>3. events[new].ADD \in Nat /\ events[new].UPDATE \in Nat
    BY <1>1 DEF EventCounts
  <2>4. QED BY <2>1, <2>2, <2>3
<1>3. ASSUME NEW m \in rows PROVE Cardinality(ReplacedBy(m)) = events[m].UPDATE
  BY DEF UpdateReplacesOne, ReplacedBy
<1>4. CASE Contradicts(SerialRequest)
  <2>1. /\ supersededBy' = [supersededBy EXCEPT ![found] = new]
        /\ events' = [events EXCEPT ![new].UPDATE = @ + 1]
    BY <1>4 DEF Commit, Linked
  <2>2. found \in isActive
    BY <1>1, <1>4 DEF Contradicts, GraphSide, FoundIsLatest, ActiveAbout
  <2>3. found \in Ids /\ supersededBy[found] = NoId
    BY <2>2 DEF StoreInv, IInv, AuditExplainsState, TypeOK
  <2>4. CASE n = new
    <3>1. ReplacedBy(n)' = {found}
      BY <1>1, <1>2, <2>1, <2>3, <2>4 DEF ReplacedBy
    <3>2. events'[n].UPDATE = 1
      BY <1>1, <1>2, <2>1, <2>4 DEF EventCounts
    <3>3. QED BY <3>1, <3>2, FS_Singleton
  <2>5. CASE n # new
    <3>1. n \in rows /\ n # NoId
      BY <1>1, <2>5 DEF Ids, NoId
    <3>2. ReplacedBy(n)' = ReplacedBy(n)
      BY <1>1, <2>1, <2>3, <2>5, <3>1 DEF ReplacedBy
    <3>3. events'[n] = events[n]
      BY <1>1, <2>1, <2>5, <3>1
    <3>4. QED BY <1>3, <3>1, <3>2, <3>3
  <2>6. QED BY <2>4, <2>5
<1>5. CASE ~Contradicts(SerialRequest)
  <2>1. /\ supersededBy' = supersededBy
        /\ events' = [events EXCEPT ![new].ADD = @ + 1]
    BY <1>5 DEF Commit
  <2>2. ReplacedBy(n)' = ReplacedBy(n)
    BY <2>1 DEF ReplacedBy
  <2>3. CASE n = new
    <3>1. events'[n].UPDATE = 0
      BY <1>1, <1>2, <2>1, <2>3 DEF EventCounts
    <3>2. QED BY <1>2, <2>2, <2>3, <3>1, FS_EmptySet
  <2>4. CASE n # new
    <3>1. n \in rows /\ events'[n] = events[n]
      BY <1>1, <2>1, <2>4
    <3>2. QED BY <1>3, <2>2, <3>1
  <2>5. QED BY <2>3, <2>4
<1>6. QED BY <1>4, <1>5

\* A delete takes an active row away and counts its own event.
LEMMA DeleteKeepsTable ==
    ASSUME StoreInv, ConflictNeedsRestatement, UpdateReplacesOne, ~faulty,
           CommitDelete(SerialRequest)
    PROVE  ConflictNeedsRestatement' /\ UpdateReplacesOne'
<1>1. /\ UNCHANGED <<rows, supersededBy, factOf>>
      /\ isActive' \subseteq isActive
      /\ events' = [events EXCEPT ![victim[SerialRequest]].DELETE = @ + 1]
  BY DEF CommitDelete
<1>2. ConflictNeedsRestatement'
  BY <1>1 DEF ConflictNeedsRestatement, Rivals
<1>3. \A n \in rows : events'[n].UPDATE = events[n].UPDATE
  BY <1>1 DEF StoreInv, IInv, TypeOK, EventCounts
<1>4. UpdateReplacesOne'
  BY <1>1, <1>3 DEF UpdateReplacesOne
<1>5. QED BY <1>2, <1>4

-----------------------------------------------------------------------------
(* Theorems.                                                               *)

\* An empty store, and no request under way.
LEMMA InitSerialInv == MCInit => SerialInv
<1> SUFFICES ASSUME Init PROVE SerialInv
  BY DEF MCInit
<1>1. Lone /\ GraphSide /\ ConflictNeedsRestatement /\ UpdateReplacesOne
  BY ScopeAssumption
     DEF Init, Lone, GraphSide, Mirrored, HasEdge, FoundIsLatest, MineIsLatest,
         ActsOnActive, ConflictNeedsRestatement, Rivals, UpdateReplacesOne
<1>2. QED BY <1>1 DEF SerialInv

\* Every step of the one request keeps both sides.
LEMMA NextSerialInv ==
    StoreInv /\ SerialInv /\ [MCNext]_<<vars, scope>> => SerialInv'
<1> SUFFICES ASSUME StoreInv, SerialInv, [MCNext]_<<vars, scope>>,
                    scope' = "serial", ~faulty'
             PROVE  /\ Lone'
                    /\ GraphSide'
                    /\ ConflictNeedsRestatement'
                    /\ UpdateReplacesOne'
  BY DEF SerialInv
<1>1. scope = "serial"
  BY DEF MCNext
<1>2. ~faulty
  BY QuietNext DEF MCNext, vars, StoreInv, IInv
<1>3. Lone /\ GraphSide /\ ConflictNeedsRestatement /\ UpdateReplacesOne
  BY <1>1, <1>2 DEF SerialInv
<1>4. /\ Lone'
      /\ \/ UNCHANGED <<rows, isActive, supersededBy, factOf, events, openEdges,
                        requestVars, issued>>
         \/ \E f \in Facts : AddStart(SerialRequest, f)
         \/ \E m \in Ids : DeleteStart(SerialRequest, m)
         \/ QuietStep(SerialRequest)
  BY <1>1, <1>3, SerialSteps
<1>5. CASE UNCHANGED <<rows, isActive, supersededBy, factOf, events, openEdges,
                       requestVars, issued>>
  <2>1. \A m \in Ids : HasEdge(m)' <=> HasEdge(m)
    BY <1>5 DEF HasEdge, Contradicts, requestVars
  <2>2. GraphSide'
    BY <1>3, <1>5, <2>1
       DEF GraphSide, Mirrored, FoundIsLatest, MineIsLatest, ActsOnActive, ActiveAbout,
           Latest, requestVars
  <2>3. QED BY <1>2, <1>3, <1>4, <1>5, <2>2, TableUnchanged
<1>6. CASE \/ \E f \in Facts : AddStart(SerialRequest, f)
           \/ \E m \in Ids : DeleteStart(SerialRequest, m)
  <2>1. UNCHANGED <<rows, isActive, supersededBy, factOf, events>>
    BY <1>6 DEF AddStart, DeleteStart, ledgerVars
  <2>2. QED BY <1>2, <1>3, <1>4, <1>6, <2>1, CallKeepsGraphSide, TableUnchanged
<1>7. CASE Commit(SerialRequest)
  BY <1>2, <1>3, <1>4, <1>7, CommitKeepsGraphSide, CommitKeepsRestatement,
     CommitReplacesOne
<1>8. CASE CommitDelete(SerialRequest)
  BY <1>2, <1>3, <1>4, <1>8, CommitDeleteKeepsGraphSide, DeleteKeepsTable
<1>9. CASE /\ QuietStep(SerialRequest)
           /\ ~Commit(SerialRequest)
           /\ ~CommitDelete(SerialRequest)
  <2>1. UNCHANGED <<rows, isActive, supersededBy, factOf, events>>
    BY <1>9 DEF QuietStep, FindActiveFact, Flush, CloseOld, Upsert, CloseDeleted,
                ledgerVars
  <2>2. GraphSide'
    BY <1>3, <1>9, FindKeepsGraphSide, FlushKeepsGraphSide, CloseKeepsGraphSide,
       UpsertKeepsGraphSide, CloseDeletedKeepsGraphSide DEF QuietStep
  <2>3. QED BY <1>2, <1>3, <1>4, <2>1, <2>2, TableUnchanged
<1>10. QED BY <1>4, <1>5, <1>6, <1>7, <1>8, <1>9

\* It holds in every reachable state.
LEMMA SerialInvariance == MCSpec => [](StoreInv /\ SerialInv)
<1>1. MCSpec => []StoreInv
  BY StoreInvariance, ScopesAreBehaviours, PTL
<1>2. MCSpec => []SerialInv
  BY <1>1, InitSerialInv, NextSerialInv, PTL DEF MCSpec
<1>3. QED BY <1>1, <1>2, PTL

\* Between requests a row has an open edge, and one only, exactly while it is
\* active.
THEOREM GraphMirrorsTableSerially == MCSpec => []SerialGraphMirrorsTable
<1>1. SerialInv => SerialGraphMirrorsTable
  BY ScopeAssumption
     DEF SerialInv, SerialGraphMirrorsTable, GraphMirrorsTable, Quiet, GraphSide,
         Mirrored, HasEdge
<1>2. QED BY <1>1, SerialInvariance, PTL

\* A contradiction survives an update only where a fact was restated, because
\* the update supersedes the latest active row of its subject.
THEOREM ConflictsWereRestated == MCSpec => []SerialConflictNeedsRestatement
<1>1. SerialInv => SerialConflictNeedsRestatement
  BY DEF SerialInv, SerialConflictNeedsRestatement, ConflictNeedsRestatement
<1>2. QED BY <1>1, SerialInvariance, PTL

\* An update's new row is named by the one row it replaced, and other rows by
\* none: the row found is still active when the update commits.
THEOREM UpdatesReplaceOne == MCSpec => []SerialUpdateReplacesOne
<1>1. SerialInv => SerialUpdateReplacesOne
  BY DEF SerialInv, SerialUpdateReplacesOne, UpdateReplacesOne
<1>2. QED BY <1>1, SerialInvariance, PTL
=============================================================================
