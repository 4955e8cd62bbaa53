-------------------------- MODULE Mem0MirrorProofs --------------------------
(***************************************************************************)
(* What is true of the Mem0 backend's three stores for any number of       *)
(* requests, any texts and any answers.  However requests overlap,         *)
(* deadlock, fail or die, the audit trail accounts for every row, and      *)
(* unless some request has been rolled back no memory is lost and no edge  *)
(* is left without a row; the argument is about what a request holds at    *)
(* each await.  While requests come one at a time, the audit trail replays *)
(* to the rows, and unless one has been rolled back the three stores       *)
(* agree; the argument is about the one request in flight, and how far it  *)
(* has come with each item of its answer.                                  *)
(***************************************************************************)
EXTENDS Mem0Mirror, FiniteSetTheorems, TLAPS

States == {"idle", "get", "flush", "close", "upsert", "next", "commit",
           "remote", "delete", "delclose"}
InLoop == {"get", "flush", "close", "upsert", "next"}
Deleting == {"remote", "delete", "delclose"}

Typed ==
    /\ issued \in 0 .. MaxIds
    /\ rows \in [Ids -> Rows]
    /\ lastEvent \in [Ids -> Events \cup {"none"}]
    /\ lastSaid \in [Ids -> Contents \cup {NoContent}]
    /\ deleted \subseteq Ids
    /\ openEdges \in [Ids -> [Facts -> Nat]]
    /\ pc \in [Requests -> States]
    /\ items \in [Requests -> Seq(Items)]
    /\ seen \in [Requests -> Rows]
    /\ tx \in [Requests -> SUBSET Changes]

\* An ADD or UPDATE says something.
Says(i) == i.event # "DELETE" => i.memory \in Contents

\* What a flushed change tells of the row it is about: a row that was there
\* when it was read stays, since rows are not deleted.
Grounded(t) ==
    /\ Says(t.item)
    /\ t.item.event # "DELETE" => t.how # "none" /\ ~t.loose
    /\ t.worded => t.item.event # "DELETE"
    /\ t.how = "insert" => t.item.event # "DELETE" /\ t.turned /\ t.worded
    /\ t.how = "update" => ~t.loose
    /\ ~t.loose /\ t.how # "insert" => rows[t.item.id] # NoRow

AllGrounded == \A r \in Requests : \A t \in tx[r] : Grounded(t)

\* What a request has in hand at each await.
Hand(r) ==
    /\ \A k \in DOMAIN items[r] : Says(items[r][k])
    /\ pc[r] = "idle" => items[r] = <<>> /\ tx[r] = {}
    /\ pc[r] = "commit" => items[r] = <<>>
    /\ pc[r] \in InLoop \cup Deleting => items[r] # <<>>
    /\ pc[r] \in Deleting =>
            /\ tx[r] = {}
            /\ \A k \in DOMAIN items[r] : items[r][k].event = "DELETE"
            /\ rows[Item(r).id] # NoRow
    /\ pc[r] = "flush" /\ seen[r] # NoRow => rows[Item(r).id] # NoRow
    /\ pc[r] \in {"close", "upsert", "next"} => \E t \in tx[r] : t.item = Item(r)
    /\ pc[r] = "upsert" => Item(r).event # "DELETE"

Hands == \A r \in Requests : Hand(r)

\* What AuditExplainsRows says but for the text.
EndsAudited ==
    \A m \in Ids :
        /\ rows[m] # NoRow /\ ~rows[m].active => m \in deleted
        /\ rows[m] = NoRow => lastEvent[m] = "none"

IInv ==
    /\ Typed
    /\ AllGrounded
    /\ Hands
    /\ EndsAudited
    /\ NothingLost
    /\ OpenEdgesAccountedFor

-----------------------------------------------------------------------------
LEMMA RowTypes ==
    /\ NoRow \in Rows
    /\ \A s \in Rows : s.content \in Contents \cup {NoContent} /\ s.active \in BOOLEAN
    /\ \A s \in Rows : (s # NoRow) <=> (s.content \in Contents)
    /\ \A c \in Contents, a \in BOOLEAN :
            [content |-> c, active |-> a] \in Rows \ {NoRow}
<1>1. NoRow \in Rows /\ NoRow.content = NoContent /\ NoRow.active = FALSE
  BY DEF Rows, NoRow
<1>2. NoContent \notin Contents
  BY TextsAssumption DEF Contents
<1>3. ASSUME NEW s \in Rows, s # NoRow
      PROVE  s.content \in Contents /\ s.active \in BOOLEAN
  BY <1>3 DEF Rows
<1>4. ASSUME NEW c \in Contents, NEW a \in BOOLEAN
      PROVE  [content |-> c, active |-> a] \in Rows \ {NoRow}
  <2>1. [content |-> c, active |-> a].content # NoRow.content
    BY <1>1, <1>2
  <2>2. QED BY <2>1 DEF Rows
<1>5. QED BY <1>1, <1>2, <1>3, <1>4

LEMMA ItemIsItem ==
    ASSUME Typed, NEW r \in Requests, items[r] # <<>>
    PROVE  /\ Item(r) \in Items
           /\ Item(r) = items[r][1] /\ 1 \in DOMAIN items[r]
           /\ Item(r).id \in Ids /\ Item(r).event \in Events
<1>1. items[r] \in Seq(Items)
  BY DEF Typed
<1>2. Item(r) = items[r][1] /\ 1 \in DOMAIN items[r] /\ items[r][1] \in Items
  BY <1>1 DEF Item
<1>3. QED BY <1>2 DEF Items

LEMMA InitInv == Init => IInv
<1> SUFFICES ASSUME Init PROVE IInv
  OBVIOUS
<1> USE DEF Init
<1>1. Typed
  BY BoundsAssumption, RowTypes DEF Typed, States
<1>2. AllGrounded
  BY DEF AllGrounded
<1>3. Hands
  BY DEF Hands, Hand, InLoop, Deleting
<1>4. EndsAudited
  BY DEF EndsAudited, NoRow
<1>5. NothingLost
  BY DEF NothingLost
<1>6. OpenEdgesAccountedFor
  BY DEF OpenEdgesAccountedFor
<1>7. QED BY <1>1, <1>2, <1>3, <1>4, <1>5, <1>6 DEF IInv

\* A request that changes nothing but itself keeps what is true of the others.
LEMMA OthersKept ==
    ASSUME IInv, NEW r \in Requests,
           \A m \in Ids : rows[m] # NoRow => rows'[m] # NoRow,
           \A q \in Requests : q # r => /\ pc'[q] = pc[q] /\ items'[q] = items[q]
                                        /\ seen'[q] = seen[q] /\ tx'[q] = tx[q]
    PROVE  \A q \in Requests : q # r => Hand(q)' /\ \A t \in tx'[q] : Grounded(t)'
<1> SUFFICES ASSUME NEW q \in Requests, q # r
             PROVE  Hand(q)' /\ \A t \in tx'[q] : Grounded(t)'
  OBVIOUS
<1>1. ASSUME NEW t \in tx'[q] PROVE Grounded(t)'
  <2>1. Grounded(t) /\ t.item.id \in Ids
    BY <1>1 DEF IInv, AllGrounded, Typed, Changes, Items
  <2>2. QED BY <2>1 DEF Grounded, Says
<1>2. Hand(q)'
  <2>1. Item(q)' = Item(q)
    BY DEF Item
  <2>2. items[q] # <<>> => Item(q).id \in Ids
    BY ItemIsItem DEF IInv
  <2>3. Hand(q)
    BY DEF IInv, Hands
  <2>4. pc[q] \in Deleting \/ pc[q] = "flush" => items[q] # <<>>
    BY <2>3 DEF Hand, InLoop
  <2>5. QED BY <2>1, <2>2, <2>3, <2>4 DEF Hand, Says
<1>3. QED BY <1>1, <1>2

-----------------------------------------------------------------------------
\* A step that commits nothing: the request keeps what it has flushed and
\* what it has still to add, and opens edges only of what it has flushed.
LEMMA Uncommitted ==
    ASSUME IInv, NEW r \in Requests, Typed',
           UNCHANGED <<issued, rows, lastEvent, lastSaid, deleted>>,
           ~troubled' => ~troubled,
           \A q \in Requests : q # r => /\ pc'[q] = pc[q] /\ items'[q] = items[q]
                                        /\ seen'[q] = seen[q] /\ tx'[q] = tx[q],
           Hand(r)', \A t \in tx'[r] : Grounded(t)',
           tx[r] \subseteq tx'[r],
           \A k \in DOMAIN items[r] : items[r][k].event = "ADD" =>
              \/ \E l \in DOMAIN items'[r] : items'[r][l] = items[r][k]
              \/ \E t \in tx'[r] : t.item = items[r][k],
           \A m \in Ids, f \in Facts :
              openEdges'[m][f] > 0 => openEdges[m][f] > 0 \/ Holds(r, m)'
    PROVE  IInv'
<1>1. AllGrounded' /\ Hands'
  BY OthersKept DEF AllGrounded, Hands
<1>2. EndsAudited'
  BY DEF IInv, EndsAudited
<1>3. NothingLost'
  <2> SUFFICES ASSUME ~troubled', NEW m \in 1 .. issued, rows[m] = NoRow
               PROVE  \E q \in Requests :
                         \/ \E t \in tx'[q] : t.item.id = m /\ t.item.event = "ADD"
                         \/ \E k \in DOMAIN items'[q] : /\ items'[q][k].id = m
                                                       /\ items'[q][k].event = "ADD"
    BY DEF NothingLost
  <2>1. PICK q \in Requests :
           \/ \E t \in tx[q] : t.item.id = m /\ t.item.event = "ADD"
           \/ \E k \in DOMAIN items[q] : items[q][k].id = m /\ items[q][k].event = "ADD"
    BY DEF IInv, NothingLost
  <2>2. CASE q # r
    BY <2>1, <2>2
  <2>3. CASE q = r
    BY <2>1, <2>3
  <2>4. QED BY <2>2, <2>3
<1>4. \A q \in Requests, m \in Ids : Holds(q, m) => Holds(q, m)'
  BY DEF Holds
<1>5. OpenEdgesAccountedFor'
  BY <1>4 DEF IInv, OpenEdgesAccountedFor
<1>6. QED BY <1>1, <1>2, <1>3, <1>5 DEF IInv

LEMMA RaiseInv ==
    ASSUME IInv, NEW r \in Requests, Raise(r), openEdges' \in [Ids -> [Facts -> Nat]]
    PROVE  IInv'
<1>1. /\ pc' = [pc EXCEPT ![r] = "idle"]
      /\ items' = [items EXCEPT ![r] = <<>>]
      /\ seen' = [seen EXCEPT ![r] = NoRow]
      /\ tx' = [tx EXCEPT ![r] = {}]
      /\ troubled' = TRUE
      /\ UNCHANGED <<issued, rows, lastEvent, lastSaid, deleted>>
  BY DEF Raise, Return, Goto, mem0Vars, pgVars
<1>2. Typed'
  BY <1>1, RowTypes DEF IInv, Typed, States
<1>3. \A q \in Requests : q # r => /\ pc'[q] = pc[q] /\ items'[q] = items[q]
                                   /\ seen'[q] = seen[q] /\ tx'[q] = tx[q]
  BY <1>1
<1>4. pc'[r] = "idle" /\ items'[r] = <<>> /\ tx'[r] = {}
  BY <1>1 DEF IInv, Typed
<1>5. Hand(r)'
  BY <1>4 DEF Hand, InLoop, Deleting
<1>6. AllGrounded' /\ Hands'
  BY <1>1, <1>3, <1>4, <1>5, OthersKept DEF AllGrounded, Hands
<1>7. QED BY <1>1, <1>2, <1>6
      DEF IInv, EndsAudited, NothingLost, OpenEdgesAccountedFor

LEMMA ClosedType ==
    ASSUME Typed, NEW i \in Ids
    PROVE  /\ Closed(i) \in [Ids -> [Facts -> Nat]]
           /\ \A m \in Ids, f \in Facts : Closed(i)[m][f] > 0 => openEdges[m][f] > 0
BY DEF Typed, Closed

LEMMA OpenedType ==
    ASSUME Typed, NEW i \in Ids, NEW g \in Facts, NEW n \in Nat
    PROVE  /\ Opened(i, g, n) \in [Ids -> [Facts -> Nat]]
           /\ \A m \in Ids, f \in Facts : m # i => Opened(i, g, n)[m][f] = openEdges[m][f]
BY DEF Typed, Opened

\* All the ways in which a request is rolled back.
LEMMA TroubleInv ==
    ASSUME IInv, NEW r \in Requests,
           \/ Die(r) \/ AbortDeadlocked(r) \/ FlushConflict(r) \/ GraphFails(r)
           \/ AnswerUnreadable(r) \/ RemoteMissing(r)
    PROVE  IInv'
<1>1. CASE GraphFails(r)
  <2>1. Raise(r) /\ pc[r] \in {"close", "delclose", "upsert"}
    BY <1>1 DEF GraphFails
  <2>2. Item(r).id \in Ids
    BY <2>1, ItemIsItem DEF IInv, Hands, Hand, InLoop, Deleting
  <2>3. openEdges' \in [Ids -> [Facts -> Nat]]
    <3>1. \/ openEdges' = Closed(Item(r).id)
          \/ /\ Item(r).memory \in Facts
             /\ \E n \in 1 .. 2 : openEdges' = Opened(Item(r).id, Item(r).memory, n)
      BY <1>1 DEF GraphFails
    <3>2. 1 .. 2 \subseteq Nat
      OBVIOUS
    <3>3. QED BY <2>2, <3>1, <3>2, ClosedType, OpenedType DEF IInv
  <2>4. QED BY <2>1, <2>3, RaiseInv
<1>2. CASE ~GraphFails(r)
  <2>1. Raise(r) /\ openEdges' = openEdges
    BY <1>2 DEF Die, AbortDeadlocked, FlushConflict, AnswerUnreadable, RemoteMissing
  <2>2. openEdges' \in [Ids -> [Facts -> Nat]]
    BY <2>1 DEF IInv, Typed
  <2>3. QED BY <2>1, <2>2, RaiseInv
<1>3. QED BY <1>1, <1>2

LEMMA GetRowInv ==
    ASSUME IInv, NEW r \in Requests, GetRow(r)
    PROVE  IInv'
<1>1. /\ pc[r] = "get"
      /\ pc' = [pc EXCEPT ![r] = "flush"]
      /\ seen' = [seen EXCEPT ![r] = rows[Item(r).id]]
      /\ UNCHANGED <<issued, rows, lastEvent, lastSaid, deleted, openEdges, items, tx, troubled>>
  BY DEF GetRow, Goto, mem0Vars, pgVars, historyVars
<1>2. items[r] # <<>> /\ Item(r).id \in Ids
  BY <1>1, ItemIsItem DEF IInv, Hands, Hand, InLoop
<1>3. Typed'
  BY <1>1, <1>2 DEF IInv, Typed, States
<1>4. \A q \in Requests : q # r => pc'[q] = pc[q] /\ seen'[q] = seen[q]
  BY <1>1
<1>5. pc'[r] = "flush" /\ seen'[r] = rows[Item(r).id] /\ Item(r)' = Item(r)
  BY <1>1 DEF IInv, Typed, Item
<1>6. Hand(r)
  BY DEF IInv, Hands
<1>7. Hand(r)'
  BY <1>1, <1>2, <1>5, <1>6 DEF Hand, InLoop, Deleting, Says
<1>8. \A t \in tx'[r] : Grounded(t)'
  BY <1>1 DEF IInv, AllGrounded, Grounded, Says
<1>9. QED BY <1>1, <1>3, <1>4, <1>7, <1>8, Uncommitted

LEMMA FlushRowInv ==
    ASSUME IInv, NEW r \in Requests, FlushRow(r)
    PROVE  IInv'
<1> DEFINE i == Item(r)
           s == seen[r]
           t == [item |-> i, how |-> How(i, s), worded |-> Worded(i, s),
                 turned |-> Turned(i, s), loose |-> Loose(i, s)]
<1>1. /\ pc[r] = "flush"
      /\ pc' = [pc EXCEPT ![r] = IF Closes(i) THEN "close" ELSE "upsert"]
      /\ tx' = [tx EXCEPT ![r] = @ \cup {t}]
      /\ UNCHANGED <<issued, rows, lastEvent, lastSaid, deleted, openEdges, items, seen, troubled>>
  BY DEF FlushRow, Goto, mem0Vars, pgVars, historyVars
<1>2. Hand(r)
  BY DEF IInv, Hands
<1>3. items[r] # <<>> /\ i \in Items /\ i.id \in Ids /\ i.event \in Events /\ Says(i)
  BY <1>1, <1>2, ItemIsItem DEF IInv, Hand, InLoop
<1>4. /\ s \in Rows /\ s.active \in BOOLEAN /\ NoRow.active = FALSE
      /\ NoRow.content \notin Contents
  BY RowTypes DEF IInv, Typed, NoRow
<1>5. s # NoRow => rows[i.id] # NoRow
  BY <1>1, <1>2 DEF Hand
<1>6. t \in Changes
  <2>1. How(i, s) \in {"insert", "update", "none"}
    BY DEF How
  <2>2. {Worded(i, s), Turned(i, s), Loose(i, s)} \subseteq BOOLEAN
    BY DEF Worded, Turned, Loose
  <2>3. QED BY <1>3, <2>1, <2>2 DEF Changes
<1>7. Grounded(t)
  <2>1. /\ t.item = i /\ t.how = How(i, s) /\ t.worded = Worded(i, s)
        /\ t.turned = Turned(i, s) /\ t.loose = Loose(i, s)
    OBVIOUS
  <2>2. CASE i.event = "DELETE"
    BY <1>3, <1>4, <1>5, <2>1, <2>2 DEF Grounded, How, Worded, Turned, Loose
  <2>3. CASE i.event # "DELETE"
    <3>1. s = NoRow => Worded(i, s)
      BY <1>3, <1>4, <2>3 DEF Worded, Says
    <3>2. QED
      BY <1>3, <1>4, <1>5, <2>1, <2>3, <3>1 DEF Grounded, How, Worded, Turned, Loose
  <2>4. QED BY <2>2, <2>3
<1>8. Typed'
  <2>1. pc' \in [Requests -> States]
    BY <1>1 DEF IInv, Typed, States
  <2>2. tx' \in [Requests -> SUBSET Changes]
    <3>1. tx[r] \cup {t} \in SUBSET Changes
      BY <1>6 DEF IInv, Typed
    <3>2. tx' = [tx EXCEPT ![r] = tx[r] \cup {t}]
      BY <1>1
    <3> HIDE DEF t
    <3>3. QED BY <3>1, <3>2 DEF IInv, Typed
  <2>3. QED BY <1>1, <2>1, <2>2 DEF IInv, Typed
<1>9. /\ \A q \in Requests : q # r => pc'[q] = pc[q] /\ tx'[q] = tx[q]
      /\ tx'[r] = tx[r] \cup {t}
      /\ pc'[r] = IF Closes(i) THEN "close" ELSE "upsert"
      /\ Item(r)' = i
  BY <1>1 DEF IInv, Typed, Item
<1>10. Hand(r)'
  <2>1. t \in tx'[r] /\ t.item = Item(r)'
    BY <1>9
  <2>2. pc'[r] = "upsert" => i.event # "DELETE"
    BY <1>9 DEF Closes
  <2>3. pc'[r] \in {"close", "upsert"}
    BY <1>9
  <2> HIDE DEF t
  <2>4. QED BY <1>1, <1>2, <1>3, <1>9, <2>1, <2>2, <2>3 DEF Hand, InLoop, Deleting, Says
<1>11. \A u \in tx'[r] : Grounded(u)'
  <2> SUFFICES ASSUME NEW u \in tx'[r] PROVE Grounded(u)'
    OBVIOUS
  <2>1. Grounded(u)
    BY <1>7, <1>9 DEF IInv, AllGrounded
  <2>2. QED BY <1>1, <2>1 DEF Grounded, Says
<1>12. QED BY <1>1, <1>8, <1>9, <1>10, <1>11, Uncommitted

LEMMA GraphCloseInv ==
    ASSUME IInv, NEW r \in Requests, GraphClose(r)
    PROVE  IInv'
<1>1. /\ pc[r] = "close"
      /\ pc' = [pc EXCEPT ![r] = IF Item(r).event = "DELETE" THEN "next" ELSE "upsert"]
      /\ openEdges' = Closed(Item(r).id)
      /\ UNCHANGED <<issued, rows, lastEvent, lastSaid, deleted, items, seen, tx, troubled>>
  BY DEF GraphClose, Goto, mem0Vars, pgVars, historyVars
<1>2. Hand(r)
  BY DEF IInv, Hands
<1>3. items[r] # <<>> /\ Item(r).id \in Ids
  BY <1>1, <1>2, ItemIsItem DEF IInv, Hand, InLoop
<1>4. Typed'
  BY <1>1, <1>3, ClosedType DEF IInv, Typed, States
<1>5. /\ \A q \in Requests : q # r => pc'[q] = pc[q]
      /\ pc'[r] = IF Item(r).event = "DELETE" THEN "next" ELSE "upsert"
      /\ Item(r)' = Item(r)
  BY <1>1 DEF IInv, Typed, Item
<1>6. Hand(r)'
  BY <1>1, <1>2, <1>3, <1>5 DEF Hand, InLoop, Deleting, Says
<1>7. \A t \in tx'[r] : Grounded(t)'
  BY <1>1 DEF IInv, AllGrounded, Grounded, Says
<1>8. \A m \in Ids, f \in Facts : openEdges'[m][f] > 0 => openEdges[m][f] > 0
  BY <1>1, <1>3, ClosedType DEF IInv
<1>9. QED BY <1>1, <1>4, <1>5, <1>6, <1>7, <1>8, Uncommitted

LEMMA GraphUpsertInv ==
    ASSUME IInv, NEW r \in Requests, GraphUpsert(r)
    PROVE  IInv'
<1>1. /\ pc[r] = "upsert"
      /\ pc' = [pc EXCEPT ![r] = "next"]
      /\ \/ openEdges' = openEdges
         \/ /\ Item(r).memory \in Facts
            /\ \E n \in Nat : openEdges' = Opened(Item(r).id, Item(r).memory, n)
      /\ UNCHANGED <<issued, rows, lastEvent, lastSaid, deleted, items, seen, tx, troubled>>
  BY DEF GraphUpsert, Goto, mem0Vars, pgVars
<1>2. Hand(r)
  BY DEF IInv, Hands
<1>3. items[r] # <<>> /\ Item(r).id \in Ids
  BY <1>1, <1>2, ItemIsItem DEF IInv, Hand, InLoop
<1>4. openEdges' \in [Ids -> [Facts -> Nat]]
  <2>1. CASE openEdges' = openEdges
    BY <2>1 DEF IInv, Typed
  <2>2. QED BY <1>1, <1>3, <2>1, OpenedType DEF IInv
<1>5. Typed'
  BY <1>1, <1>4 DEF IInv, Typed, States
<1>6. /\ \A q \in Requests : q # r => pc'[q] = pc[q]
      /\ pc'[r] = "next" /\ Item(r)' = Item(r)
  BY <1>1 DEF IInv, Typed, Item
<1>7. Hand(r)'
  BY <1>1, <1>2, <1>3, <1>6 DEF Hand, InLoop, Deleting, Says
<1>8. \A t \in tx'[r] : Grounded(t)'
  BY <1>1 DEF IInv, AllGrounded, Grounded, Says
<1>9. \A m \in Ids : m = Item(r).id => Holds(r, m)'
  <2>1. PICK t \in tx[r] : t.item = Item(r)
    BY <1>1, <1>2 DEF Hand
  <2>2. t.how # "none"
    BY <1>1, <1>2, <2>1 DEF Hand, IInv, AllGrounded, Grounded
  <2>3. QED BY <1>1, <2>1, <2>2 DEF Holds
<1>10. ASSUME NEW m \in Ids, NEW f \in Facts, openEdges'[m][f] > 0
       PROVE  openEdges[m][f] > 0 \/ Holds(r, m)'
  <2>1. CASE m = Item(r).id
    BY <1>9, <2>1
  <2>2. CASE m # Item(r).id
    <3>1. CASE openEdges' = openEdges
      BY <1>10, <3>1
    <3>2. CASE openEdges' # openEdges
      <4>1. PICK n \in Nat : openEdges' = Opened(Item(r).id, Item(r).memory, n)
        BY <1>1, <3>2
      <4>2. Item(r).memory \in Facts
        BY <1>1, <3>2
      <4>3. openEdges'[m][f] = openEdges[m][f]
        BY <1>3, <2>2, <4>1, <4>2, OpenedType DEF IInv
      <4>4. QED BY <1>10, <4>3
    <3>3. QED BY <3>1, <3>2
  <2>3. QED BY <2>1, <2>2
<1>11. QED BY <1>1, <1>5, <1>6, <1>7, <1>8, <1>10, Uncommitted

LEMMA NextItemInv ==
    ASSUME IInv, NEW r \in Requests, NextItem(r)
    PROVE  IInv'
<1>1. /\ pc[r] = "next"
      /\ items' = [items EXCEPT ![r] = Tail(items[r])]
      /\ pc' = [pc EXCEPT ![r] = IF Tail(items[r]) = <<>> THEN "commit" ELSE "get"]
      /\ UNCHANGED <<issued, rows, lastEvent, lastSaid, deleted, openEdges, seen, tx, troubled>>
  BY DEF NextItem, Rest, Goto, mem0Vars, pgVars, historyVars
<1>2. Hand(r)
  BY DEF IInv, Hands
<1>3. items[r] # <<>> /\ items[r] \in Seq(Items) /\ Item(r) = items[r][1]
  BY <1>1, <1>2, ItemIsItem DEF IInv, Typed, Hand, InLoop
<1>4. /\ Tail(items[r]) \in Seq(Items)
      /\ \A k \in DOMAIN Tail(items[r]) :
            k + 1 \in DOMAIN items[r] /\ Tail(items[r])[k] = items[r][k + 1]
      /\ \A k \in DOMAIN items[r] :
            k = 1 \/ (k - 1 \in DOMAIN Tail(items[r]) /\ Tail(items[r])[k - 1] = items[r][k])
  BY <1>3
<1>5. Typed'
  BY <1>1, <1>4 DEF IInv, Typed, States
<1>6. /\ \A q \in Requests : q # r => pc'[q] = pc[q] /\ items'[q] = items[q]
      /\ items'[r] = Tail(items[r])
      /\ pc'[r] = IF Tail(items[r]) = <<>> THEN "commit" ELSE "get"
  BY <1>1 DEF IInv, Typed
<1>7. Hand(r)'
  <2>1. \A k \in DOMAIN items'[r] : Says(items'[r][k])
    BY <1>2, <1>4, <1>6 DEF Hand
  <2>2. QED BY <1>6, <2>1 DEF Hand, InLoop, Deleting, Says
<1>8. \A t \in tx'[r] : Grounded(t)'
  BY <1>1 DEF IInv, AllGrounded, Grounded, Says
<1>9. ASSUME NEW k \in DOMAIN items[r]
      PROVE  \/ \E l \in DOMAIN items'[r] : items'[r][l] = items[r][k]
             \/ \E t \in tx'[r] : t.item = items[r][k]
  <2>1. CASE k = 1
    BY <1>1, <1>2, <1>3, <2>1 DEF Hand
  <2>2. CASE k # 1
    <3>1. k - 1 \in DOMAIN items'[r] /\ items'[r][k - 1] = items[r][k]
      BY <1>4, <1>6, <2>2
    <3>2. QED BY <3>1
  <2>3. QED BY <2>1, <2>2
<1>10. QED BY <1>1, <1>5, <1>6, <1>7, <1>8, <1>9, Uncommitted

LEMMA RemoteDeleteInv ==
    ASSUME IInv, NEW r \in Requests, RemoteDelete(r)
    PROVE  IInv'
<1>1. /\ pc[r] = "remote"
      /\ pc' = [pc EXCEPT ![r] = "delete"]
      /\ UNCHANGED <<issued, rows, lastEvent, lastSaid, deleted, openEdges, items, seen, tx, troubled>>
  BY DEF RemoteDelete, Goto, pgVars, historyVars
<1>2. Hand(r)
  BY DEF IInv, Hands
<1>3. Typed'
  BY <1>1 DEF IInv, Typed, States
<1>4. /\ \A q \in Requests : q # r => pc'[q] = pc[q]
      /\ pc'[r] = "delete" /\ Item(r)' = Item(r)
  BY <1>1 DEF IInv, Typed, Item
<1>5. Hand(r)'
  BY <1>1, <1>2, <1>4 DEF Hand, InLoop, Deleting, Says
<1>6. \A t \in tx'[r] : Grounded(t)'
  BY <1>1 DEF IInv, AllGrounded, Grounded, Says
<1>7. QED BY <1>1, <1>3, <1>4, <1>5, <1>6, Uncommitted

LEMMA CloseDeletedInv ==
    ASSUME IInv, NEW r \in Requests, CloseDeleted(r)
    PROVE  IInv'
<1>1. /\ pc[r] = "delclose"
      /\ pc' = [pc EXCEPT ![r] = "idle"]
      /\ items' = [items EXCEPT ![r] = <<>>]
      /\ seen' = [seen EXCEPT ![r] = NoRow]
      /\ tx' = [tx EXCEPT ![r] = {}]
      /\ openEdges' = Closed(Item(r).id)
      /\ UNCHANGED <<issued, rows, lastEvent, lastSaid, deleted, troubled>>
  BY DEF CloseDeleted, Return, Goto, mem0Vars, pgVars, historyVars
<1>2. Hand(r)
  BY DEF IInv, Hands
<1>3. items[r] # <<>> /\ Item(r).id \in Ids
  BY <1>1, <1>2, ItemIsItem DEF IInv, Hand, Deleting
<1>4. Typed'
  BY <1>1, <1>3, ClosedType, RowTypes DEF IInv, Typed, States
<1>5. /\ \A q \in Requests : q # r => /\ pc'[q] = pc[q] /\ items'[q] = items[q]
                                      /\ seen'[q] = seen[q] /\ tx'[q] = tx[q]
      /\ pc'[r] = "idle" /\ items'[r] = <<>> /\ tx'[r] = {}
  BY <1>1 DEF IInv, Typed
<1>6. Hand(r)' /\ \A t \in tx'[r] : Grounded(t)'
  BY <1>5 DEF Hand, InLoop, Deleting
<1>7. tx[r] = {} /\ \A k \in DOMAIN items[r] : items[r][k].event # "ADD"
  BY <1>1, <1>2 DEF Hand, Deleting
<1>8. \A m \in Ids, f \in Facts : openEdges'[m][f] > 0 => openEdges[m][f] > 0
  BY <1>1, <1>3, ClosedType DEF IInv
<1>9. QED BY <1>1, <1>4, <1>5, <1>6, <1>7, <1>8, Uncommitted

LEMMA DeleteStartInv ==
    ASSUME IInv, NEW r \in Requests, NEW m \in Ids, DeleteStart(r, m)
    PROVE  IInv'
<1> DEFINE i == [id |-> m, event |-> "DELETE", memory |-> NoContent]
<1>1. /\ pc[r] = "idle"
      /\ rows[m].active
      /\ pc' = [pc EXCEPT ![r] = "remote"]
      /\ items' = [items EXCEPT ![r] = <<i>>]
      /\ UNCHANGED <<issued, rows, lastEvent, lastSaid, deleted, openEdges, seen, tx, troubled>>
  BY DEF DeleteStart, Begin, Goto, mem0Vars, pgVars
<1>2. Hand(r)
  BY DEF IInv, Hands
<1>3. tx[r] = {} /\ items[r] = <<>>
  BY <1>1, <1>2 DEF Hand
<1>4. i \in Items /\ i.id = m /\ i.event = "DELETE" /\ Says(i)
  BY DEF Items, Events, Says
<1> HIDE DEF i
<1>5. /\ <<i>> \in Seq(Items) /\ <<i>> # <<>> /\ Head(<<i>>) = i
      /\ \A k \in DOMAIN <<i>> : <<i>>[k] = i
  BY <1>4
<1>6. Typed'
  <2>1. items' \in [Requests -> Seq(Items)]
    BY <1>1, <1>5 DEF IInv, Typed
  <2>2. QED BY <1>1, <2>1 DEF IInv, Typed, States
<1>7. /\ \A q \in Requests : q # r => pc'[q] = pc[q] /\ items'[q] = items[q]
      /\ pc'[r] = "remote" /\ items'[r] = <<i>> /\ tx'[r] = {}
  BY <1>1, <1>3 DEF IInv, Typed
<1>8. rows[m] # NoRow
  BY <1>1 DEF NoRow
<1>9. Hand(r)'
  <2>1. Item(r)' = i
    BY <1>5, <1>7 DEF Item
  <2>2. \A k \in DOMAIN items'[r] : items'[r][k] = i
    BY <1>5, <1>7
  <2>3. rows'[Item(r)'.id] # NoRow
    BY <1>1, <1>4, <1>8, <2>1
  <2>4. QED BY <1>4, <1>5, <1>7, <2>2, <2>3 DEF Hand, InLoop, Deleting, Says
<1>10. \A t \in tx'[r] : Grounded(t)'
  BY <1>7
<1>11. QED BY <1>1, <1>3, <1>6, <1>7, <1>9, <1>10, Uncommitted

LEMMA AddNoopInv ==
    ASSUME IInv, NEW r \in Requests, AddNoop(r)
    PROVE  IInv'
<1>1. UNCHANGED <<issued, rows, lastEvent, lastSaid, deleted, openEdges,
                  pc, items, seen, tx, troubled>>
  BY DEF AddNoop, mem0Vars, requestVars
<1>2. Typed'
  BY <1>1 DEF IInv, Typed
<1>3. AllGrounded' /\ Hands'
  BY <1>1 DEF IInv, AllGrounded, Hands, Grounded, Hand, Says, Item
<1>4. EndsAudited' /\ NothingLost' /\ OpenEdgesAccountedFor'
  BY <1>1 DEF IInv, EndsAudited, NothingLost, OpenEdgesAccountedFor, Holds
<1>5. QED BY <1>2, <1>3, <1>4 DEF IInv

\* Mem0 has answered: its new memories are among the items to mirror.
LEMMA AddStartInv ==
    ASSUME IInv, NEW r \in Requests, AddStart(r)
    PROVE  IInv'
<1>1. /\ pc[r] = "idle"
      /\ pc' = [pc EXCEPT ![r] = "get"]
      /\ UNCHANGED <<rows, lastEvent, lastSaid, deleted, openEdges, seen, tx, troubled>>
  BY DEF AddStart, Begin, Goto, pgVars
<1>2. PICK n \in 1 .. MaxItems : \E answer \in Answers(n) :
         /\ items' = [items EXCEPT ![r] = answer]
         /\ issued' = issued + Cardinality(Created(answer))
  BY DEF AddStart
<1>3. PICK answer \in Answers(n) :
         /\ items' = [items EXCEPT ![r] = answer]
         /\ issued' = issued + Cardinality(Created(answer))
  BY <1>2
<1>4. /\ answer \in [1 .. n -> Decisions]
      /\ Created(answer) = issued + 1 .. issued + Cardinality(Created(answer))
  BY DEF Answers
<1>5. n \in Nat \ {0} /\ Decisions \subseteq Items /\ \A i \in Decisions : Says(i)
  BY BoundsAssumption DEF Decisions, Says
<1>6. /\ answer \in Seq(Items) /\ answer # <<>>
      /\ \A k \in DOMAIN answer : answer[k] \in Items /\ Says(answer[k])
  <2>1. answer \in [1 .. n -> Items]
    BY <1>4, <1>5
  <2>2. answer \in Seq(Items) /\ Len(answer) = n
    BY <1>5, <2>1
  <2>3. QED BY <1>4, <1>5, <2>1, <2>2
<1> DEFINE c == Cardinality(Created(answer))
<1>7. issued \in Nat /\ issued <= MaxIds /\ MaxIds \in Nat
  BY BoundsAssumption DEF IInv, Typed
<1>8. Created(answer) \subseteq 1 .. MaxIds
  BY <1>6 DEF Created, Items, Ids
<1>9. c \in Nat
  <2>1. IsFiniteSet(1 .. MaxIds)
    BY <1>7, FS_Interval
  <2>2. IsFiniteSet(Created(answer))
    BY <1>8, <2>1, FS_Subset
  <2>3. QED BY <2>2, FS_CardinalityType
<1>10. issued' \in 0 .. MaxIds /\ 1 .. issued' \subseteq (1 .. issued) \cup Created(answer)
  <2>1. issued' = issued + c /\ Created(answer) = issued + 1 .. issued + c
    BY <1>3, <1>4
  <2>2. c > 0 => issued + c \in Created(answer)
    <3> HIDE DEF c
    <3> QED BY <1>7, <1>9, <2>1
  <2>3. c > 0 => issued + c <= MaxIds
    <3> HIDE DEF c
    <3> QED BY <1>7, <1>8, <1>9, <2>2
  <2> HIDE DEF c
  <2>4. QED BY <1>7, <1>9, <2>1, <2>3
<1>11. Typed'
  <2>1. items' \in [Requests -> Seq(Items)]
    BY <1>3, <1>6 DEF IInv, Typed
  <2>2. pc' \in [Requests -> States]
    BY <1>1 DEF IInv, Typed, States
  <2>3. QED BY <1>1, <1>10, <2>1, <2>2 DEF IInv, Typed
<1>12. Hand(r)
  BY DEF IInv, Hands
<1>13. /\ \A q \in Requests : q # r => pc'[q] = pc[q] /\ items'[q] = items[q]
       /\ pc'[r] = "get" /\ items'[r] = answer
       /\ tx[r] = {} /\ tx'[r] = {} /\ items[r] = <<>>
  BY <1>1, <1>3, <1>12 DEF IInv, Typed, Hand
<1>14. AllGrounded' /\ Hands'
  <2>1. Hand(r)'
    BY <1>6, <1>13 DEF Hand, InLoop, Deleting, Says
  <2>2. QED BY <1>1, <1>13, <2>1, OthersKept DEF AllGrounded, Hands
<1>15. EndsAudited'
  BY <1>1 DEF IInv, EndsAudited
<1>16. NothingLost'
  <2> SUFFICES ASSUME ~troubled', NEW m \in 1 .. issued', rows'[m] = NoRow
               PROVE  \E q \in Requests :
                         \/ \E t \in tx'[q] : t.item.id = m /\ t.item.event = "ADD"
                         \/ \E k \in DOMAIN items'[q] : /\ items'[q][k].id = m
                                                       /\ items'[q][k].event = "ADD"
    BY DEF NothingLost
  <2>1. CASE m \in 1 .. issued
    <3>1. PICK q \in Requests :
             \/ \E t \in tx[q] : t.item.id = m /\ t.item.event = "ADD"
             \/ \E k \in DOMAIN items[q] : items[q][k].id = m /\ items[q][k].event = "ADD"
      BY <1>1, <2>1 DEF IInv, NothingLost
    <3>2. q # r
      BY <1>13, <3>1
    <3>3. QED BY <1>1, <1>13, <3>1, <3>2
  <2>2. CASE m \in Created(answer)
    BY <1>13, <2>2 DEF Created
  <2>3. QED BY <1>10, <2>1, <2>2
<1>17. OpenEdgesAccountedFor'
  BY <1>1 DEF IInv, OpenEdgesAccountedFor, Holds
<1>18. QED BY <1>11, <1>14, <1>15, <1>16, <1>17 DEF IInv

\* A committed change leaves a row that says what its last event says.
LEMMA ResultIsRow ==
    ASSUME Typed, NEW t \in Changes, Grounded(t), ~t.loose
    PROVE  /\ t.item.id \in Ids /\ t.item.event \in Events
           /\ Result(rows[t.item.id], t) \in Rows \ {NoRow}
           /\ t.item.event # "DELETE" => t.item.memory \in Contents
           /\ t.worded => Result(rows[t.item.id], t).content = t.item.memory
           /\ ~t.worded => Result(rows[t.item.id], t).content = rows[t.item.id].content
           /\ t.item.event = "DELETE" => ~t.worded /\ rows[t.item.id] # NoRow
           /\ ~Result(rows[t.item.id], t).active => 
                 t.item.event = "DELETE" \/ (rows[t.item.id] # NoRow /\ ~rows[t.item.id].active)
<1> DEFINE row == rows[t.item.id]
<1>1. t.item.id \in Ids /\ t.item.event \in Events /\ t.turned \in BOOLEAN
  BY DEF Changes, Items
<1>2. row \in Rows /\ row.active \in BOOLEAN
  BY <1>1, RowTypes DEF Typed
<1>3. t.item.event # "DELETE" => t.item.memory \in Contents
  BY DEF Grounded, Says
<1>4. /\ t.item.event = "DELETE" => ~t.worded /\ row # NoRow
      /\ ~t.worded => row # NoRow /\ row.content \in Contents
      /\ t.worded => t.item.event # "DELETE"
  BY <1>2, RowTypes DEF Grounded
<1>5. ~t.turned => row # NoRow
  BY DEF Grounded
<1> DEFINE text == IF t.worded THEN t.item.memory ELSE row.content
           on == IF t.turned THEN t.item.event # "DELETE" ELSE row.active
<1>6. text \in Contents /\ on \in BOOLEAN
  <2>1. text \in Contents
    BY <1>3, <1>4
  <2>2. QED BY <1>1, <1>2, <2>1
<1>7. Result(row, t) = [content |-> text, active |-> on]
  BY DEF Result
<1>8. Result(row, t) \in Rows \ {NoRow}
  <2> HIDE DEF text, on
  <2> QED BY <1>6, <1>7, RowTypes
<1>9. Result(row, t).content = text /\ Result(row, t).active = on
  BY <1>7
<1>10. QED BY <1>1, <1>3, <1>4, <1>5, <1>8, <1>9

LEMMA CommitInv ==
    ASSUME IInv, NEW r \in Requests, Commit(r)
    PROVE  IInv'
<1> DEFINE named == {t \in tx[r] : ~t.loose}
           Of(m) == {t \in named : t.item.id = m}
           The(m) == CHOOSE t \in Of(m) : TRUE
<1>1. /\ pc[r] = "commit"
      /\ pc' = [pc EXCEPT ![r] = "idle"]
      /\ items' = [items EXCEPT ![r] = <<>>]
      /\ seen' = [seen EXCEPT ![r] = NoRow]
      /\ tx' = [tx EXCEPT ![r] = {}]
      /\ UNCHANGED <<issued, openEdges, troubled>>
  BY DEF Commit, Return, Goto, mem0Vars, historyVars
<1>2. /\ rows' = [m \in Ids |-> IF Of(m) = {} THEN rows[m] ELSE Result(rows[m], The(m))]
      /\ lastEvent' = [m \in Ids |-> IF Of(m) = {} THEN lastEvent[m] ELSE The(m).item.event]
      /\ lastSaid' = [m \in Ids |->
            IF Of(m) = {} \/ The(m).item.event = "DELETE" THEN lastSaid[m]
            ELSE The(m).item.memory]
      /\ deleted' = deleted \cup {t.item.id : t \in {t \in named : t.item.event = "DELETE"}}
  BY DEF Commit, Pending
<1>3. ASSUME NEW m \in Ids, Of(m) # {}
      PROVE  /\ The(m) \in tx[r] /\ ~The(m).loose /\ The(m).item.id = m
             /\ The(m) \in Changes /\ Grounded(The(m))
  <2>1. The(m) \in Of(m)
    BY <1>3
  <2>2. The(m) \in tx[r] /\ ~The(m).loose /\ The(m).item.id = m
    BY <2>1
  <2> HIDE DEF The
  <2>3. QED BY <2>2 DEF IInv, Typed, AllGrounded
<1>4. ASSUME NEW m \in Ids, Of(m) = {}
      PROVE  /\ rows'[m] = rows[m] /\ lastEvent'[m] = lastEvent[m]
             /\ lastSaid'[m] = lastSaid[m]
  BY <1>2, <1>4
<1>5. ASSUME NEW m \in Ids, Of(m) # {}
      PROVE  /\ rows'[m] \in Rows \ {NoRow}
             /\ lastEvent'[m] \in Events
             /\ lastSaid'[m] \in Contents \cup {NoContent}
             /\ ~rows'[m].active => m \in deleted'
  <2> DEFINE t == The(m)
  <2>1. /\ t \in tx[r] /\ ~t.loose /\ t.item.id = m /\ t \in Changes /\ Grounded(t)
    BY <1>3, <1>5
  <2>2. /\ rows'[m] = Result(rows[m], t) /\ lastEvent'[m] = t.item.event
        /\ lastSaid'[m] = IF t.item.event = "DELETE" THEN lastSaid[m] ELSE t.item.memory
    BY <1>2, <1>5
  <2>3. t.item.event = "DELETE" => m \in deleted'
    BY <1>2, <2>1
  <2> HIDE DEF t
  <2>4. /\ t.item.event \in Events
        /\ Result(rows[m], t) \in Rows \ {NoRow}
        /\ t.item.event # "DELETE" => t.item.memory \in Contents
        /\ ~Result(rows[m], t).active =>
              t.item.event = "DELETE" \/ (rows[m] # NoRow /\ ~rows[m].active)
    BY <2>1, ResultIsRow DEF IInv
  <2>5. rows[m] # NoRow /\ ~rows[m].active => m \in deleted
    BY DEF IInv, EndsAudited
  <2>6. lastSaid[m] \in Contents \cup {NoContent}
    BY DEF IInv, Typed
  <2>7. deleted \subseteq deleted'
    BY <1>2
  <2>8. QED BY <2>2, <2>3, <2>4, <2>5, <2>6, <2>7
<1>6. deleted' \subseteq Ids /\ deleted \subseteq deleted'
  BY <1>2 DEF IInv, Typed, Changes, Items
<1>7. /\ rows' \in [Ids -> Rows]
      /\ lastEvent' \in [Ids -> Events \cup {"none"}]
      /\ lastSaid' \in [Ids -> Contents \cup {NoContent}]
  <2>1. \A m \in Ids : /\ rows'[m] \in Rows
                       /\ lastEvent'[m] \in Events \cup {"none"}
                       /\ lastSaid'[m] \in Contents \cup {NoContent}
    <3> HIDE DEF Of
    <3> QED BY <1>4, <1>5 DEF IInv, Typed
  <2>2. /\ rows' = [m \in Ids |-> rows'[m]]
        /\ lastEvent' = [m \in Ids |-> lastEvent'[m]]
        /\ lastSaid' = [m \in Ids |-> lastSaid'[m]]
    BY <1>2
  <2>3. QED BY <2>1, <2>2
<1> HIDE DEF The
<1>8. Typed'
  BY <1>1, <1>6, <1>7, RowTypes DEF IInv, Typed, States
<1>9. /\ \A q \in Requests : q # r => /\ pc'[q] = pc[q] /\ items'[q] = items[q]
                                      /\ seen'[q] = seen[q] /\ tx'[q] = tx[q]
      /\ pc'[r] = "idle" /\ items'[r] = <<>> /\ tx'[r] = {}
      /\ items[r] = <<>>
  <2>1. Hand(r)
    BY DEF IInv, Hands
  <2>2. QED BY <1>1, <2>1 DEF IInv, Typed, Hand
<1>10. \A m \in Ids : rows[m] # NoRow => rows'[m] # NoRow
  <2> HIDE DEF Of
  <2> QED BY <1>4, <1>5
<1>11. \A t \in tx[r] : ~t.loose => Of(t.item.id) # {}
  OBVIOUS
<1> HIDE DEF Of
<1>12. AllGrounded' /\ Hands'
  <2>1. Hand(r)'
    BY <1>9 DEF Hand, InLoop, Deleting
  <2>2. QED BY <1>9, <1>10, <2>1, OthersKept DEF AllGrounded, Hands
<1>13. EndsAudited'
  <2> SUFFICES ASSUME NEW m \in Ids
               PROVE  /\ rows'[m] # NoRow /\ ~rows'[m].active => m \in deleted'
                      /\ rows'[m] = NoRow => lastEvent'[m] = "none"
    BY DEF EndsAudited
  <2>1. CASE Of(m) = {}
    BY <1>4, <1>6, <2>1 DEF IInv, EndsAudited
  <2>2. CASE Of(m) # {}
    BY <1>5, <2>2
  <2>3. QED BY <2>1, <2>2
<1>14. NothingLost'
  <2> SUFFICES ASSUME ~troubled', NEW m \in 1 .. issued', rows'[m] = NoRow
               PROVE  \E q \in Requests :
                         \/ \E t \in tx'[q] : t.item.id = m /\ t.item.event = "ADD"
                         \/ \E k \in DOMAIN items'[q] : /\ items'[q][k].id = m
                                                       /\ items'[q][k].event = "ADD"
    BY DEF NothingLost
  <2>1. m \in Ids /\ m \in 1 .. issued
    BY <1>1, BoundsAssumption DEF IInv, Typed, Ids
  <2>2. rows[m] = NoRow /\ Of(m) = {}
    BY <1>5, <1>10, <2>1
  <2>3. PICK q \in Requests :
           \/ \E t \in tx[q] : t.item.id = m /\ t.item.event = "ADD"
           \/ \E k \in DOMAIN items[q] : items[q][k].id = m /\ items[q][k].event = "ADD"
    BY <1>1, <2>1, <2>2 DEF IInv, NothingLost
  <2>4. q # r
    <3>1. \A t \in tx[r] : t.item.event = "ADD" => ~t.loose
      BY DEF IInv, AllGrounded, Grounded
    <3>2. QED BY <1>9, <1>11, <2>2, <2>3, <3>1
  <2>5. QED BY <1>9, <2>3, <2>4
<1>15. OpenEdgesAccountedFor'
  <2> SUFFICES ASSUME ~troubled', NEW m \in Ids, \E f \in Facts : openEdges'[m][f] > 0,
                      rows'[m] = NoRow
               PROVE  \E q \in Requests : Holds(q, m)'
    BY DEF OpenEdgesAccountedFor
  <2>1. rows[m] = NoRow /\ Of(m) = {}
    BY <1>5, <1>10
  <2>2. PICK q \in Requests : Holds(q, m)
    BY <1>1, <2>1 DEF IInv, OpenEdgesAccountedFor
  <2>3. q # r
    <3>1. \A t \in tx[r] : t.how # "none" => ~t.loose
      BY DEF IInv, Typed, AllGrounded, Grounded, Changes
    <3>2. QED BY <1>11, <2>1, <2>2, <3>1 DEF Holds
  <2>4. QED BY <1>9, <2>2, <2>3 DEF Holds
<1>16. QED BY <1>8, <1>12, <1>13, <1>14, <1>15 DEF IInv

LEMMA CommitDeleteInv ==
    ASSUME IInv, NEW r \in Requests, CommitDelete(r)
    PROVE  IInv'
<1> DEFINE m == Item(r).id
<1>1. /\ pc[r] = "delete"
      /\ pc' = [pc EXCEPT ![r] = "delclose"]
      /\ rows' = [rows EXCEPT ![m].active = FALSE]
      /\ lastEvent' = [lastEvent EXCEPT ![m] = "DELETE"]
      /\ deleted' = deleted \cup {m}
      /\ UNCHANGED <<issued, lastSaid, openEdges, items, seen, tx, troubled>>
  BY DEF CommitDelete, Goto, mem0Vars, historyVars
<1>2. Hand(r)
  BY DEF IInv, Hands
<1>3. m \in Ids /\ rows[m] # NoRow /\ tx[r] = {}
  BY <1>1, <1>2, ItemIsItem DEF IInv, Hand, Deleting
<1>4. /\ \A q \in Requests : q # r => pc'[q] = pc[q]
      /\ pc'[r] = "delclose" /\ Item(r)' = Item(r)
  BY <1>1 DEF IInv, Typed, Item
<1> HIDE DEF m
<1>5. /\ rows'[m] = [content |-> rows[m].content, active |-> FALSE]
      /\ \A l \in Ids : l # m => rows'[l] = rows[l] /\ lastEvent'[l] = lastEvent[l]
      /\ lastEvent'[m] = "DELETE"
  <2>1. rows[m] \in [content : Contents, active : BOOLEAN]
    BY <1>3 DEF IInv, Typed, Rows
  <2>2. QED BY <1>1, <1>3, <2>1 DEF IInv, Typed
<1>6. rows'[m] \in Rows \ {NoRow} /\ rows'[m].content = rows[m].content /\ ~rows'[m].active
  <2>1. rows[m].content \in Contents /\ FALSE \in BOOLEAN
    BY <1>3, RowTypes DEF IInv, Typed
  <2>2. rows'[m] \in Rows \ {NoRow}
    <3>1. \A c \in Contents, a \in BOOLEAN :
             [content |-> c, active |-> a] \in Rows \ {NoRow}
      BY RowTypes
    <3>2. [content |-> rows[m].content, active |-> FALSE] \in Rows \ {NoRow}
      BY <2>1, <3>1
    <3>3. QED BY <1>5, <3>2
  <2>3. QED BY <1>5, <2>2
<1>7. \A l \in Ids : rows[l] # NoRow => rows'[l] # NoRow
  BY <1>5, <1>6
<1>8. Typed'
  <2>1. rows' \in [Ids -> Rows]
    <3>1. rows' = [rows EXCEPT ![m] = [content |-> rows[m].content, active |-> FALSE]]
      BY <1>1, <1>3, <1>5 DEF IInv, Typed
    <3>2. QED BY <1>3, <1>5, <1>6, <3>1 DEF IInv, Typed
  <2>2. QED BY <1>1, <1>3, <2>1 DEF IInv, Typed, States, Events
<1>9. AllGrounded' /\ Hands'
  <2>1. Hand(r)'
    <3>1. rows'[Item(r)'.id] # NoRow
      BY <1>4, <1>6 DEF m
    <3>2. QED BY <1>1, <1>2, <1>3, <1>4, <3>1 DEF Hand, InLoop, Deleting, Says
  <2>2. tx'[r] = {}
    BY <1>1, <1>3
  <2>3. QED BY <1>1, <1>4, <1>7, <2>1, <2>2, OthersKept DEF AllGrounded, Hands
<1>10. EndsAudited'
  BY <1>1, <1>5, <1>6 DEF IInv, EndsAudited
<1>11. NothingLost'
  <2>1. 1 .. issued \subseteq Ids
    BY BoundsAssumption DEF IInv, Typed, Ids
  <2>2. QED BY <1>1, <1>7, <2>1 DEF IInv, NothingLost
<1>12. OpenEdgesAccountedFor'
  BY <1>1, <1>7 DEF IInv, OpenEdgesAccountedFor, Holds
<1>13. QED BY <1>8, <1>9, <1>10, <1>11, <1>12 DEF IInv

-----------------------------------------------------------------------------
LEMMA NextInv == IInv /\ [Next]_vars => IInv'
<1> SUFFICES ASSUME IInv, [Next]_vars PROVE IInv'
  OBVIOUS
<1>1. ASSUME NEW r \in Requests, Call(r) PROVE IInv'
  BY <1>1, AddNoopInv, AddStartInv, DeleteStartInv DEF Call
<1>2. ASSUME NEW r \in Requests, Step(r) PROVE IInv'
  BY <1>2, GetRowInv, FlushRowInv, GraphCloseInv, GraphUpsertInv, NextItemInv,
     CommitInv, RemoteDeleteInv, CommitDeleteInv, CloseDeletedInv, TroubleInv
  DEF Step
<1>3. ASSUME NEW r \in Requests, Die(r) PROVE IInv'
  BY <1>3, TroubleInv
<1>4. CASE UNCHANGED vars
  <2>1. UNCHANGED <<issued, rows, lastEvent, lastSaid, deleted, openEdges,
                    pc, items, seen, tx, troubled>>
    BY <1>4 DEF vars, mem0Vars, pgVars, requestVars, historyVars
  <2>2. Typed'
    BY <2>1 DEF IInv, Typed
  <2>3. AllGrounded' /\ Hands'
    BY <2>1 DEF IInv, AllGrounded, Hands, Grounded, Hand, Says, Item
  <2>4. EndsAudited' /\ NothingLost' /\ OpenEdgesAccountedFor'
    BY <2>1 DEF IInv, EndsAudited, NothingLost, OpenEdgesAccountedFor, Holds
  <2>5. QED BY <2>2, <2>3, <2>4 DEF IInv
<1>5. QED BY <1>1, <1>2, <1>3, <1>4 DEF Next

\* The inductive invariant: what each request has in hand at each await, and
\* what its flushed changes tell of the rows they are about.
THEOREM MirrorIsGrounded == Spec => []IInv
<1>1. QED BY InitInv, NextInv, PTL DEF Spec

\* A memory Mem0 has created is in Postgres, or with the request that created
\* it, unless some request has been rolled back.
THEOREM NoMemoryIsLost == Spec => []NothingLost
<1>1. IInv => NothingLost
  BY DEF IInv
<1>2. QED BY <1>1, MirrorIsGrounded, PTL

\* The graph is written before the commit, and still an open edge has a row,
\* or a writer that holds the row, unless some request has been rolled back.
THEOREM NoEdgeWithoutWriter == Spec => []OpenEdgesAccountedFor
<1>1. IInv => OpenEdgesAccountedFor
  BY DEF IInv
<1>2. QED BY <1>1, MirrorIsGrounded, PTL

-----------------------------------------------------------------------------
(* The steps, by what they do to requests.                                 *)

\* A step that answers a store or Mem0 and is not rolled back.
MirrorStep(r) ==
    \/ GetRow(r)
    \/ FlushRow(r)
    \/ GraphClose(r)
    \/ GraphUpsert(r)
    \/ NextItem(r)
    \/ Commit(r)
    \/ RemoteDelete(r)
    \/ CommitDelete(r)
    \/ CloseDeleted(r)

\* A request begins, goes on or is rolled back.
LEMMA StepShape ==
    [Next]_vars =>
        \/ UNCHANGED vars
        \/ \E r \in Requests :
              \/ AddNoop(r)
              \/ AddStart(r)
              \/ \E m \in Ids : DeleteStart(r, m)
              \/ MirrorStep(r)
              \/ pc[r] # "idle" /\ Raise(r)
<1>1. ASSUME NEW r \in Requests, Step(r)
      PROVE  MirrorStep(r) \/ (pc[r] # "idle" /\ Raise(r))
  <2>1. ASSUME AbortDeadlocked(r) PROVE pc[r] # "idle" /\ Raise(r)
    BY <2>1 DEF AbortDeadlocked, Blockers, Writes
  <2>2. ASSUME GraphFails(r) PROVE pc[r] # "idle" /\ Raise(r)
    BY <2>2 DEF GraphFails
  <2>3. ASSUME FlushConflict(r) \/ AnswerUnreadable(r) \/ RemoteMissing(r)
        PROVE  pc[r] # "idle" /\ Raise(r)
    BY <2>3 DEF FlushConflict, AnswerUnreadable, RemoteMissing
  <2>4. QED BY <1>1, <2>1, <2>2, <2>3 DEF Step, MirrorStep
<1>2. QED BY <1>1 DEF Next, Call, Die

\* A request changes its own slot only.
LEMMA OnlyItself ==
    ASSUME Typed, NEW r \in Requests,
           \/ AddStart(r)
           \/ \E m \in Ids : DeleteStart(r, m)
           \/ MirrorStep(r)
           \/ Raise(r)
    PROVE  \A q \in Requests : q # r => /\ pc'[q] = pc[q] /\ items'[q] = items[q]
                                        /\ seen'[q] = seen[q] /\ tx'[q] = tx[q]
<1>1. CASE AddStart(r)
  BY <1>1 DEF AddStart, Begin, Goto, Typed
<1>2. CASE \E m \in Ids : DeleteStart(r, m)
  BY <1>2 DEF DeleteStart, Begin, Goto, Typed
<1>3. CASE GetRow(r) \/ FlushRow(r) \/ GraphClose(r) \/ GraphUpsert(r) \/ NextItem(r)
  BY <1>3 DEF GetRow, FlushRow, GraphClose, GraphUpsert, NextItem, Goto, Typed
<1>4. CASE Commit(r) \/ CloseDeleted(r) \/ Raise(r)
  <2>1. Return(r)
    BY <1>4 DEF Commit, CloseDeleted, Raise
  <2>2. QED BY <2>1 DEF Return, Goto, Typed
<1>5. CASE RemoteDelete(r) \/ CommitDelete(r)
  BY <1>5 DEF RemoteDelete, CommitDelete, Goto, Typed
<1>6. QED BY <1>1, <1>2, <1>3, <1>4, <1>5 DEF MirrorStep

-----------------------------------------------------------------------------
(* Row locks, and what they are worth.  Of two requests with changes of    *)
(* one memory in hand, at most one has written its row: the text a row is  *)
(* left with is then that of the change committed, or was there before it. *)

Locked ==
    \A q, r \in Requests : q # r =>
        \A t \in tx[q], u \in tx[r] :
            t.item.id = u.item.id => t.how = "none" \/ u.how = "none"

\* A request that is to repeat a row's text, or has, finds it there, unless
\* the row has been reworded.
SaysLast == \A m \in Ids : m \notin reworded => rows[m].content = lastSaid[m]

RepeatsHold ==
    \A r \in Requests, m \in Ids :
        Repeats(r, m) /\ m \notin reworded => rows[m].content = Item(r).memory

Unchanged(t) ==
    t.item.event # "DELETE" /\ ~t.worded /\ t.item.id \notin reworded
        => rows[t.item.id].content = t.item.memory

FlushedHold == \A r \in Requests : \A t \in tx[r] : Unchanged(t)

TextInv == reworded \subseteq Ids /\ SaysLast /\ RepeatsHold /\ FlushedHold

\* Only a flush adds to what a request has flushed.
LEMMA FlushedOnly ==
    ASSUME Typed, NEW r \in Requests,
           \/ AddStart(r)
           \/ \E m \in Ids : DeleteStart(r, m)
           \/ MirrorStep(r) /\ ~FlushRow(r)
           \/ Raise(r)
    PROVE  tx'[r] \subseteq tx[r]
<1>1. CASE Commit(r) \/ CloseDeleted(r) \/ Raise(r)
  <2>1. Return(r)
    BY <1>1 DEF Commit, CloseDeleted, Raise
  <2>2. QED BY <2>1 DEF Return, Typed
<1>2. CASE ~(Commit(r) \/ CloseDeleted(r) \/ Raise(r))
  <2>1. tx' = tx
    BY <1>2 DEF AddStart, DeleteStart, MirrorStep, GetRow, GraphClose, GraphUpsert,
                NextItem, RemoteDelete, CommitDelete
  <2>2. QED BY <2>1
<1>3. QED BY <1>1, <1>2

LEMMA FewerLocked ==
    ASSUME Locked, \A q \in Requests : tx'[q] \subseteq tx[q]
    PROVE  Locked'
BY DEF Locked

\* A flush waits for whoever has written the row.
LEMMA FlushLocked ==
    ASSUME IInv, Locked, NEW r \in Requests, FlushRow(r)
    PROVE  Locked'
<1> DEFINE i == Item(r)
           s == seen[r]
           t == [item |-> i, how |-> How(i, s), worded |-> Worded(i, s),
                 turned |-> Turned(i, s), loose |-> Loose(i, s)]
<1>1. /\ pc[r] = "flush" /\ Blockers(r) = {}
      /\ tx' = [tx EXCEPT ![r] = @ \cup {t}]
  BY DEF FlushRow
<1>2. t.item = i /\ t.how = How(i, s)
  OBVIOUS
<1>3. /\ tx'[r] = tx[r] \cup {t}
      /\ \A q \in Requests : q # r => tx'[q] = tx[q]
  BY <1>1 DEF IInv, Typed
<1> HIDE DEF t
<1>4. ASSUME NEW q \in Requests, q # r, NEW u \in tx[q], u.item.id = t.item.id
      PROVE  t.how = "none" \/ u.how = "none"
  BY <1>1, <1>2, <1>4 DEF Blockers, Writes, Holds
<1>5. ASSUME NEW q \in Requests, q # r, NEW u \in tx'[r], NEW v \in tx'[q],
             u.item.id = v.item.id
      PROVE  u.how = "none" \/ v.how = "none"
  <2>1. CASE u = t
    BY <1>3, <1>4, <1>5, <2>1
  <2>2. CASE u \in tx[r]
    BY <1>3, <1>5, <2>2 DEF Locked
  <2>3. QED BY <1>3, <1>5, <2>1, <2>2
<1>6. QED
  <2> SUFFICES ASSUME NEW p \in Requests, NEW q \in Requests, p # q,
                      NEW u \in tx'[p], NEW v \in tx'[q], u.item.id = v.item.id
               PROVE  u.how = "none" \/ v.how = "none"
    BY DEF Locked
  <2>1. CASE p = r
    BY <1>5, <2>1
  <2>2. CASE q = r
    BY <1>5, <2>2
  <2>3. CASE p # r /\ q # r
    BY <1>3, <2>3 DEF Locked
  <2>4. QED BY <2>1, <2>2, <2>3

LEMMA NextLocked == IInv /\ Locked /\ [Next]_vars => Locked'
<1> SUFFICES ASSUME IInv, Locked, [Next]_vars PROVE Locked'
  OBVIOUS
<1>1. CASE UNCHANGED vars
  BY <1>1, FewerLocked DEF vars, requestVars
<1>2. ASSUME NEW r \in Requests, AddNoop(r) PROVE Locked'
  BY <1>2, FewerLocked DEF AddNoop, requestVars
<1>3. ASSUME NEW r \in Requests,
             \/ AddStart(r)
             \/ \E m \in Ids : DeleteStart(r, m)
             \/ MirrorStep(r)
             \/ Raise(r)
      PROVE  Locked'
  <2>1. CASE FlushRow(r)
    BY <2>1, FlushLocked
  <2>2. CASE ~FlushRow(r)
    <3>1. tx'[r] \subseteq tx[r]
      BY <1>3, <2>2, FlushedOnly DEF IInv
    <3>2. \A q \in Requests : q # r => tx'[q] = tx[q]
      BY <1>3, OnlyItself DEF IInv
    <3>3. QED BY <3>1, <3>2, FewerLocked
  <2>3. QED BY <2>1, <2>2
<1>4. QED BY <1>1, <1>2, <1>3, StepShape

\* A step that leaves every row's text and its latest event's alone.
LEMMA TextsKept ==
    ASSUME IInv, IInv', TextInv, UNCHANGED <<lastSaid, reworded>>,
           \A m \in Ids : rows'[m].content = rows[m].content,
           \A q \in Requests :
              /\ pc'[q] = "flush" =>
                    \/ pc[q] = "flush" /\ items'[q] = items[q] /\ seen'[q] = seen[q]
                    \/ seen'[q] = rows[Item(q)'.id]
              /\ \A t \in tx'[q] : t \in tx[q] \/ Unchanged(t)
    PROVE  TextInv'
<1>1. reworded' \subseteq Ids /\ SaysLast'
  BY DEF TextInv, SaysLast
<1>2. RepeatsHold'
  <2> SUFFICES ASSUME NEW q \in Requests, NEW m \in Ids, Repeats(q, m)', m \notin reworded
               PROVE  rows'[m].content = Item(q)'.memory
    BY DEF RepeatsHold
  <2>1. CASE pc[q] = "flush" /\ items'[q] = items[q] /\ seen'[q] = seen[q]
    <3>1. Item(q)' = Item(q)
      BY <2>1 DEF Item
    <3>2. Repeats(q, m)
      BY <2>1, <3>1 DEF Repeats
    <3>3. QED BY <3>1, <3>2 DEF TextInv, RepeatsHold
  <2>2. CASE seen'[q] = rows[Item(q)'.id]
    BY <2>2 DEF Repeats, Worded
  <2>3. pc'[q] = "flush"
    BY DEF Repeats
  <2>4. QED BY <2>1, <2>2, <2>3
<1>3. FlushedHold'
  <2> SUFFICES ASSUME NEW q \in Requests, NEW t \in tx'[q] PROVE Unchanged(t)'
    BY DEF FlushedHold
  <2>1. Unchanged(t)
    BY DEF TextInv, FlushedHold
  <2>2. t.item.id \in Ids
    BY DEF IInv, Typed, Changes, Items
  <2>3. QED BY <2>1, <2>2 DEF Unchanged
<1>4. QED BY <1>1, <1>2, <1>3 DEF TextInv

\* A change that leaves the text out finds the text it was to write.
LEMMA FlushTexts ==
    ASSUME IInv, IInv', TextInv, NEW r \in Requests, FlushRow(r)
    PROVE  TextInv'
<1> DEFINE i == Item(r)
           s == seen[r]
           t == [item |-> i, how |-> How(i, s), worded |-> Worded(i, s),
                 turned |-> Turned(i, s), loose |-> Loose(i, s)]
<1>1. /\ pc[r] = "flush"
      /\ UNCHANGED <<rows, lastSaid, reworded, items, seen>>
      /\ tx' = [tx EXCEPT ![r] = @ \cup {t}]
      /\ pc'[r] # "flush"
      /\ \A q \in Requests : q # r => pc'[q] = pc[q]
  BY DEF FlushRow, Goto, pgVars, IInv, Typed
<1>2. i.id \in Ids
  BY <1>1, ItemIsItem DEF IInv, Hands, Hand, InLoop
<1>3. Unchanged(t)
  <2>1. t.item = i /\ t.worded = Worded(i, s)
    OBVIOUS
  <2> HIDE DEF t
  <2>2. i.event # "DELETE" /\ ~t.worded => Repeats(r, i.id)
    BY <1>1, <2>1 DEF Repeats
  <2>3. QED BY <1>2, <2>1, <2>2 DEF Unchanged, TextInv, RepeatsHold
<1> HIDE DEF t
<1>4. \A q \in Requests : \A u \in tx'[q] : u \in tx[q] \/ u = t
  BY <1>1 DEF IInv, Typed
<1>5. QED BY <1>1, <1>3, <1>4, TextsKept

\* The commit of a text names in `reworded` whoever it takes by surprise
\* before its flush; after its flush the row is locked.
LEMMA CommitTexts ==
    ASSUME IInv, IInv', Locked, TextInv, NEW r \in Requests, Commit(r)
    PROVE  TextInv'
<1> DEFINE named == {t \in tx[r] : ~t.loose}
           Of(m) == {t \in named : t.item.id = m}
           The(m) == CHOOSE t \in Of(m) : TRUE
<1>1. /\ rows' = [m \in Ids |-> IF Of(m) = {} THEN rows[m] ELSE Result(rows[m], The(m))]
      /\ lastSaid' = [m \in Ids |->
            IF Of(m) = {} \/ The(m).item.event = "DELETE" THEN lastSaid[m]
            ELSE The(m).item.memory]
      /\ reworded' = reworded \cup
            {m \in Ids : /\ rows[m] # NoRow /\ rows'[m].content # rows[m].content
                         /\ \E q \in Requests \ {r} : Repeats(q, m)}
      /\ pc' = [pc EXCEPT ![r] = "idle"]
      /\ tx' = [tx EXCEPT ![r] = {}]
  BY DEF Commit, Pending, Return, Goto
<1>2. /\ pc'[r] = "idle" /\ tx'[r] = {}
      /\ \A q \in Requests : q # r => /\ pc'[q] = pc[q] /\ items'[q] = items[q]
                                      /\ seen'[q] = seen[q] /\ tx'[q] = tx[q]
      /\ reworded \subseteq reworded' /\ reworded' \subseteq Ids
  BY <1>1, OnlyItself DEF MirrorStep, IInv, Typed, TextInv
<1>3. ASSUME NEW m \in Ids, Of(m) = {}
      PROVE  rows'[m] = rows[m] /\ lastSaid'[m] = lastSaid[m]
  BY <1>1, <1>3
<1>4. ASSUME NEW m \in Ids, Of(m) # {}
      PROVE  \E t \in tx[r] :
                /\ t.item.id = m
                /\ t.item.event = "DELETE" =>
                      rows'[m].content = rows[m].content /\ lastSaid'[m] = lastSaid[m]
                /\ t.item.event # "DELETE" => t.how # "none" /\ lastSaid'[m] = t.item.memory
                /\ t.worded => rows'[m].content = t.item.memory
                /\ ~t.worded => rows'[m].content = rows[m].content
  <2> DEFINE t == The(m)
  <2>1. t \in Of(m)
    BY <1>4
  <2>2. t \in tx[r] /\ ~t.loose /\ t.item.id = m
    BY <2>1
  <2>3. /\ rows'[m] = Result(rows[m], t)
        /\ lastSaid'[m] = IF t.item.event = "DELETE" THEN lastSaid[m] ELSE t.item.memory
    BY <1>1, <1>4
  <2> HIDE DEF t
  <2>4. t \in Changes /\ Grounded(t)
    BY <2>2 DEF IInv, Typed, AllGrounded
  <2>5. /\ t.item.event = "DELETE" => ~t.worded
        /\ t.worded => rows'[m].content = t.item.memory
        /\ ~t.worded => rows'[m].content = rows[m].content
    BY <2>2, <2>3, <2>4, ResultIsRow DEF IInv
  <2>6. t.item.event # "DELETE" => t.how # "none"
    BY <2>4 DEF Grounded
  <2>7. QED BY <2>2, <2>3, <2>5, <2>6
<1> HIDE DEF Of, The, named
<1>5. SaysLast'
  <2> SUFFICES ASSUME NEW m \in Ids, m \notin reworded'
               PROVE  rows'[m].content = lastSaid'[m]
    BY DEF SaysLast
  <2>1. rows[m].content = lastSaid[m]
    BY <1>2 DEF TextInv, SaysLast
  <2>2. CASE Of(m) = {}
    BY <1>3, <2>1, <2>2
  <2>3. CASE Of(m) # {}
    <3>1. PICK t \in tx[r] :
                /\ t.item.id = m
                /\ t.item.event = "DELETE" =>
                      rows'[m].content = rows[m].content /\ lastSaid'[m] = lastSaid[m]
                /\ t.item.event # "DELETE" => t.how # "none" /\ lastSaid'[m] = t.item.memory
                /\ t.worded => rows'[m].content = t.item.memory
                /\ ~t.worded => rows'[m].content = rows[m].content
      BY <1>4, <2>3
    <3>2. Unchanged(t) /\ m \notin reworded
      BY <1>2 DEF TextInv, FlushedHold
    <3>3. t.worded \in BOOLEAN
      BY DEF IInv, Typed, Changes
    <3>4. QED BY <2>1, <3>1, <3>2, <3>3 DEF Unchanged
  <2>4. QED BY <2>2, <2>3
<1>6. RepeatsHold'
  <2> SUFFICES ASSUME NEW q \in Requests, NEW m \in Ids, Repeats(q, m)', m \notin reworded'
               PROVE  rows'[m].content = Item(q)'.memory
    BY DEF RepeatsHold
  <2>1. q # r
    BY <1>2 DEF Repeats
  <2>2. Item(q)' = Item(q) /\ Repeats(q, m)
    BY <1>2, <2>1 DEF Repeats, Item
  <2>3. rows[m].content = Item(q).memory
    BY <1>2, <2>2 DEF TextInv, RepeatsHold
  <2>4. rows[m] # NoRow
    <3>1. items[q] # <<>>
      BY <2>2 DEF Repeats, IInv, Hands, Hand, InLoop
    <3>2. Says(Item(q))
      BY <3>1, ItemIsItem DEF IInv, Hands, Hand
    <3>3. Item(q).memory \in Contents
      BY <2>2, <3>2 DEF Repeats, Says
    <3>4. QED BY <2>3, <3>3, RowTypes DEF IInv, Typed
  <2>5. rows'[m].content = rows[m].content
    BY <1>1, <2>1, <2>2, <2>4
  <2>6. QED BY <2>2, <2>3, <2>5
<1>7. FlushedHold'
  <2> SUFFICES ASSUME NEW q \in Requests, NEW u \in tx'[q],
                      u.item.event # "DELETE", ~u.worded, u.item.id \notin reworded'
               PROVE  rows'[u.item.id].content = u.item.memory
    BY DEF FlushedHold, Unchanged
  <2>1. q # r /\ u \in tx[q]
    BY <1>2
  <2> DEFINE m == u.item.id
  <2>2. m \in Ids /\ u.how # "none" /\ rows[m].content = u.item.memory
    BY <1>2, <2>1 DEF IInv, Typed, Changes, Items, AllGrounded, Grounded, TextInv,
                      FlushedHold, Unchanged
  <2> HIDE DEF m
  <2>3. CASE Of(m) = {}
    BY <1>3, <2>2, <2>3 DEF m
  <2>4. CASE Of(m) # {}
    <3>1. PICK t \in tx[r] :
                /\ t.item.id = m
                /\ t.item.event = "DELETE" =>
                      rows'[m].content = rows[m].content /\ lastSaid'[m] = lastSaid[m]
                /\ t.item.event # "DELETE" => t.how # "none" /\ lastSaid'[m] = t.item.memory
                /\ t.worded => rows'[m].content = t.item.memory
                /\ ~t.worded => rows'[m].content = rows[m].content
      BY <1>4, <2>2, <2>4
    <3>2. t.how = "none"
      BY <2>1, <2>2, <3>1 DEF Locked, m
    <3>3. rows'[m].content = rows[m].content
      BY <3>1, <3>2
    <3>4. QED BY <2>2, <3>3 DEF m
  <2>5. QED BY <2>3, <2>4
<1>8. QED BY <1>2, <1>5, <1>6, <1>7 DEF TextInv

LEMMA NextTexts == IInv /\ Locked /\ TextInv /\ [Next]_vars => TextInv'
<1> SUFFICES ASSUME IInv, Locked, TextInv, [Next]_vars PROVE TextInv'
  OBVIOUS
<1>1. IInv'
  BY NextInv
<1>2. CASE UNCHANGED vars
  BY <1>1, <1>2, TextsKept DEF vars, pgVars, requestVars
<1>3. ASSUME NEW r \in Requests, AddNoop(r) PROVE TextInv'
  BY <1>1, <1>3, TextsKept DEF AddNoop, requestVars
<1>4. ASSUME NEW r \in Requests,
             \/ AddStart(r)
             \/ \E m \in Ids : DeleteStart(r, m)
             \/ MirrorStep(r)
             \/ Raise(r)
      PROVE  TextInv'
  <2>1. CASE FlushRow(r)
    BY <1>1, <2>1, FlushTexts
  <2>2. CASE Commit(r)
    BY <1>1, <2>2, CommitTexts
  <2>3. CASE ~FlushRow(r) /\ ~Commit(r)
    <3>1. tx'[r] \subseteq tx[r]
      BY <1>4, <2>3, FlushedOnly DEF IInv
    <3>2. \A q \in Requests : q # r => /\ pc'[q] = pc[q] /\ items'[q] = items[q]
                                       /\ seen'[q] = seen[q] /\ tx'[q] = tx[q]
      BY <1>4, OnlyItself DEF IInv
    <3>3. UNCHANGED <<lastSaid, reworded>>
      BY <1>4, <2>3 DEF AddStart, DeleteStart, MirrorStep, GetRow, GraphClose, GraphUpsert,
                        NextItem, RemoteDelete, CommitDelete, CloseDeleted, Raise, pgVars
    <3>4. \A m \in Ids : rows'[m].content = rows[m].content
      <4>1. CASE CommitDelete(r)
        <5>1. rows' = [rows EXCEPT ![Item(r).id].active = FALSE] /\ pc[r] = "delete"
          BY <4>1 DEF CommitDelete
        <5>2. Item(r).id \in Ids /\ rows[Item(r).id] # NoRow
          BY <5>1, ItemIsItem DEF IInv, Hands, Hand, Deleting
        <5>3. rows[Item(r).id] \in [content : Contents, active : BOOLEAN]
          BY <5>2 DEF IInv, Typed, Rows
        <5>4. QED BY <5>1, <5>2, <5>3 DEF IInv, Typed
      <4>2. CASE ~CommitDelete(r)
        <5>1. rows' = rows
          BY <1>4, <2>3, <4>2
             DEF AddStart, DeleteStart, MirrorStep, GetRow, GraphClose, GraphUpsert,
                 NextItem, RemoteDelete, CloseDeleted, Raise, pgVars
        <5>2. QED BY <5>1
      <4>3. QED BY <4>1, <4>2
    <3>5. pc'[r] = "flush" => seen'[r] = rows[Item(r)'.id]
      <4>1. CASE GetRow(r)
        BY <4>1 DEF GetRow, Item, IInv, Typed
      <4>2. CASE ~GetRow(r)
        BY <1>4, <2>3, <4>2
           DEF AddStart, DeleteStart, Begin, MirrorStep, GraphClose, GraphUpsert, NextItem,
               RemoteDelete, CommitDelete, CloseDeleted, Raise, Return, Goto, IInv, Typed
      <4>3. QED BY <4>1, <4>2
    <3>6. QED BY <1>1, <3>1, <3>2, <3>3, <3>4, <3>5, TextsKept
  <2>4. QED BY <2>1, <2>2, <2>3
<1>5. QED BY <1>2, <1>3, <1>4, StepShape

\* Of two requests with changes of one memory in hand, at most one has
\* written its row (a row written by a transaction is locked until it ends).
THEOREM RowsAreLocked == Spec => []Locked
<1>1. Init => Locked
  BY DEF Init, Locked
<1>2. QED BY <1>1, NextLocked, MirrorIsGrounded, PTL DEF Spec

\* The texts of rows, of events and of what requests have in hand go together.
THEOREM TextsGoTogether == Spec => []TextInv
<1>1. Init => TextInv
  BY DEF Init, TextInv, SaysLast, RepeatsHold, Repeats, FlushedHold, NoRow
<1>2. QED BY <1>1, NextTexts, MirrorIsGrounded, RowsAreLocked, PTL DEF Spec

\* Whatever interleaves, deadlocks, fails or dies: a row that was not reworded
\* under a request that was to repeat its text says what its latest ADD or
\* UPDATE event says; an inactive one has a DELETE event, and no event names a
\* row that is missing (mem0_backend.py's one transaction per answer).
THEOREM RowsAreAudited == Spec => []AuditExplainsRows
<1>1. IInv /\ TextInv => AuditExplainsRows
  BY DEF IInv, EndsAudited, TextInv, SaysLast, AuditExplainsRows
<1>2. QED BY <1>1, MirrorIsGrounded, TextsGoTogether, PTL

-----------------------------------------------------------------------------
(* One request at a time.  While no two requests have been in flight at    *)
(* once, nothing changes between the read of a row and the commit of the   *)
(* changes that were made of it, whatever else fails.                      *)

Alone == \A q, r \in Requests : pc[q] # "idle" /\ pc[r] # "idle" => q = r

Replays ==
    \A m \in Ids : rows[m].active <=> lastEvent[m] \in {"ADD", "UPDATE"}

SeenIsCurrent == \A r \in Requests : pc[r] = "flush" => seen[r] = rows[Item(r).id]

\* A flushed change turns the row it is about as its event says, or the row
\* is turned so already.
TurnedAsNeeded ==
    \A r \in Requests : \A t \in tx[r] :
        ~t.loose => (t.turned <=> (rows[t.item.id].active # (t.item.event # "DELETE")))

SoleFacts == Alone /\ Replays /\ SeenIsCurrent /\ TurnedAsNeeded /\ reworded = {}

Sole == ~overlapped => SoleFacts

\* What has happened has happened.
LEMMA HistoryGrows ==
    ASSUME [Next]_vars, faults \in Nat
    PROVE  /\ faults' \in Nat
           /\ faults' = 0 => faults = 0
           /\ troubled => troubled'
           /\ overlapped => overlapped'
<1>1. Fault => faults' \in Nat /\ faults' # 0
  BY DEF Fault
<1>2. ASSUME NEW r \in Requests, Call(r)
      PROVE  UNCHANGED <<faults, troubled>> /\ (overlapped => overlapped')
  <2>1. CASE AddNoop(r)
    BY <2>1 DEF AddNoop
  <2>2. ASSUME NEW l, Begin(r, l)
        PROVE  UNCHANGED <<faults, troubled>> /\ (overlapped => overlapped')
    BY <2>2, Zenon DEF Begin
  <2>3. QED BY <1>2, <2>1, <2>2 DEF Call, AddStart, DeleteStart
<1>3. ASSUME NEW r \in Requests, Raise(r) PROVE troubled' /\ UNCHANGED overlapped
  BY <1>3 DEF Raise
<1>4. ASSUME NEW r \in Requests, Step(r)
      PROVE  /\ Fault \/ UNCHANGED faults
             /\ troubled => troubled'
             /\ overlapped => overlapped'
  BY <1>3, <1>4
     DEF Step, GetRow, FlushRow, FlushConflict, AbortDeadlocked, GraphClose,
         GraphUpsert, GraphFails, AnswerUnreadable, NextItem, Commit, RemoteDelete,
         RemoteMissing, CommitDelete, CloseDeleted, historyVars
<1>5. ASSUME NEW r \in Requests, Die(r)
      PROVE  Fault /\ troubled' /\ UNCHANGED overlapped
  BY <1>3, <1>5 DEF Die
<1>6. CASE UNCHANGED vars
  BY <1>6 DEF vars, historyVars
<1>7. QED BY <1>1, <1>2, <1>4, <1>5, <1>6 DEF Next

\* A step of a request that is alone: the others have nothing in hand.
LEMMA OthersIdle ==
    ASSUME IInv, Alone, NEW r \in Requests,
           \/ pc[r] # "idle" /\ (MirrorStep(r) \/ Raise(r))
           \/ ~overlapped' /\ (AddStart(r) \/ \E m \in Ids : DeleteStart(r, m))
    PROVE  \A q \in Requests : q # r =>
              /\ pc[q] = "idle" /\ items[q] = <<>> /\ tx[q] = {}
              /\ pc'[q] = "idle" /\ items'[q] = <<>> /\ tx'[q] = {}
<1>1. \A q \in Requests : q # r => pc[q] = "idle"
  BY DEF Alone, AddStart, DeleteStart, Begin
<1>2. \A q \in Requests : pc[q] = "idle" => items[q] = <<>> /\ tx[q] = {}
  BY DEF IInv, Hands, Hand
<1>3. QED BY <1>1, <1>2, OnlyItself DEF IInv

\* A request that takes a step of its own is in flight.
LEMMA MirrorStepInFlight ==
    ASSUME NEW r \in Requests, MirrorStep(r)
    PROVE  pc[r] # "idle"
BY DEF MirrorStep, GetRow, FlushRow, GraphClose, GraphUpsert, NextItem, Commit,
       RemoteDelete, CommitDelete, CloseDeleted

\* A step that leaves the table and its audit trail alone.
LEMMA TableLeftAlone ==
    ASSUME SoleFacts, UNCHANGED <<rows, lastEvent, reworded>>, Alone',
           \A q \in Requests :
              /\ pc'[q] = "flush" => \/ seen'[q] = rows[Item(q)'.id]
                                     \/ pc[q] = "flush" /\ UNCHANGED <<seen[q], items[q]>>
              /\ \A t \in tx'[q] :
                    \/ t \in tx[q]
                    \/ ~t.loose => (t.turned <=>
                          (rows[t.item.id].active # (t.item.event # "DELETE")))
    PROVE  SoleFacts'
<1>1. Replays' BY DEF SoleFacts, Replays
<1>2. SeenIsCurrent' BY DEF SoleFacts, SeenIsCurrent, Item
<1>3. TurnedAsNeeded' BY DEF SoleFacts, TurnedAsNeeded
<1>4. QED BY <1>1, <1>2, <1>3 DEF SoleFacts

\* The flushed change turns the row if it has to, by what was read; nobody
\* has changed the row since.
LEMMA FlushTurns ==
    ASSUME IInv, SoleFacts, Alone', NEW r \in Requests, FlushRow(r)
    PROVE  SoleFacts'
<1> DEFINE i == Item(r)
           s == seen[r]
           t == [item |-> i, how |-> How(i, s), worded |-> Worded(i, s),
                 turned |-> Turned(i, s), loose |-> Loose(i, s)]
<1>1. /\ UNCHANGED <<rows, lastEvent, reworded, items, seen>>
      /\ pc[r] = "flush"
      /\ pc'[r] # "flush"
      /\ tx' = [tx EXCEPT ![r] = @ \cup {t}]
      /\ \A q \in Requests : q # r => pc'[q] = pc[q]
  BY DEF FlushRow, Goto, pgVars, IInv, Typed
<1>2. s = rows[i.id]
  BY <1>1 DEF SoleFacts, SeenIsCurrent
<1>3. ~t.loose => (t.turned <=> (rows[t.item.id].active # (t.item.event # "DELETE")))
  <2>1. /\ t.item = i
        /\ t.turned = (s.active # (i.event # "DELETE") /\ ~Loose(i, s))
        /\ t.loose = Loose(i, s)
    BY DEF Turned
  <2> HIDE DEF t
  <2>2. QED BY <1>2, <2>1
<1>4. \A q \in Requests : \A u \in tx'[q] : u \in tx[q] \/ u = t
  BY <1>1 DEF IInv, Typed
<1> HIDE DEF t
<1>5. QED BY <1>1, <1>3, <1>4, TableLeftAlone

\* The commit turns every row as its last event says.
LEMMA CommitReplays ==
    ASSUME IInv, SoleFacts, Alone', NEW r \in Requests, Commit(r)
    PROVE  SoleFacts'
<1> DEFINE named == {t \in tx[r] : ~t.loose}
           Of(m) == {t \in named : t.item.id = m}
           The(m) == CHOOSE t \in Of(m) : TRUE
<1>1. /\ rows' = [m \in Ids |-> IF Of(m) = {} THEN rows[m] ELSE Result(rows[m], The(m))]
      /\ lastEvent' = [m \in Ids |-> IF Of(m) = {} THEN lastEvent[m]
                                                  ELSE The(m).item.event]
      /\ pc[r] = "commit"
      /\ pc'[r] = "idle"
      /\ tx'[r] = {}
      /\ reworded' \subseteq reworded \cup
            {m \in Ids : \E q \in Requests \ {r} : Repeats(q, m)}
  BY DEF Commit, Pending, Return, Goto, IInv, Typed
<1>2. /\ \A q \in Requests : q # r => pc'[q] = "idle" /\ tx'[q] = {}
      /\ reworded' = {}
  BY <1>1, OthersIdle DEF SoleFacts, MirrorStep, Repeats
<1>3. ASSUME NEW m \in Ids
      PROVE  rows'[m].active <=> lastEvent'[m] \in {"ADD", "UPDATE"}
  <2>1. CASE Of(m) = {}
    BY <1>1, <2>1 DEF SoleFacts, Replays
  <2>2. CASE Of(m) # {}
    <3> DEFINE t == The(m)
    <3>1. t \in tx[r] /\ ~t.loose /\ t.item.id = m
      <4>1. t \in Of(m)
        BY <2>2
      <4>2. QED BY <4>1
    <3>2. rows'[m] = Result(rows[m], t) /\ lastEvent'[m] = t.item.event
      BY <1>1, <2>2
    <3> HIDE DEF t
    <3>3. t.turned <=> (rows[m].active # (t.item.event # "DELETE"))
      BY <3>1 DEF SoleFacts, TurnedAsNeeded
    <3>4. t.item.event \in Events /\ t.turned \in BOOLEAN
      BY <3>1 DEF IInv, Typed, Changes, Items
    <3>5. rows[m].active \in BOOLEAN
      BY RowTypes DEF IInv, Typed
    <3>6. rows'[m].active = IF t.turned THEN t.item.event # "DELETE" ELSE rows[m].active
      BY <3>2 DEF Result
    <3>7. rows'[m].active <=> t.item.event # "DELETE"
      BY <3>3, <3>4, <3>5, <3>6
    <3>8. QED BY <3>2, <3>4, <3>7 DEF Events
  <2>3. QED BY <2>1, <2>2
<1>4. QED
  BY <1>1, <1>2, <1>3 DEF SoleFacts, Replays, SeenIsCurrent, TurnedAsNeeded

\* The delete's commit does too, and no change is flushed meanwhile.
LEMMA CommitDeleteReplays ==
    ASSUME IInv, SoleFacts, Alone', NEW r \in Requests, CommitDelete(r)
    PROVE  SoleFacts'
<1> DEFINE m == Item(r).id
<1>1. /\ rows' = [rows EXCEPT ![m].active = FALSE]
      /\ lastEvent' = [lastEvent EXCEPT ![m] = "DELETE"]
      /\ pc[r] = "delete"
      /\ pc'[r] = "delclose"
      /\ UNCHANGED <<tx, reworded>>
  BY DEF CommitDelete, Goto, IInv, Typed
<1>2. tx[r] = {} /\ m \in Ids /\ rows[m] # NoRow
  BY <1>1, ItemIsItem DEF IInv, Hands, Hand, Deleting
<1>3. \A q \in Requests : q # r => pc'[q] = "idle" /\ tx'[q] = {}
  BY <1>1, OthersIdle DEF SoleFacts, MirrorStep
<1> HIDE DEF m
<1>4. ASSUME NEW l \in Ids
      PROVE  rows'[l].active <=> lastEvent'[l] \in {"ADD", "UPDATE"}
  <2>1. CASE l = m
    <3>1. rows[m] \in [content : Contents, active : BOOLEAN]
      BY <1>2 DEF IInv, Typed, Rows
    <3>2. ~rows'[l].active
      BY <1>1, <1>2, <2>1, <3>1 DEF IInv, Typed
    <3>3. lastEvent'[l] = "DELETE"
      BY <1>1, <1>2, <2>1 DEF IInv, Typed
    <3>4. QED BY <3>2, <3>3
  <2>2. CASE l # m
    BY <1>1, <2>2 DEF SoleFacts, Replays, IInv, Typed
  <2>3. QED BY <2>1, <2>2
<1>5. QED
  BY <1>1, <1>2, <1>3, <1>4 DEF SoleFacts, Replays, SeenIsCurrent, TurnedAsNeeded

\* Every step of the one request in flight keeps what is true of it.
LEMMA NextSole == IInv /\ Sole /\ faults \in Nat /\ [Next]_vars => Sole'
<1> SUFFICES ASSUME IInv, Sole, faults \in Nat, [Next]_vars, ~overlapped'
             PROVE  SoleFacts'
  BY DEF Sole
<1>1. SoleFacts
  BY HistoryGrows DEF Sole
<1>2. ASSUME UNCHANGED <<rows, lastEvent, reworded, pc, items, seen, tx>> PROVE SoleFacts'
  BY <1>1, <1>2 DEF SoleFacts, Alone, Replays, SeenIsCurrent, TurnedAsNeeded, Item
<1>3. ASSUME NEW r \in Requests, AddNoop(r) PROVE SoleFacts'
  BY <1>2, <1>3 DEF AddNoop, requestVars
<1>4. ASSUME NEW r \in Requests, AddStart(r) \/ \E m \in Ids : DeleteStart(r, m)
      PROVE  SoleFacts'
  <2>1. Alone'
    BY <1>1, <1>4, OthersIdle DEF SoleFacts, Alone
  <2>2. UNCHANGED <<rows, lastEvent, reworded, tx>> /\ pc'[r] \in {"get", "remote"}
    BY <1>4 DEF AddStart, DeleteStart, Begin, Goto, pgVars, IInv, Typed
  <2>3. \A q \in Requests : pc'[q] # "flush"
    BY <1>1, <1>4, <2>2, OthersIdle DEF SoleFacts
  <2>4. QED BY <1>1, <2>1, <2>2, <2>3, TableLeftAlone
<1>5. ASSUME NEW r \in Requests, pc[r] # "idle", MirrorStep(r) \/ Raise(r)
      PROVE  SoleFacts'
  <2>1. Alone' /\ \A q \in Requests : q # r => pc'[q] = "idle" /\ tx'[q] = {}
    BY <1>1, <1>5, OthersIdle DEF SoleFacts, Alone
  <2>2. CASE FlushRow(r)
    BY <1>1, <2>1, <2>2, FlushTurns
  <2>3. CASE Commit(r)
    BY <1>1, <2>1, <2>3, CommitReplays
  <2>4. CASE CommitDelete(r)
    BY <1>1, <2>1, <2>4, CommitDeleteReplays
  <2>5. CASE GetRow(r)
    <3>1. /\ UNCHANGED <<rows, lastEvent, reworded, tx>>
          /\ seen'[r] = rows[Item(r).id]
          /\ Item(r)' = Item(r)
      BY <2>5 DEF GetRow, pgVars, IInv, Typed, Item
    <3>2. QED BY <1>1, <2>1, <3>1, TableLeftAlone
  <2>6. CASE \/ GraphClose(r) \/ GraphUpsert(r) \/ NextItem(r) \/ RemoteDelete(r)
             \/ CloseDeleted(r) \/ Raise(r)
    <3>1. UNCHANGED <<rows, lastEvent, reworded>> /\ pc'[r] # "flush"
      BY <2>6 DEF GraphClose, GraphUpsert, NextItem, RemoteDelete, CloseDeleted, Raise,
                  Return, Goto, pgVars, IInv, Typed
    <3>2. tx'[r] \subseteq tx[r]
      BY <2>6 DEF GraphClose, GraphUpsert, NextItem, RemoteDelete, CloseDeleted, Raise,
                  Return, IInv, Typed
    <3>3. QED BY <1>1, <2>1, <3>1, <3>2, TableLeftAlone
  <2>7. QED BY <1>5, <2>2, <2>3, <2>4, <2>5, <2>6 DEF MirrorStep
<1>6. CASE UNCHANGED vars
  BY <1>2, <1>6 DEF vars, pgVars, requestVars
<1>7. QED BY <1>3, <1>4, <1>5, <1>6, StepShape, MirrorStepInFlight

\* While requests come one at a time, whether a row is active is what the last
\* event of its memory says, whatever fails or is rolled back.
THEOREM AuditTrailReplays == Spec => []AuditReplays
<1>1. Init => faults \in Nat /\ Sole
  BY RowTypes DEF Init, Sole, SoleFacts, Alone, Replays, SeenIsCurrent, TurnedAsNeeded,
                  NoRow
<1>2. IInv /\ (faults \in Nat /\ Sole) /\ [Next]_vars => (faults \in Nat /\ Sole)'
  BY NextSole, HistoryGrows
<1>3. Sole => AuditReplays
  BY DEF Sole, SoleFacts, Replays, AuditReplays
<1>4. QED BY <1>1, <1>2, <1>3, MirrorIsGrounded, PTL DEF Spec

-----------------------------------------------------------------------------
(* The three stores.  One request at a time, nothing failed and nothing    *)
(* rolled back: what is not in the request's hands agrees in all three,    *)
(* and what is agrees as far as the request has come with it.              *)

\* Mem0 has given out every id it has a memory of.
RemoteOK ==
    /\ remote \in [Ids -> Contents \cup {NoContent}]
    /\ \A m \in Ids : m > issued => remote[m] = NoContent
    /\ faults \in Nat

\* The items a request has in hand: to be mirrored, or flushed.
Work(r) == {items[r][k] : k \in DOMAIN items[r]} \cup {t.item : t \in tx[r]}

NoEdges(m) == \A f \in Facts : openEdges[m][f] = 0

EdgesMirrored(m) == openEdges[m] = [f \in Facts |-> IF f = remote[m] THEN 1 ELSE 0]

\* What the item's turn will find: a new memory has no edge yet, one that
\* Mem0 has dropped is active still.
Ahead(i) ==
    /\ i.event = "ADD" => NoEdges(i.id)
    /\ i.event = "DELETE" => rows[i.id].active

\* The items are about different memories, and say what Mem0 says of them.
Answered(r) ==
    /\ \A i, j \in Work(r) : i.id = j.id => i = j
    /\ \A k, l \in DOMAIN items[r] : items[r][k] = items[r][l] => k = l
    /\ \A i \in Work(r) : i.event = "DELETE" => i.memory = NoContent
    /\ pc[r] # "remote" => \A i \in Work(r) : remote[i.id] = i.memory

\* How far the request has come with each of them.
Progress(r) ==
    /\ pc[r] \in Deleting => Len(items[r]) = 1
    /\ pc[r] = "delclose" => ~rows[Item(r).id].active
    /\ pc[r] \in InLoop =>
          \A k \in DOMAIN items[r] :
              k > 1 \/ pc[r] \in {"get", "flush"} => Ahead(items[r][k])
    /\ pc[r] = "upsert" => NoEdges(Item(r).id)
    /\ \A t \in tx[r] :
          /\ ~t.loose
          /\ \/ pc[r] \in {"close", "upsert"} /\ t.item = Item(r)
             \/ EdgesMirrored(t.item.id)

Untouched(m) == \A r \in Requests : \A i \in Work(r) : i.id # m

SmoothFacts ==
    /\ \A m \in Ids : Untouched(m) => Mirrored(m)
    /\ \A r \in Requests : Answered(r) /\ Progress(r)

Smooth == ~troubled /\ faults = 0 /\ ~overlapped => SmoothFacts

\* The facts a step needs of the request that takes it, and those it leaves.
InHand(r) ==
    /\ \A m \in Ids : (\A i \in Work(r) : i.id # m) => Mirrored(m)
    /\ Answered(r)
    /\ Progress(r)

\* What is in no request's hands is in none of the one in flight.
LEMMA HandOfOne ==
    ASSUME SmoothFacts, NEW r \in Requests,
           \A q \in Requests : q # r => items[q] = <<>> /\ tx[q] = {}
    PROVE  InHand(r)
<1>1. \A q \in Requests : q # r => Work(q) = {}
  BY DEF Work
<1>2. QED BY <1>1 DEF SmoothFacts, InHand, Untouched

\* The idle requests have nothing in hand to answer for.
LEMMA OneHandLeft ==
    ASSUME NEW r \in Requests, InHand(r)',
           \A q \in Requests : q # r =>
               pc'[q] = "idle" /\ items'[q] = <<>> /\ tx'[q] = {}
    PROVE  SmoothFacts'
<1>1. ASSUME NEW q \in Requests, q # r PROVE (Answered(q) /\ Progress(q))'
  BY <1>1 DEF Answered, Progress, Work, InLoop, Deleting
<1>2. QED BY <1>1 DEF SmoothFacts, InHand, Untouched

\* Items in hand are items, and the one in turn is in hand.
LEMMA WorkItems ==
    ASSUME Typed, NEW r \in Requests
    PROVE  /\ \A i \in Work(r) : i \in Items /\ i.id \in Ids
           /\ items[r] # <<>> => Item(r) \in Work(r)
<1>1. \A k \in DOMAIN items[r] : items[r][k] \in Items
  BY DEF Typed
<1>2. \A t \in tx[r] : t.item \in Items
  BY DEF Typed, Changes
<1>3. items[r] # <<>> => Item(r) \in Work(r)
  BY ItemIsItem DEF Work
<1>4. QED BY <1>1, <1>2, <1>3 DEF Work, Items

\* The items that come after the one in turn are about other memories.
LEMMA OtherItems ==
    ASSUME Typed, NEW r \in Requests, Answered(r), items[r] # <<>>
    PROVE  /\ \A k \in DOMAIN items[r] : k > 1 => items[r][k].id # Item(r).id
           /\ \A i \in Work(r) : i # Item(r) => i.id # Item(r).id
<1>1. Item(r) = items[r][1] /\ 1 \in DOMAIN items[r] /\ Item(r) \in Work(r)
  BY ItemIsItem, WorkItems
<1>2. \A k \in DOMAIN items[r] : items[r][k] \in Work(r)
  BY DEF Work
<1>3. ASSUME NEW k \in DOMAIN items[r], k > 1 PROVE items[r][k] # Item(r)
  BY <1>1, <1>3 DEF Answered
<1>4. QED BY <1>1, <1>2, <1>3 DEF Answered

StoresKept(m) ==
    rows'[m] = rows[m] /\ remote'[m] = remote[m] /\ openEdges'[m] = openEdges[m]

\* A memory that a step leaves alone in all three stores.
LEMMA KeptMirrored ==
    ASSUME NEW m \in Ids, StoresKept(m)
    PROVE  /\ Mirrored(m) => Mirrored(m)'
           /\ NoEdges(m) => NoEdges(m)'
           /\ EdgesMirrored(m) => EdgesMirrored(m)'
BY DEF StoresKept, Mirrored, Shown, NoEdges, EdgesMirrored

-----------------------------------------------------------------------------
LEMMA GetRowInHand ==
    ASSUME IInv, NEW r \in Requests, InHand(r), GetRow(r)
    PROVE  InHand(r)'
<1>1. /\ UNCHANGED <<rows, remote, openEdges, items, tx>>
      /\ pc[r] = "get" /\ pc'[r] = "flush"
  BY DEF GetRow, Goto, mem0Vars, pgVars, IInv, Typed
<1>2. Work(r)' = Work(r)
  BY <1>1 DEF Work
<1>3. Answered(r)'
  BY <1>1, <1>2 DEF InHand, Answered
<1>4. Progress(r)'
  BY <1>1 DEF InHand, Progress, InLoop, Deleting, Ahead, NoEdges, EdgesMirrored
<1>5. \A m \in Ids : StoresKept(m)
  BY <1>1 DEF StoresKept
<1>6. QED BY <1>2, <1>3, <1>4, <1>5, KeptMirrored DEF InHand

\* A DELETE finds its row, so its event names it.
LEMMA FlushRowInHand ==
    ASSUME IInv, SoleFacts, NEW r \in Requests, InHand(r), FlushRow(r)
    PROVE  InHand(r)'
<1> DEFINE i == Item(r)
           s == seen[r]
           t == [item |-> i, how |-> How(i, s), worded |-> Worded(i, s),
                 turned |-> Turned(i, s), loose |-> Loose(i, s)]
<1>1. /\ UNCHANGED <<rows, remote, openEdges, items>>
      /\ pc[r] = "flush"
      /\ pc'[r] = IF Closes(i) THEN "close" ELSE "upsert"
      /\ tx'[r] = tx[r] \cup {t}
  BY DEF FlushRow, Goto, mem0Vars, pgVars, IInv, Typed
<1>2. /\ items[r] # <<>> /\ i = items[r][1] /\ 1 \in DOMAIN items[r]
      /\ i \in Work(r) /\ i.event \in Events
  BY <1>1, ItemIsItem, WorkItems DEF IInv, Hands, Hand, InLoop
<1>3. Ahead(i)
  BY <1>1, <1>2 DEF InHand, Progress, InLoop
<1>4. ~Loose(i, s)
  BY <1>1, <1>3 DEF Loose, Ahead, NoRow, SoleFacts, SeenIsCurrent
<1>5. ~t.loose /\ t.item = i
  BY <1>4
<1> HIDE DEF t
<1>6. Work(r)' = Work(r)
  BY <1>1, <1>2, <1>5 DEF Work
<1>7. Answered(r)'
  BY <1>1, <1>6 DEF InHand, Answered
<1>8. Progress(r)'
  <2>1. Item(r)' = Item(r)
    BY <1>1 DEF Item
  <2>2. \A k \in DOMAIN items[r] : Ahead(items[r][k])'
    BY <1>1 DEF InHand, Progress, InLoop, Ahead, NoEdges
  <2>3. pc'[r] = "upsert" => NoEdges(i.id)'
    BY <1>1, <1>2, <1>3, <2>1 DEF Closes, Events, Ahead, NoEdges
  <2>4. \A u \in tx'[r] : ~u.loose /\ (u.item = i \/ EdgesMirrored(u.item.id)')
    BY <1>1, <1>5 DEF InHand, Progress, EdgesMirrored
  <2>5. pc'[r] \in {"close", "upsert"}
    BY <1>1
  <2>6. QED BY <1>1, <2>1, <2>2, <2>3, <2>4, <2>5 DEF Progress, Deleting, Ahead
<1>9. \A m \in Ids : StoresKept(m)
  BY <1>1 DEF StoresKept
<1>10. QED BY <1>6, <1>7, <1>8, <1>9, KeptMirrored DEF InHand

\* A graph write for the item in turn, which ends with the right edges or
\* with none to follow.
LEMMA GraphWriteInHand ==
    ASSUME IInv, NEW r \in Requests, InHand(r),
           pc[r] \in {"close", "upsert"}, pc'[r] \in {"upsert", "next"},
           UNCHANGED <<rows, remote, items, tx>>,
           \A m \in Ids : m # Item(r).id => openEdges'[m] = openEdges[m],
           pc'[r] = "upsert" => NoEdges(Item(r).id)',
           pc'[r] = "next" => EdgesMirrored(Item(r).id)'
    PROVE  InHand(r)'
<1>1. items[r] # <<>> /\ Item(r)' = Item(r) /\ Item(r) \in Work(r)
  BY WorkItems DEF IInv, Hands, Hand, InLoop, Item
<1>2. Work(r)' = Work(r)
  BY DEF Work
<1>3. Answered(r)'
  BY <1>2 DEF InHand, Answered
<1>4. \A m \in Ids : m # Item(r).id => StoresKept(m)
  BY DEF StoresKept
<1>5. Progress(r)'
  <2>1. ASSUME NEW k \in DOMAIN items[r], k > 1 PROVE Ahead(items[r][k])'
    <3>1. items[r][k].id # Item(r).id /\ items[r][k].id \in Ids
      BY <1>1, <2>1, OtherItems, WorkItems DEF IInv, InHand, Work
    <3>2. Ahead(items[r][k])
      BY <2>1 DEF InHand, Progress, InLoop
    <3>3. QED BY <1>4, <3>1, <3>2, KeptMirrored DEF Ahead
  <2>2. ASSUME NEW t \in tx[r], t.item # Item(r) PROVE EdgesMirrored(t.item.id)'
    <3>1. t.item.id # Item(r).id /\ t.item.id \in Ids
      BY <1>1, <2>2, OtherItems, WorkItems DEF IInv, InHand, Work
    <3>2. EdgesMirrored(t.item.id)
      BY <2>2 DEF InHand, Progress
    <3>3. QED BY <1>4, <3>1, <3>2, KeptMirrored
  <2>3. \A t \in tx[r] : ~t.loose
    BY DEF InHand, Progress
  <2>4. QED BY <1>1, <2>1, <2>2, <2>3 DEF Progress, Deleting
<1>6. ASSUME NEW m \in Ids, \A i \in Work(r) : i.id # m PROVE Mirrored(m)'
  BY <1>1, <1>4, <1>6, KeptMirrored DEF InHand
<1>7. QED BY <1>2, <1>3, <1>5, <1>6 DEF InHand

LEMMA GraphCloseInHand ==
    ASSUME IInv, NEW r \in Requests, InHand(r), GraphClose(r)
    PROVE  InHand(r)'
<1>1. /\ UNCHANGED <<rows, remote, items, tx>>
      /\ pc[r] = "close"
      /\ pc'[r] = IF Item(r).event = "DELETE" THEN "next" ELSE "upsert"
      /\ openEdges' = [openEdges EXCEPT ![Item(r).id] = [f \in Facts |-> 0]]
  BY DEF GraphClose, Closed, Goto, mem0Vars, pgVars, IInv, Typed
<1>2. Item(r).id \in Ids /\ Item(r) \in Work(r)
  BY <1>1, ItemIsItem, WorkItems DEF IInv, Hands, Hand, InLoop
<1>3. openEdges'[Item(r).id] = [f \in Facts |-> 0]
  BY <1>1, <1>2 DEF IInv, Typed
<1>4. NoEdges(Item(r).id)'
  BY <1>1, <1>3 DEF NoEdges, Item
<1>5. ASSUME pc'[r] = "next" PROVE EdgesMirrored(Item(r).id)'
  <2>1. remote[Item(r).id] = NoContent
    BY <1>1, <1>2, <1>5 DEF InHand, Answered
  <2>2. \A f \in Facts : f # NoContent
    BY TextsAssumption
  <2>3. QED BY <1>1, <1>3, <2>1, <2>2 DEF EdgesMirrored, Item
<1>6. \A m \in Ids : m # Item(r).id => openEdges'[m] = openEdges[m]
  BY <1>1 DEF IInv, Typed
<1>7. QED BY <1>1, <1>4, <1>5, <1>6, GraphWriteInHand

LEMMA GraphUpsertInHand ==
    ASSUME IInv, RemoteOK, NEW r \in Requests, InHand(r), GraphUpsert(r), faults' = 0
    PROVE  InHand(r)'
<1> DEFINE i == Item(r)
<1>1. ~Fault
  BY DEF Fault, RemoteOK
<1>2. /\ UNCHANGED <<rows, remote, items, tx>>
      /\ pc[r] = "upsert"
      /\ pc'[r] = "next"
      /\ \/ i.memory \in Plain /\ openEdges' = openEdges
         \/ i.memory \in Facts /\ openEdges' = [openEdges EXCEPT ![i.id][i.memory] = @ + 1]
  BY <1>1 DEF GraphUpsert, Opened, Goto, mem0Vars, pgVars, IInv, Typed
<1>3. i.id \in Ids /\ i \in Work(r)
  BY <1>2, ItemIsItem, WorkItems DEF IInv, Hands, Hand, InLoop
<1>4. remote[i.id] = i.memory /\ openEdges[i.id] = [f \in Facts |-> 0]
  <2>1. \A f \in Facts : openEdges[i.id][f] = 0
    BY <1>2 DEF InHand, Progress, NoEdges
  <2>2. QED BY <1>2, <1>3, <2>1 DEF InHand, Answered, IInv, Typed
<1>5. openEdges'[i.id] = [f \in Facts |-> IF f = i.memory THEN 1 ELSE 0]
  <2>1. CASE i.memory \in Plain
    BY <1>2, <1>4, <2>1, TextsAssumption
  <2>2. CASE i.memory \in Facts
    <3>1. openEdges'[i.id] = [openEdges[i.id] EXCEPT ![i.memory] = @ + 1]
      BY <1>2, <1>3, <2>2, TextsAssumption DEF IInv, Typed
    <3>2. openEdges'[i.id] = [f \in Facts |->
              IF f = i.memory THEN openEdges[i.id][f] + 1 ELSE openEdges[i.id][f]]
      BY <1>4, <3>1
    <3>3. \A f \in Facts : openEdges[i.id][f] = 0
      BY <1>4
    <3>4. QED BY <3>2, <3>3
  <2>3. QED BY <1>2, <2>1, <2>2
<1>6. EdgesMirrored(i.id)'
  BY <1>2, <1>4, <1>5 DEF EdgesMirrored, Item
<1>7. \A m \in Ids : m # i.id => openEdges'[m] = openEdges[m]
  BY <1>2 DEF IInv, Typed
<1>8. QED BY <1>2, <1>6, <1>7, GraphWriteInHand

\* The loop goes on: the item in turn has been flushed, and stays in hand.
LEMMA NextItemInHand ==
    ASSUME IInv, NEW r \in Requests, InHand(r), NextItem(r)
    PROVE  InHand(r)'
<1>1. /\ UNCHANGED <<rows, remote, openEdges, tx>>
      /\ pc[r] = "next"
      /\ pc'[r] \in {"commit", "get"}
      /\ items'[r] = Tail(items[r])
  BY DEF NextItem, Rest, Goto, mem0Vars, pgVars, IInv, Typed
<1>2. /\ items[r] \in Seq(Items) /\ items[r] # <<>> /\ Item(r) = items[r][1]
      /\ \E t \in tx[r] : t.item = Item(r)
  BY <1>1, ItemIsItem DEF IInv, Typed, Hands, Hand, InLoop
<1>3. /\ \A k \in DOMAIN items'[r] :
            /\ k + 1 \in DOMAIN items[r] /\ k + 1 > 1 /\ k \in Nat
            /\ items'[r][k] = items[r][k + 1]
      /\ \A k \in DOMAIN items[r] :
            k = 1 \/ (k - 1 \in DOMAIN items'[r] /\ items'[r][k - 1] = items[r][k])
  BY <1>1, <1>2
<1>4. Work(r)' = Work(r)
  <2>1. \A k \in DOMAIN items'[r] : \E l \in DOMAIN items[r] : items'[r][k] = items[r][l]
    BY <1>3
  <2>2. \A k \in DOMAIN items[r] :
           \/ \E t \in tx[r] : t.item = items[r][k]
           \/ \E l \in DOMAIN items'[r] : items'[r][l] = items[r][k]
    BY <1>2, <1>3
  <2>3. QED BY <1>1, <2>1, <2>2 DEF Work
<1>5. Answered(r)'
  <2>1. ASSUME NEW k \in DOMAIN items'[r], NEW l \in DOMAIN items'[r],
               items'[r][k] = items'[r][l]
        PROVE  k = l
    <3>1. k + 1 = l + 1
      BY <1>3, <2>1 DEF InHand, Answered
    <3>2. QED BY <1>3, <3>1
  <2>2. QED BY <1>1, <1>4, <2>1 DEF InHand, Answered
<1>6. Progress(r)'
  <2>1. \A k \in DOMAIN items'[r] : Ahead(items[r][k])'
    BY <1>1, <1>3 DEF InHand, Progress, InLoop, Ahead, NoEdges
  <2>2. \A t \in tx'[r] : ~t.loose /\ EdgesMirrored(t.item.id)'
    BY <1>1 DEF InHand, Progress, EdgesMirrored
  <2>3. QED BY <1>1, <2>1, <2>2 DEF Progress, Deleting, Ahead
<1>7. \A m \in Ids : StoresKept(m)
  BY <1>1 DEF StoresKept
<1>8. QED BY <1>4, <1>5, <1>6, <1>7, KeptMirrored DEF InHand

\* A request that is done has nothing in hand: all it needs is that what it
\* had in hand agrees now, too.
LEMMA AllInHandMirrored ==
    ASSUME NEW r \in Requests, pc'[r] = "idle", items'[r] = <<>>, tx'[r] = {},
           \A m \in Ids : Mirrored(m)'
    PROVE  InHand(r)'
BY DEF InHand, Work, Answered, Progress, InLoop, Deleting

\* What was flushed is committed, and is what Mem0 says.
LEMMA CommitInHand ==
    ASSUME IInv, TextInv, SoleFacts, SoleFacts', NEW r \in Requests, InHand(r), Commit(r)
    PROVE  InHand(r)'
<1> DEFINE named == {t \in tx[r] : ~t.loose}
           Of(m) == {t \in named : t.item.id = m}
           The(m) == CHOOSE t \in Of(m) : TRUE
<1>1. /\ rows' = [m \in Ids |-> IF Of(m) = {} THEN rows[m] ELSE Result(rows[m], The(m))]
      /\ lastEvent' = [m \in Ids |-> IF Of(m) = {} THEN lastEvent[m]
                                                  ELSE The(m).item.event]
      /\ UNCHANGED <<remote, openEdges>>
      /\ pc[r] = "commit"
      /\ pc'[r] = "idle" /\ items'[r] = <<>> /\ tx'[r] = {}
  BY DEF Commit, Pending, Return, Goto, mem0Vars, IInv, Typed
<1>2. items[r] = <<>>
  BY <1>1 DEF IInv, Hands, Hand
<1>3. ASSUME NEW m \in Ids PROVE Mirrored(m)'
  <2>1. CASE Of(m) = {}
    <3>1. \A i \in Work(r) : i.id # m
      BY <1>2, <2>1 DEF Work, InHand, Progress
    <3>2. StoresKept(m)
      BY <1>1, <2>1 DEF StoresKept
    <3>3. QED BY <3>1, <3>2, KeptMirrored DEF InHand
  <2>2. CASE Of(m) # {}
    <3> DEFINE t == The(m)
    <3>1. t \in tx[r] /\ ~t.loose /\ t.item.id = m
      <4>1. t \in Of(m)
        BY <2>2
      <4>2. QED BY <4>1
    <3>2. rows'[m] = Result(rows[m], t) /\ lastEvent'[m] = t.item.event
      BY <1>1, <2>2
    <3> HIDE DEF t
    <3>3. t.item \in Work(r) /\ t \in Changes /\ Grounded(t)
      BY <3>1 DEF Work, IInv, Typed, AllGrounded
    <3>4. /\ remote[m] = t.item.memory
          /\ t.item.event = "DELETE" => t.item.memory = NoContent
          /\ EdgesMirrored(m)
      BY <1>1, <3>1, <3>3 DEF InHand, Answered, Progress
    <3>5. /\ t.item.event \in Events
          /\ rows'[m] # NoRow
          /\ t.item.event # "DELETE" => /\ t.item.memory \in Contents
                                        /\ rows'[m].content = t.item.memory
      <4>1. Unchanged(t) /\ t.worded \in BOOLEAN /\ m \notin reworded
        BY <3>1, <3>3 DEF TextInv, FlushedHold, SoleFacts, Changes
      <4>2. QED BY <3>1, <3>2, <3>3, <4>1, ResultIsRow DEF IInv, Unchanged
    <3>6. rows'[m].active <=> t.item.event \in {"ADD", "UPDATE"}
      BY <3>2 DEF SoleFacts, Replays
    <3>7. NoContent \notin Contents
      BY TextsAssumption DEF Contents
    <3>8. t.item.event # "DELETE" <=> remote[m] # NoContent
      BY <3>4, <3>5, <3>7
    <3>9. rows'[m].active <=> remote[m] # NoContent
      BY <3>5, <3>6, <3>8 DEF Events
    <3>10. remote[m] # NoContent => rows'[m].content = remote[m]
      BY <3>4, <3>5, <3>8
    <3>11. QED
      BY <1>1, <3>4, <3>5, <3>9, <3>10 DEF Mirrored, Shown, EdgesMirrored
  <2>3. QED BY <2>1, <2>2
<1>4. QED BY <1>1, <1>3, AllInHandMirrored

\* A delete has one item in hand.
LEMMA DeletesOne ==
    ASSUME IInv, NEW r \in Requests, InHand(r), pc[r] \in Deleting
    PROVE  /\ Work(r) = {Item(r)}
           /\ Item(r).id \in Ids
           /\ Item(r).event = "DELETE" /\ Item(r).memory = NoContent
<1>1. items[r] \in Seq(Items) /\ items[r] # <<>> /\ Item(r) = items[r][1] /\ tx[r] = {}
  BY ItemIsItem DEF IInv, Typed, Hands, Hand
<1>2. DOMAIN items[r] = {1}
  BY <1>1 DEF InHand, Progress
<1>3. Work(r) = {Item(r)}
  BY <1>1, <1>2 DEF Work
<1>4. Item(r).event = "DELETE"
  BY <1>1, <1>2 DEF IInv, Hands, Hand
<1>5. QED BY <1>1, <1>3, <1>4, ItemIsItem DEF IInv, InHand, Answered

LEMMA RemoteDeleteInHand ==
    ASSUME IInv, RemoteOK, NEW r \in Requests, InHand(r), RemoteDelete(r)
    PROVE  InHand(r)'
<1>1. /\ UNCHANGED <<rows, openEdges, items, tx>>
      /\ remote' = [remote EXCEPT ![Item(r).id] = NoContent]
      /\ pc[r] = "remote" /\ pc'[r] = "delete"
  BY DEF RemoteDelete, Goto, pgVars, IInv, Typed
<1>2. /\ Work(r) = {Item(r)} /\ Item(r).id \in Ids
      /\ Item(r).memory = NoContent
  BY <1>1, DeletesOne DEF Deleting
<1>3. Work(r)' = Work(r)
  BY <1>1 DEF Work
<1>4. Answered(r)'
  BY <1>1, <1>2, <1>3 DEF InHand, Answered, RemoteOK
<1>5. Progress(r)'
  BY <1>1 DEF InHand, Progress, InLoop, Deleting, IInv, Hands, Hand
<1>6. \A m \in Ids : m # Item(r).id => StoresKept(m)
  BY <1>1 DEF StoresKept, RemoteOK
<1>7. QED BY <1>2, <1>3, <1>4, <1>5, <1>6, KeptMirrored DEF InHand

LEMMA CommitDeleteInHand ==
    ASSUME IInv, NEW r \in Requests, InHand(r), CommitDelete(r)
    PROVE  InHand(r)'
<1>1. /\ UNCHANGED <<remote, openEdges, items, tx>>
      /\ rows' = [rows EXCEPT ![Item(r).id].active = FALSE]
      /\ pc[r] = "delete" /\ pc'[r] = "delclose"
  BY DEF CommitDelete, Goto, mem0Vars, IInv, Typed
<1>2. Work(r) = {Item(r)} /\ Item(r).id \in Ids
  BY <1>1, DeletesOne DEF Deleting
<1>3. Work(r)' = Work(r) /\ Item(r)' = Item(r)
  BY <1>1 DEF Work, Item
<1>4. Answered(r)'
  BY <1>1, <1>3 DEF InHand, Answered
<1>5. ~rows'[Item(r).id].active
  <2>1. rows[Item(r).id] \in [content : Contents, active : BOOLEAN]
    BY <1>1, <1>2 DEF IInv, Typed, Rows, Hands, Hand, Deleting
  <2>2. QED BY <1>1, <1>2, <2>1 DEF IInv, Typed
<1>6. Progress(r)'
  BY <1>1, <1>3, <1>5 DEF InHand, Progress, InLoop, Deleting, IInv, Hands, Hand
<1>7. \A m \in Ids : m # Item(r).id => StoresKept(m)
  BY <1>1 DEF StoresKept, IInv, Typed
<1>8. QED BY <1>2, <1>3, <1>4, <1>6, <1>7, KeptMirrored DEF InHand

LEMMA CloseDeletedInHand ==
    ASSUME IInv, NEW r \in Requests, InHand(r), CloseDeleted(r)
    PROVE  InHand(r)'
<1>1. /\ UNCHANGED <<rows, remote>>
      /\ openEdges' = [openEdges EXCEPT ![Item(r).id] = [f \in Facts |-> 0]]
      /\ pc[r] = "delclose"
      /\ pc'[r] = "idle" /\ items'[r] = <<>> /\ tx'[r] = {}
  BY DEF CloseDeleted, Closed, Return, Goto, mem0Vars, pgVars, IInv, Typed
<1>2. Work(r) = {Item(r)} /\ Item(r).id \in Ids /\ Item(r).memory = NoContent
  BY <1>1, DeletesOne DEF Deleting
<1>3. ASSUME NEW m \in Ids PROVE Mirrored(m)'
  <2>1. CASE m # Item(r).id
    <3>1. StoresKept(m)
      BY <1>1, <2>1 DEF StoresKept, IInv, Typed
    <3>2. Mirrored(m)
      BY <1>2, <2>1 DEF InHand
    <3>3. QED BY <3>1, <3>2, KeptMirrored
  <2>2. CASE m = Item(r).id
    <3>1. remote'[m] = NoContent
      BY <1>1, <1>2, <2>2 DEF InHand, Answered
    <3>2. ~rows'[m].active
      BY <1>1, <2>2 DEF InHand, Progress
    <3>3. openEdges'[m] = [f \in Facts |-> 0]
      BY <1>1, <1>2, <2>2 DEF IInv, Typed
    <3>4. \A f \in Facts : f # NoContent
      BY TextsAssumption
    <3>5. QED BY <3>1, <3>2, <3>3, <3>4 DEF Mirrored
  <2>3. QED BY <2>1, <2>2
<1>4. QED BY <1>1, <1>3, AllInHandMirrored

\* A call finds everything mirrored.
LEMMA DeleteStartInHand ==
    ASSUME IInv, NEW r \in Requests, InHand(r), NEW m \in Ids, DeleteStart(r, m)
    PROVE  InHand(r)'
<1> DEFINE i == [id |-> m, event |-> "DELETE", memory |-> NoContent]
<1>1. /\ UNCHANGED <<rows, remote, openEdges, tx>>
      /\ pc[r] = "idle" /\ pc'[r] = "remote" /\ items'[r] = <<i>>
  BY DEF DeleteStart, Begin, Goto, mem0Vars, pgVars, IInv, Typed
<1>2. items[r] = <<>> /\ tx[r] = {}
  BY <1>1 DEF IInv, Hands, Hand
<1>3. \A l \in Ids : Mirrored(l)
  BY <1>2 DEF InHand, Work
<1>4. i.id = m /\ i.memory = NoContent
  OBVIOUS
<1> HIDE DEF i
<1>5. Len(<<i>>) = 1 /\ DOMAIN <<i>> = {1} /\ <<i>>[1] = i
  OBVIOUS
<1>6. Work(r)' = {i}
  BY <1>1, <1>2, <1>5 DEF Work
<1>7. Answered(r)'
  BY <1>1, <1>4, <1>5, <1>6 DEF Answered
<1>8. Progress(r)'
  BY <1>1, <1>2, <1>5 DEF Progress, InLoop, Deleting
<1>9. \A l \in Ids : StoresKept(l)
  BY <1>1 DEF StoresKept
<1>10. QED BY <1>3, <1>7, <1>8, <1>9, KeptMirrored DEF InHand

\* What client.add does to Mem0, and what its answer says of it.
LEMMA AddAnswer ==
    ASSUME IInv, RemoteOK, NEW r \in Requests, AddStart(r)
    PROVE  LET answer == items'[r] IN
           /\ \A k, l \in DOMAIN answer : answer[k].id = answer[l].id => k = l
           /\ \A k \in DOMAIN answer :
                /\ answer[k] \in Decisions
                /\ answer[k].id \in Ids
                /\ answer[k].id <= issued'
                /\ remote'[answer[k].id] = answer[k].memory
           /\ \A m \in Ids : (\A k \in DOMAIN answer : answer[k].id # m) =>
                                 remote'[m] = remote[m]
           /\ issued' \in Nat /\ issued <= issued'
           /\ remote' \in [Ids -> Contents \cup {NoContent}]
<1> DEFINE answer == items'[r]
<1>1. PICK n \in 1 .. MaxItems : \E a \in Answers(n) :
         /\ items' = [items EXCEPT ![r] = a]
         /\ remote' = [m \in Ids |->
               IF \E k \in 1 .. n : a[k].id = m
               THEN a[CHOOSE k \in 1 .. n : a[k].id = m].memory
               ELSE remote[m]]
         /\ issued' = issued + Cardinality(Created(a))
  BY DEF AddStart
<1>2. /\ answer \in Answers(n)
      /\ remote' = [m \in Ids |->
            IF \E k \in 1 .. n : answer[k].id = m
            THEN answer[CHOOSE k \in 1 .. n : answer[k].id = m].memory
            ELSE remote[m]]
      /\ issued' = issued + Cardinality(Created(answer))
  BY <1>1 DEF IInv, Typed
<1> HIDE DEF answer
<1>3. /\ DOMAIN answer = 1 .. n
      /\ \A k \in 1 .. n : answer[k] \in Decisions /\ answer[k] \in Items
      /\ \A k, l \in 1 .. n : k < l => answer[k].id # answer[l].id
      /\ Created(answer) = issued + 1 .. issued + Cardinality(Created(answer))
  BY <1>2 DEF Answers, Decisions
<1>4. \A k, l \in 1 .. n : answer[k].id = answer[l].id => k = l
  <2>1. \A k, l \in 1 .. n : k < l \/ l < k \/ k = l
    OBVIOUS
  <2>2. QED BY <1>3, <2>1
<1>5. \A k \in 1 .. n : answer[k].id \in Ids /\ answer[k].memory \in Contents \cup {NoContent}
  BY <1>3 DEF Items
<1>6. ASSUME NEW k \in 1 .. n PROVE remote'[answer[k].id] = answer[k].memory
  <2> DEFINE m == answer[k].id
             c == CHOOSE l \in 1 .. n : answer[l].id = m
  <2>1. c \in 1 .. n /\ answer[c].id = m
    OBVIOUS
  <2>2. c = k
    BY <1>4, <2>1
  <2>3. remote'[m] = answer[c].memory
    BY <1>2, <1>5
  <2>4. QED BY <2>2, <2>3
<1>7. \A m \in Ids : (\A k \in 1 .. n : answer[k].id # m) => remote'[m] = remote[m]
  BY <1>2
<1>8. remote' \in [Ids -> Contents \cup {NoContent}]
  <2>1. ASSUME NEW m \in Ids PROVE remote'[m] \in Contents \cup {NoContent}
    <3>1. CASE \E k \in 1 .. n : answer[k].id = m
      BY <1>5, <1>6, <3>1
    <3>2. CASE ~ \E k \in 1 .. n : answer[k].id = m
      BY <1>7, <3>2 DEF RemoteOK
    <3>3. QED BY <3>1, <3>2
  <2>2. remote' = [m \in Ids |-> remote'[m]]
    BY <1>2
  <2>3. QED BY <2>1, <2>2
<1>9. issued \in Nat /\ Cardinality(Created(answer)) \in Nat
  <2>1. Created(answer) \subseteq 1 .. MaxIds
    BY <1>3, <1>5 DEF Created, Ids
  <2>2. IsFiniteSet(Created(answer))
    <3>1. IsFiniteSet(1 .. MaxIds)
      BY BoundsAssumption, FS_Interval
    <3>2. QED BY <2>1, <3>1, FS_Subset
  <2>3. QED BY <2>2, FS_CardinalityType DEF IInv, Typed
<1>10. ASSUME NEW k \in 1 .. n PROVE answer[k].id <= issued'
  <2>1. CASE answer[k].event = "ADD"
    <3> DEFINE c == Cardinality(Created(answer))
    <3>1. answer[k].id \in Created(answer)
      BY <1>3, <2>1 DEF Created
    <3>2. answer[k].id \in issued + 1 .. issued + c
      BY <1>3, <3>1
    <3> HIDE DEF c
    <3>3. answer[k].id <= issued + c
      BY <1>9, <3>2
    <3>4. QED BY <1>2, <3>3 DEF c
  <2>2. CASE answer[k].event # "ADD"
    <3>1. remote[answer[k].id] # NoContent
      BY <1>3, <2>2 DEF Decisions
    <3>2. ~(answer[k].id > issued)
      BY <1>5, <3>1 DEF RemoteOK
    <3>3. answer[k].id \in Nat
      BY <1>5 DEF Ids
    <3>4. QED BY <1>2, <1>9, <3>2, <3>3
  <2>3. QED BY <2>1, <2>2
<1>11. issued' \in Nat /\ issued <= issued'
  BY <1>2, <1>9
<1>12. QED BY <1>3, <1>4, <1>5, <1>6, <1>7, <1>8, <1>10, <1>11 DEF answer

LEMMA AddStartInHand ==
    ASSUME IInv, RemoteOK, NEW r \in Requests, InHand(r), AddStart(r)
    PROVE  InHand(r)'
<1> DEFINE answer == items'[r]
<1>1. /\ UNCHANGED <<rows, openEdges, tx>>
      /\ pc[r] = "idle" /\ pc'[r] = "get"
  BY DEF AddStart, Begin, Goto, pgVars, IInv, Typed
<1>2. /\ \A k, l \in DOMAIN answer : answer[k].id = answer[l].id => k = l
      /\ \A k \in DOMAIN answer :
            /\ answer[k] \in Decisions
            /\ answer[k].id \in Ids
            /\ remote'[answer[k].id] = answer[k].memory
      /\ \A m \in Ids : (\A k \in DOMAIN answer : answer[k].id # m) =>
                            remote'[m] = remote[m]
  BY AddAnswer
<1>3. items[r] = <<>> /\ tx[r] = {}
  BY <1>1 DEF IInv, Hands, Hand
<1>4. \A m \in Ids : Mirrored(m)
  BY <1>3 DEF InHand, Work
<1>5. Work(r)' = {answer[k] : k \in DOMAIN answer}
  BY <1>1, <1>3 DEF Work
<1>6. Answered(r)'
  <2>1. \A k \in DOMAIN answer : answer[k].event = "DELETE" => answer[k].memory = NoContent
    BY <1>2 DEF Decisions
  <2> HIDE DEF answer
  <2>2. \A i, j \in Work(r)' : i.id = j.id => i = j
    BY <1>2, <1>5
  <2>3. \A k, l \in DOMAIN answer : answer[k] = answer[l] => k = l
    BY <1>2
  <2>4. \A i \in Work(r)' : /\ i.event = "DELETE" => i.memory = NoContent
                            /\ remote'[i.id] = i.memory
    BY <1>2, <1>5, <2>1
  <2>5. QED BY <2>2, <2>3, <2>4 DEF Answered, answer
<1>7. Progress(r)'
  <2>1. ASSUME NEW k \in DOMAIN answer PROVE Ahead(items[r][k])'
    <3>1. answer[k].id \in Ids /\ Mirrored(answer[k].id)
      BY <1>2, <1>4
    <3>2. CASE answer[k].event = "ADD"
      <4>1. answer[k].id > issued
        BY <1>2, <3>2 DEF Decisions
      <4>2. remote[answer[k].id] = NoContent
        BY <3>1, <4>1 DEF RemoteOK
      <4>3. \A f \in Facts : openEdges[answer[k].id][f] = 0
        BY <3>1, <4>2, TextsAssumption DEF Mirrored
      <4>4. QED BY <1>1, <3>2, <4>3 DEF Ahead, NoEdges
    <3>3. CASE answer[k].event = "DELETE"
      <4>1. remote[answer[k].id] # NoContent
        BY <1>2, <3>3 DEF Decisions
      <4>2. rows[answer[k].id].active
        BY <3>1, <4>1 DEF Mirrored
      <4>3. QED BY <1>1, <3>3, <4>2 DEF Ahead
    <3>4. QED BY <3>2, <3>3 DEF Ahead
  <2>2. QED BY <1>1, <1>3, <2>1 DEF Progress, InLoop, Deleting, Ahead
<1>8. ASSUME NEW m \in Ids, \A i \in Work(r)' : i.id # m PROVE Mirrored(m)'
  <2>1. remote'[m] = remote[m]
    <3> HIDE DEF answer
    <3> QED BY <1>2, <1>5, <1>8
  <2>2. StoresKept(m)
    BY <1>1, <2>1 DEF StoresKept
  <2>3. QED BY <1>4, <2>2, KeptMirrored
<1>9. QED BY <1>6, <1>7, <1>8 DEF InHand

-----------------------------------------------------------------------------
\* Mem0's store is changed by its two operations only.
LEMMA NextRemoteOK == IInv /\ RemoteOK /\ [Next]_vars => RemoteOK'
<1> SUFFICES ASSUME IInv, RemoteOK, [Next]_vars PROVE RemoteOK'
  OBVIOUS
<1>1. faults' \in Nat
  BY HistoryGrows DEF RemoteOK
<1>2. ASSUME UNCHANGED mem0Vars PROVE RemoteOK'
  BY <1>1, <1>2 DEF RemoteOK, mem0Vars
<1>3. ASSUME NEW r \in Requests, AddStart(r) PROVE RemoteOK'
  <2>1. /\ \A k \in DOMAIN items'[r] : items'[r][k].id <= issued'
        /\ \A m \in Ids : (\A k \in DOMAIN items'[r] : items'[r][k].id # m) =>
                              remote'[m] = remote[m]
        /\ issued' \in Nat /\ issued <= issued'
        /\ remote' \in [Ids -> Contents \cup {NoContent}]
    BY <1>3, AddAnswer
  <2>2. ASSUME NEW m \in Ids, m > issued' PROVE remote'[m] = NoContent
    <3>1. m \in Nat /\ issued \in Nat
      BY DEF Ids, IInv, Typed
    <3>2. \A k \in DOMAIN items'[r] : items'[r][k].id # m
      BY <2>1, <2>2, <3>1
    <3>3. m > issued
      BY <2>1, <2>2, <3>1
    <3>4. QED BY <2>1, <3>2, <3>3 DEF RemoteOK
  <2>3. QED BY <1>1, <2>1, <2>2 DEF RemoteOK
<1>4. ASSUME NEW r \in Requests, RemoteDelete(r) PROVE RemoteOK'
  BY <1>1, <1>4 DEF RemoteDelete, RemoteOK
<1>5. ASSUME NEW r \in Requests, MirrorStep(r), ~RemoteDelete(r)
      PROVE  UNCHANGED mem0Vars
  BY <1>5 DEF MirrorStep, GetRow, FlushRow, GraphClose, GraphUpsert, NextItem, Commit,
              CommitDelete, CloseDeleted, mem0Vars
<1>6. ASSUME NEW r \in Requests,
             AddNoop(r) \/ (\E m \in Ids : DeleteStart(r, m)) \/ Raise(r)
      PROVE  UNCHANGED mem0Vars
  BY <1>6 DEF AddNoop, DeleteStart, Raise, mem0Vars
<1>7. CASE UNCHANGED vars
  BY <1>2, <1>7 DEF vars
<1>8. QED BY <1>2, <1>3, <1>4, <1>5, <1>6, <1>7, StepShape

\* Every step of the one request in flight takes it further.
LEMMA NextSmooth ==
    IInv /\ TextInv /\ Sole /\ RemoteOK /\ Smooth /\ [Next]_vars => Smooth'
<1> SUFFICES ASSUME IInv, TextInv, Sole, RemoteOK, Smooth, [Next]_vars,
                    ~troubled', faults' = 0, ~overlapped'
             PROVE  SmoothFacts'
  BY DEF Smooth
<1>1. /\ SmoothFacts /\ SoleFacts /\ SoleFacts' /\ IInv'
  BY HistoryGrows, NextSole, NextInv DEF Smooth, Sole, RemoteOK
<1>2. ASSUME UNCHANGED <<rows, remote, openEdges, pc, items, tx>> PROVE SmoothFacts'
  BY <1>1, <1>2 DEF SmoothFacts, Untouched, Answered, Progress, Work, Ahead, NoEdges,
                    EdgesMirrored, Mirrored, Shown, Item
<1>3. ASSUME NEW r \in Requests, AddNoop(r) PROVE SmoothFacts'
  BY <1>2, <1>3 DEF AddNoop, mem0Vars, requestVars
<1>4. ASSUME NEW r \in Requests,
             \/ AddStart(r)
             \/ \E m \in Ids : DeleteStart(r, m)
             \/ MirrorStep(r)
      PROVE  SmoothFacts'
  <2>1. \A q \in Requests : q # r =>
            /\ items[q] = <<>> /\ tx[q] = {}
            /\ pc'[q] = "idle" /\ items'[q] = <<>> /\ tx'[q] = {}
    BY <1>1, <1>4, OthersIdle, MirrorStepInFlight DEF SoleFacts
  <2>2. InHand(r)
    BY <1>1, <2>1, HandOfOne
  <2>3. InHand(r)'
    BY <1>1, <1>4, <2>2, AddStartInHand, DeleteStartInHand, GetRowInHand,
       FlushRowInHand, GraphCloseInHand, GraphUpsertInHand, NextItemInHand,
       CommitInHand, RemoteDeleteInHand, CommitDeleteInHand, CloseDeletedInHand
       DEF MirrorStep
  <2>4. QED BY <2>1, <2>3, OneHandLeft
<1>5. ASSUME NEW r \in Requests, Raise(r) PROVE FALSE
  BY <1>5 DEF Raise
<1>6. CASE UNCHANGED vars
  BY <1>2, <1>6 DEF vars, mem0Vars, pgVars, requestVars
<1>7. QED BY <1>3, <1>4, <1>5, <1>6, StepShape

\* Unless a request has been rolled back, the three stores agree after requests
\* that come one at a time: every item of every answer was mirrored, once, and
\* no other memory was touched.
THEOREM StoresAgree == Spec => []MirroredUnlessRolledBack
<1>1. Init => RemoteOK /\ Sole /\ Smooth
  <2> SUFFICES ASSUME Init PROVE RemoteOK /\ SoleFacts /\ SmoothFacts
    BY DEF Sole, Smooth
  <2>1. RemoteOK
    BY DEF Init, RemoteOK
  <2>2. SoleFacts
    BY RowTypes DEF Init, SoleFacts, Alone, Replays, SeenIsCurrent, TurnedAsNeeded,
                    NoRow
  <2>3. \A r \in Requests : Work(r) = {}
    BY DEF Init, Work
  <2>4. \A m \in Ids : Mirrored(m)
    BY TextsAssumption DEF Init, Mirrored, NoRow
  <2>5. \A r \in Requests : Answered(r) /\ Progress(r)
    BY <2>3 DEF Init, Answered, Progress, InLoop, Deleting
  <2>6. QED BY <2>1, <2>2, <2>4, <2>5 DEF SmoothFacts
<1>2. IInv /\ TextInv /\ (RemoteOK /\ Sole /\ Smooth) /\ [Next]_vars
        => (RemoteOK /\ Sole /\ Smooth)'
  BY NextRemoteOK, NextSole, NextSmooth DEF RemoteOK
<1>3. IInv /\ Smooth => MirroredUnlessRolledBack
  <2> SUFFICES ASSUME IInv, SmoothFacts, Quiet, NEW m \in Ids PROVE Mirrored(m)
    BY DEF Smooth, MirroredUnlessRolledBack
  <2>1. \A r \in Requests : Work(r) = {}
    BY DEF Quiet, IInv, Hands, Hand, Work
  <2>2. QED BY <2>1 DEF SmoothFacts, Untouched
<1>4. QED BY <1>1, <1>2, <1>3, MirrorIsGrounded, TextsGoTogether, PTL DEF Spec
-----------------------------------------------------------------------------
(* Types.  That there are no more events without a memory than calls and   *)
(* memories is a matter of counting: each is a NOOP, which takes a call,   *)
(* or the mirror of a memory's end in Mem0, which comes once.              *)

\* The memories that a request is to mirror the end of.
Gone(r) ==
    IF pc[r] \in Deleting THEN {} ELSE {i.id : i \in {j \in Work(r) : j.event = "DELETE"}}

AllGone == {m \in Ids : \E r \in Requests : m \in Gone(r)}

\* The memories Mem0 has given out and dropped.
Dropped == {m \in Ids : m <= issued /\ remote[m] = NoContent}

\* A request's items and changes are about different memories, but for the
\* one in turn, once it has been flushed.
Apart(r) ==
    /\ \A k, l \in DOMAIN items[r] : items[r][k].id = items[r][l].id => k = l
    /\ \A t, u \in tx[r] : t.item.id = u.item.id => t = u
    /\ \A t \in tx[r], k \in DOMAIN items[r] :
          t.item.id = items[r][k].id => k = 1 /\ pc[r] \in {"close", "upsert", "next"}

EndsComeOnce ==
    /\ \A r \in Requests : Apart(r) /\ Gone(r) \subseteq Dropped
    /\ \A q, r \in Requests : q # r => Gone(q) \cap Gone(r) = {}

EndsCounted ==
    /\ loose \in Nat /\ calls \in 0 .. MaxCalls
    /\ loose + Cardinality(AllGone) <= calls + Cardinality(Dropped)

Ends == EndsComeOnce /\ EndsCounted

\* The bounds, and what a bound of no items leaves to be done: nothing.
Bounded ==
    /\ \A r \in Requests : Len(items[r]) <= MaxItems
    /\ MaxItems = 0 => /\ \A r \in Requests : pc[r] = "idle"
                       /\ \A m \in Ids : ~rows[m].active
    /\ primary \in [Requests -> BOOLEAN]
    /\ faults \in 0 .. MaxFaults
    /\ {troubled, overlapped} \subseteq BOOLEAN

LEMMA EndsAreFinite ==
    /\ IsFiniteSet(AllGone) /\ Cardinality(AllGone) \in Nat
    /\ IsFiniteSet(Dropped) /\ Cardinality(Dropped) \in Nat
    /\ Cardinality(Dropped) <= MaxIds
<1>1. IsFiniteSet(Ids) /\ Cardinality(Ids) = MaxIds
  BY BoundsAssumption, FS_Interval DEF Ids
<1>2. AllGone \in SUBSET Ids /\ Dropped \in SUBSET Ids
  BY DEF AllGone, Dropped
<1>3. QED BY <1>1, <1>2, FS_Subset, FS_CardinalityType

LEMMA DisjointUnion ==
    ASSUME NEW S, NEW T, IsFiniteSet(S), IsFiniteSet(T), S \cap T = {}
    PROVE  Cardinality(S \cup T) = Cardinality(S) + Cardinality(T)
<1>1. Cardinality(S \cup T) = Cardinality(S) + Cardinality(T) - Cardinality(S \cap T)
  BY FS_Union
<1>2. Cardinality(S \cap T) = 0
  BY FS_EmptySet
<1>3. Cardinality(S) \in Nat /\ Cardinality(T) \in Nat
  BY FS_CardinalityType
<1>4. QED BY <1>1, <1>2, <1>3

\* A slot that is left alone has the same work.
LEMMA SlotKept ==
    ASSUME NEW q \in Requests, pc'[q] = pc[q], items'[q] = items[q], tx'[q] = tx[q]
    PROVE  Gone(q)' = Gone(q) /\ (Apart(q) => Apart(q)')
BY DEF Gone, Work, Apart

\* A step after which no request has more ends to mirror, and no event has
\* gone without a memory.
LEMMA NoEndAdded ==
    ASSUME Ends, UNCHANGED loose, UNCHANGED calls \/ Called, Dropped \subseteq Dropped',
           \A q \in Requests : Apart(q)' /\ Gone(q)' \subseteq Gone(q)
    PROVE  Ends'
<1>1. EndsComeOnce'
  BY DEF Ends, EndsComeOnce
<1>2. AllGone' \in SUBSET AllGone
  BY DEF AllGone
<1>3. Cardinality(AllGone') <= Cardinality(AllGone)
  BY <1>2, EndsAreFinite, FS_Subset
<1>4. IsFiniteSet(Dropped') /\ Cardinality(Dropped') \in Nat /\ Cardinality(AllGone') \in Nat
  <2>1. (IsFiniteSet(Dropped) /\ Cardinality(Dropped) \in Nat /\ Cardinality(AllGone) \in Nat)'
    BY EndsAreFinite, PTL
  <2>2. QED BY <2>1
<1>5. Cardinality(Dropped) <= Cardinality(Dropped')
  BY <1>4, FS_Subset
<1>6. calls' \in 0 .. MaxCalls /\ calls <= calls'
  BY BoundsAssumption DEF Ends, EndsCounted, Called
<1>7. EndsCounted'
  BY <1>3, <1>4, <1>5, <1>6, EndsAreFinite DEF Ends, EndsCounted
<1>8. QED BY <1>1, <1>7 DEF Ends

\* The same, of a step of one request that leaves Mem0 and the events alone.
LEMMA NoEndAddedBy ==
    ASSUME Ends, Typed, NEW r \in Requests,
           UNCHANGED <<loose, mem0Vars>>, UNCHANGED calls \/ Called,
           \A q \in Requests : q # r => /\ pc'[q] = pc[q] /\ items'[q] = items[q]
                                        /\ tx'[q] = tx[q],
           Apart(r)', Gone(r)' \subseteq Gone(r)
    PROVE  Ends'
<1>1. \A q \in Requests : Apart(q)' /\ Gone(q)' \subseteq Gone(q)
  BY SlotKept DEF Ends, EndsComeOnce
<1>2. Dropped' = Dropped
  BY DEF Dropped, mem0Vars
<1>3. QED BY <1>1, <1>2, NoEndAdded

\* A request that is done has no work.
LEMMA NothingToEnd ==
    ASSUME NEW r \in Requests, items'[r] = <<>>, tx'[r] = {}
    PROVE  Apart(r)' /\ Gone(r)' = {}
BY DEF Apart, Gone, Work

\* A request that goes on with the same items and changes.
LEMMA SameWork ==
    ASSUME Ends, Typed, NEW r \in Requests, UNCHANGED <<items, tx>>,
           \/ pc[r] = "get" /\ pc'[r] = "flush"
           \/ pc[r] \in {"close", "upsert"} /\ pc'[r] \in {"upsert", "next"}
           \/ pc[r] \in Deleting /\ pc'[r] \in Deleting
    PROVE  Apart(r)' /\ Gone(r)' \subseteq Gone(r)
<1>1. Work(r)' = Work(r)
  BY DEF Work
<1>2. Apart(r)
  BY DEF Ends, EndsComeOnce
<1>3. Apart(r)'
  BY <1>2 DEF Apart, Deleting
<1>4. Gone(r)' \subseteq Gone(r)
  BY <1>1 DEF Gone, Deleting
<1>5. QED BY <1>3, <1>4

\* The item in turn has been flushed, or goes on to be.
LEMMA FlushRowEnds ==
    ASSUME IInv, Ends, NEW r \in Requests, FlushRow(r)
    PROVE  Ends'
<1> DEFINE i == Item(r)
           t == [item |-> i, how |-> How(i, seen[r]), worded |-> Worded(i, seen[r]),
                 turned |-> Turned(i, seen[r]), loose |-> Loose(i, seen[r])]
<1>1. /\ UNCHANGED <<loose, calls, mem0Vars, items>>
      /\ pc[r] = "flush"
      /\ pc'[r] \in {"close", "upsert"}
      /\ tx' = [tx EXCEPT ![r] = @ \cup {t}]
  BY DEF FlushRow, Goto, pgVars, historyVars, IInv, Typed
<1>2. i = items[r][1] /\ 1 \in DOMAIN items[r]
  BY <1>1, ItemIsItem DEF IInv, Hands, Hand, InLoop
<1>3. t.item = i /\ tx'[r] = tx[r] \cup {t}
  BY <1>1 DEF IInv, Typed
<1> HIDE DEF t, i
<1>4. Work(r)' = Work(r)
  BY <1>1, <1>2, <1>3 DEF Work
<1>5. Apart(r)
  BY DEF Ends, EndsComeOnce
<1>6. \A u \in tx[r] : u.item.id # t.item.id
  BY <1>1, <1>2, <1>3, <1>5 DEF Apart
<1>7. Apart(r)'
  BY <1>1, <1>2, <1>3, <1>5, <1>6 DEF Apart
<1>8. Gone(r)' \subseteq Gone(r)
  BY <1>1, <1>4 DEF Gone, Deleting
<1>9. QED BY <1>1, <1>7, <1>8, OnlyItself, NoEndAddedBy DEF MirrorStep, IInv

LEMMA NextItemEnds ==
    ASSUME IInv, Ends, NEW r \in Requests, NextItem(r)
    PROVE  Ends'
<1>1. /\ UNCHANGED <<loose, calls, mem0Vars, tx>>
      /\ pc[r] = "next"
      /\ pc'[r] \in {"commit", "get"}
      /\ items'[r] = Tail(items[r])
  BY DEF NextItem, Rest, Goto, pgVars, historyVars, IInv, Typed
<1>2. /\ items[r] \in Seq(Items) /\ items[r] # <<>>
  BY <1>1, ItemIsItem DEF IInv, Typed, Hands, Hand, InLoop
<1>3. \A k \in DOMAIN items'[r] :
            /\ k + 1 \in DOMAIN items[r] /\ k + 1 > 1 /\ k \in Nat
            /\ items'[r][k] = items[r][k + 1]
  BY <1>1, <1>2
<1>4. Work(r)' \subseteq Work(r)
  BY <1>1, <1>3 DEF Work
<1>5. Apart(r)
  BY DEF Ends, EndsComeOnce
<1>6. \A t \in tx'[r], k \in DOMAIN items'[r] : t.item.id # items'[r][k].id
  BY <1>1, <1>3, <1>5 DEF Apart
<1>7. ASSUME NEW k \in DOMAIN items'[r], NEW l \in DOMAIN items'[r],
             items'[r][k].id = items'[r][l].id
      PROVE  k = l
  <2>1. k + 1 = l + 1
    BY <1>3, <1>5, <1>7 DEF Apart
  <2>2. QED BY <1>3, <2>1
<1>8. Apart(r)'
  BY <1>1, <1>5, <1>6, <1>7 DEF Apart
<1>9. Gone(r)' \subseteq Gone(r)
  BY <1>1, <1>4 DEF Gone, Deleting
<1>10. QED BY <1>1, <1>8, <1>9, OnlyItself, NoEndAddedBy DEF MirrorStep, IInv

\* Mem0 drops a memory for a request that names it in its event.
LEMMA RemoteDeleteEnds ==
    ASSUME IInv, RemoteOK, Ends, NEW r \in Requests, RemoteDelete(r)
    PROVE  Ends'
<1>1. /\ UNCHANGED <<issued, loose, calls, items, tx>>
      /\ remote' = [remote EXCEPT ![Item(r).id] = NoContent]
      /\ pc[r] = "remote" /\ pc'[r] = "delete"
  BY DEF RemoteDelete, Goto, pgVars, historyVars, IInv, Typed
<1>2. Dropped \subseteq Dropped'
  BY <1>1 DEF Dropped, RemoteOK
<1>3. Apart(r)' /\ Gone(r)' \subseteq Gone(r)
  BY <1>1, SameWork DEF IInv, Deleting
<1>4. \A q \in Requests : q # r => Apart(q)' /\ Gone(q)' \subseteq Gone(q)
  BY OnlyItself, SlotKept DEF MirrorStep, IInv, Ends, EndsComeOnce
<1>5. QED BY <1>1, <1>2, <1>3, <1>4, NoEndAdded

\* What a delete is to mirror, it names.
LEMMA DeleteStartEnds ==
    ASSUME IInv, Ends, NEW r \in Requests, NEW m \in Ids, DeleteStart(r, m)
    PROVE  Ends'
<1>1. /\ UNCHANGED <<loose, mem0Vars, tx>>
      /\ Called
      /\ pc[r] = "idle" /\ pc'[r] = "remote"
      /\ Len(items'[r]) = 1 /\ DOMAIN items'[r] = {1}
  BY DEF DeleteStart, Begin, Goto, pgVars, IInv, Typed
<1>2. tx'[r] = {}
  BY <1>1 DEF IInv, Hands, Hand
<1>3. Apart(r)'
  BY <1>1, <1>2 DEF Apart
<1>4. Gone(r)' = {}
  BY <1>1 DEF Gone, Deleting
<1>5. QED BY <1>1, <1>3, <1>4, OnlyItself, NoEndAddedBy DEF IInv

\* A NOOP takes a call.
LEMMA AddNoopEnds ==
    ASSUME Ends, NEW r \in Requests, AddNoop(r)
    PROVE  Ends'
<1>1. /\ UNCHANGED <<remote, issued, pc, items, tx>>
      /\ loose' = loose + 1 /\ Called
  BY DEF AddNoop, mem0Vars, requestVars
<1>2. \A q \in Requests : Apart(q)' /\ Gone(q)' = Gone(q)
  BY <1>1, SlotKept DEF Ends, EndsComeOnce
<1>3. Dropped' = Dropped /\ AllGone' = AllGone
  BY <1>1, <1>2 DEF Dropped, AllGone
<1>4. EndsComeOnce'
  BY <1>2, <1>3 DEF Ends, EndsComeOnce
<1>5. EndsCounted'
  BY <1>1, <1>3, EndsAreFinite, BoundsAssumption DEF Ends, EndsCounted, Called
<1>6. QED BY <1>4, <1>5 DEF Ends

\* Each memory an answer drops was there before, and is one more that is not.
LEMMA AddStartEnds ==
    ASSUME IInv, RemoteOK, Ends, NEW r \in Requests, AddStart(r)
    PROVE  Ends'
<1> DEFINE answer == items'[r]
           E == {answer[k].id : k \in {l \in DOMAIN answer : answer[l].event = "DELETE"}}
<1>1. /\ UNCHANGED <<loose, tx>>
      /\ Called
      /\ pc[r] = "idle" /\ pc'[r] = "get"
  BY DEF AddStart, Begin, Goto, pgVars, IInv, Typed
<1>2. items[r] = <<>> /\ tx[r] = {}
  BY <1>1 DEF IInv, Hands, Hand
<1>3. /\ \A k, l \in DOMAIN answer : answer[k].id = answer[l].id => k = l
      /\ \A k \in DOMAIN answer :
           /\ answer[k] \in Decisions
           /\ answer[k].id \in Ids
           /\ answer[k].id <= issued'
           /\ remote'[answer[k].id] = answer[k].memory
      /\ \A m \in Ids : (\A k \in DOMAIN answer : answer[k].id # m) =>
                            remote'[m] = remote[m]
      /\ issued' \in Nat /\ issued <= issued'
  BY AddAnswer
<1>4. issued \in Nat /\ Ids \subseteq Nat
  BY DEF IInv, Typed, Ids
<1>5. Apart(r)'
  BY <1>1, <1>2, <1>3 DEF Apart
<1>6. Gone(r)' = E
  BY <1>1, <1>2 DEF Gone, Deleting, Work
<1>7. Gone(r) = {}
  BY <1>2 DEF Gone, Work
<1> HIDE DEF answer
<1>8. E \subseteq Dropped'
  <2>1. \A k \in DOMAIN answer : answer[k].event = "DELETE" => answer[k].memory = NoContent
    BY <1>3 DEF Decisions
  <2>2. QED BY <1>3, <2>1 DEF Dropped
<1>9. E \cap Dropped = {}
  <2>1. \A k \in DOMAIN answer :
           answer[k].event = "DELETE" => remote[answer[k].id] # NoContent
    BY <1>3 DEF Decisions
  <2>2. QED BY <2>1 DEF Dropped
<1>10. Dropped \subseteq Dropped'
  <2> SUFFICES ASSUME NEW m \in Dropped PROVE m \in Dropped'
    OBVIOUS
  <2>1. m \in Ids /\ m <= issued /\ remote[m] = NoContent
    BY DEF Dropped
  <2>2. \A k \in DOMAIN answer : answer[k].id # m
    BY <1>3, <1>4, <2>1 DEF Decisions
  <2>3. QED BY <1>3, <1>4, <2>1, <2>2 DEF Dropped
<1> HIDE DEF E
<1>11. \A q \in Requests : q # r => Apart(q)' /\ Gone(q)' = Gone(q)
  BY OnlyItself, SlotKept DEF IInv, Ends, EndsComeOnce
<1>12. EndsComeOnce'
  <2>1. \A q \in Requests : q # r => Gone(q) \cap E = {}
    BY <1>9 DEF Ends, EndsComeOnce
  <2>2. QED BY <1>5, <1>6, <1>8, <1>10, <1>11, <2>1 DEF Ends, EndsComeOnce
<1>13. AllGone' = AllGone \cup E
  <2>1. E \subseteq Ids
    BY <1>8 DEF Dropped
  <2>2. QED BY <1>6, <1>7, <1>11, <2>1 DEF AllGone
<1>14. AllGone \subseteq Dropped
  BY DEF Ends, EndsComeOnce, AllGone
<1>15. /\ IsFiniteSet(Dropped') /\ Cardinality(Dropped') \in Nat
       /\ IsFiniteSet(AllGone') /\ Cardinality(AllGone') \in Nat
  <2>1. (/\ IsFiniteSet(AllGone) /\ Cardinality(AllGone) \in Nat
         /\ IsFiniteSet(Dropped) /\ Cardinality(Dropped) \in Nat)'
    BY EndsAreFinite, PTL
  <2>2. QED BY <2>1
<1>16. IsFiniteSet(E) /\ Cardinality(E) \in Nat
  <2>1. E \in SUBSET AllGone'
    BY <1>13
  <2>2. QED BY <1>15, <2>1, FS_Subset, FS_CardinalityType
<1>17. /\ Cardinality(AllGone') = Cardinality(AllGone) + Cardinality(E)
       /\ Cardinality(Dropped \cup E) = Cardinality(Dropped) + Cardinality(E)
  <2>1. AllGone \cap E = {} /\ Dropped \cap E = {}
    BY <1>9, <1>14
  <2>2. QED BY <1>13, <1>16, <2>1, EndsAreFinite, DisjointUnion
<1>18. Cardinality(Dropped \cup E) <= Cardinality(Dropped')
  <2>1. (Dropped \cup E) \in SUBSET Dropped'
    BY <1>8, <1>10
  <2>2. QED BY <1>15, <2>1, FS_Subset
<1>19. EndsCounted'
  BY <1>1, <1>15, <1>16, <1>17, <1>18, EndsAreFinite, BoundsAssumption
     DEF Ends, EndsCounted, Called
<1>20. QED BY <1>12, <1>19 DEF Ends

\* What is committed without a memory is no more to be mirrored.
LEMMA CommitEnds ==
    ASSUME IInv, Ends, NEW r \in Requests, Commit(r)
    PROVE  Ends'
<1> DEFINE L == {t \in tx[r] : t.loose}
<1>1. /\ UNCHANGED <<remote, issued, calls>>
      /\ loose' = loose + Cardinality(tx[r] \ {t \in tx[r] : ~t.loose})
      /\ pc[r] = "commit"
      /\ items'[r] = <<>> /\ tx'[r] = {}
  BY DEF Commit, Pending, Return, Goto, mem0Vars, historyVars, IInv, Typed
<1>2. tx[r] \ {t \in tx[r] : ~t.loose} = L
  OBVIOUS
<1>3. /\ \A q \in Requests : q # r => Apart(q)' /\ Gone(q)' = Gone(q)
      /\ Apart(r)' /\ Gone(r)' = {}
  BY <1>1, OnlyItself, SlotKept, NothingToEnd DEF MirrorStep, IInv, Ends, EndsComeOnce
<1>4. Dropped' = Dropped
  BY <1>1 DEF Dropped
<1>5. EndsComeOnce'
  BY <1>3, <1>4 DEF Ends, EndsComeOnce
<1>6. AllGone' \cap Gone(r) = {} /\ AllGone' \cup Gone(r) = AllGone
  BY <1>3 DEF Ends, EndsComeOnce, AllGone, Dropped
<1>7. Gone(r) \in SUBSET AllGone /\ AllGone' \in SUBSET AllGone
  BY <1>6
<1>8. /\ IsFiniteSet(Gone(r)) /\ Cardinality(Gone(r)) \in Nat
      /\ IsFiniteSet(AllGone') /\ Cardinality(AllGone') \in Nat
  BY <1>7, EndsAreFinite, FS_Subset, FS_CardinalityType
<1>9. Cardinality(AllGone) = Cardinality(AllGone') + Cardinality(Gone(r))
  BY <1>6, <1>8, DisjointUnion
<1>10. IsFiniteSet(L) /\ Cardinality(L) <= Cardinality(Gone(r))
  <2> DEFINE f == [t \in L |-> t.item.id]
  <2>1. ASSUME NEW t \in L PROVE t.item.id \in Gone(r)
    <3>1. t.item \in Work(r)
      BY DEF Work
    <3>2. t.item.event = "DELETE"
      BY DEF IInv, AllGrounded, Grounded
    <3>3. QED BY <1>1, <3>1, <3>2 DEF Gone, Deleting
  <2>2. \A t, u \in L : t.item.id = u.item.id => t = u
    BY DEF Ends, EndsComeOnce, Apart
  <2> HIDE DEF L
  <2>3. f \in Injection(L, Gone(r))
    BY <2>1, <2>2 DEF Injection, IsInjective
  <2> HIDE DEF f
  <2>4. QED BY <1>8, <2>3, FS_Injection
<1>11. Cardinality(L) \in Nat
  BY <1>10, FS_CardinalityType
<1> HIDE DEF L
<1>12. loose' = loose + Cardinality(L) /\ calls' = calls
  BY <1>1, <1>2
<1>13. EndsCounted'
  BY <1>4, <1>8, <1>9, <1>10, <1>11, <1>12, EndsAreFinite, BoundsAssumption
     DEF Ends, EndsCounted
<1>14. QED BY <1>5, <1>13 DEF Ends

LEMMA NextEnds == IInv /\ RemoteOK /\ Ends /\ [Next]_vars => Ends'
<1> SUFFICES ASSUME IInv, RemoteOK, Ends, [Next]_vars PROVE Ends'
  OBVIOUS
<1>1. ASSUME NEW r \in Requests, GetRow(r) \/ GraphClose(r) \/ GraphUpsert(r) \/ CommitDelete(r)
      PROVE  Ends'
  <2>1. UNCHANGED <<loose, calls, mem0Vars, items, tx>>
    BY <1>1 DEF GetRow, GraphClose, GraphUpsert, CommitDelete, pgVars, historyVars
  <2>2. \/ pc[r] = "get" /\ pc'[r] = "flush"
        \/ pc[r] \in {"close", "upsert"} /\ pc'[r] \in {"upsert", "next"}
        \/ pc[r] \in Deleting /\ pc'[r] \in Deleting
    BY <1>1 DEF GetRow, GraphClose, GraphUpsert, CommitDelete, Goto, Deleting, IInv, Typed
  <2>3. QED BY <1>1, <2>1, <2>2, SameWork, OnlyItself, NoEndAddedBy DEF MirrorStep, IInv
<1>2. ASSUME NEW r \in Requests, CloseDeleted(r) \/ Raise(r)
      PROVE  Ends'
  <2>1. UNCHANGED <<loose, calls, mem0Vars>> /\ items'[r] = <<>> /\ tx'[r] = {}
    BY <1>2 DEF CloseDeleted, Raise, Return, pgVars, historyVars, IInv, Typed
  <2>2. QED BY <1>2, <2>1, NothingToEnd, OnlyItself, NoEndAddedBy DEF MirrorStep, IInv
<1>3. CASE UNCHANGED vars
  <2>1. UNCHANGED <<loose, calls, remote, issued, pc, items, tx>>
    BY <1>3 DEF vars, mem0Vars, pgVars, requestVars, historyVars
  <2>2. Dropped' = Dropped /\ \A q \in Requests : Apart(q)' /\ Gone(q)' = Gone(q)
    BY <2>1, SlotKept DEF Dropped, Ends, EndsComeOnce
  <2>3. QED BY <2>1, <2>2, NoEndAdded
<1>4. QED
  BY <1>1, <1>2, <1>3, StepShape, AddNoopEnds, AddStartEnds, DeleteStartEnds, FlushRowEnds,
     NextItemEnds, CommitEnds, RemoteDeleteEnds DEF MirrorStep

\* If no answer may have an item, no call but a NOOP ever finds anything to do.
LEMMA NextBounded == IInv /\ Bounded /\ [Next]_vars => Bounded'
<1> SUFFICES ASSUME IInv, Bounded, [Next]_vars PROVE Bounded'
  OBVIOUS
<1>1. (faults \in 0 .. MaxFaults /\ {troubled, overlapped} \subseteq BOOLEAN)'
  <2>1. ASSUME NEW r \in Requests, Raise(r) PROVE troubled' = TRUE /\ overlapped' = overlapped
    BY <2>1 DEF Raise
  <2>2. ASSUME NEW r \in Requests, NEW l, Begin(r, l)
        PROVE  UNCHANGED <<faults, troubled>> /\ overlapped' \in BOOLEAN
    BY <2>2 DEF Begin
  <2>3. Fault => faults' \in 0 .. MaxFaults
    BY BoundsAssumption DEF Fault, Bounded
  <2>4. /\ troubled' = troubled \/ troubled' = TRUE
        /\ overlapped' = overlapped \/ overlapped' \in BOOLEAN
        /\ faults' = faults \/ Fault
    <3>1. ASSUME NEW r \in Requests, Call(r)
          PROVE  UNCHANGED <<faults, troubled>> /\ (overlapped' = overlapped \/ overlapped' \in BOOLEAN)
      BY <2>2, <3>1 DEF Call, AddNoop, AddStart, DeleteStart
    <3>2. ASSUME NEW r \in Requests, Step(r) \/ Die(r)
          PROVE  /\ troubled' = troubled \/ troubled' = TRUE
                 /\ overlapped' = overlapped
                 /\ faults' = faults \/ Fault
      BY <2>1, <3>2
         DEF Step, Die, GetRow, FlushRow, FlushConflict, AbortDeadlocked, GraphClose,
             GraphUpsert, GraphFails, AnswerUnreadable, NextItem, Commit, RemoteDelete,
             RemoteMissing, CommitDelete, CloseDeleted, historyVars
    <3>3. CASE UNCHANGED vars
      BY <3>3 DEF vars, historyVars
    <3>4. QED BY <3>1, <3>2, <3>3 DEF Next
  <2>5. QED BY <2>3, <2>4 DEF Bounded
<1>2. ASSUME UNCHANGED <<rows, pc, items, primary>> PROVE Bounded'
  BY <1>1, <1>2 DEF Bounded
<1>3. ASSUME NEW r \in Requests, AddStart(r) PROVE Bounded'
  <2>1. PICK n \in 1 .. MaxItems : \E answer \in Answers(n) :
           items' = [items EXCEPT ![r] = answer]
    BY <1>3 DEF AddStart
  <2>2. MaxItems # 0 /\ n \in Nat /\ n <= MaxItems
    BY <2>1, BoundsAssumption
  <2>3. \A answer \in Answers(n) : Len(answer) = n
    BY <2>2 DEF Answers
  <2>4. \A q \in Requests : Len(items'[q]) <= MaxItems
    BY <2>1, <2>2, <2>3 DEF Bounded, IInv, Typed
  <2>5. primary' = primary
    BY <1>3 DEF AddStart
  <2>6. QED BY <1>1, <2>2, <2>4, <2>5 DEF Bounded
<1>4. ASSUME NEW r \in Requests, NEW m \in Ids, DeleteStart(r, m) PROVE Bounded'
  <2>1. MaxItems # 0
    BY <1>4 DEF DeleteStart, Bounded
  <2>2. /\ items' = [items EXCEPT ![r] =
                        <<[id |-> m, event |-> "DELETE", memory |-> NoContent]>>]
        /\ primary' = primary
    BY <1>4 DEF DeleteStart
  <2>3. \A q \in Requests : Len(items'[q]) <= MaxItems
    BY <2>1, <2>2, BoundsAssumption DEF Bounded, IInv, Typed
  <2>4. QED BY <1>1, <2>1, <2>2, <2>3 DEF Bounded
<1>5. ASSUME NEW r \in Requests, pc[r] # "idle", MirrorStep(r) \/ Raise(r) PROVE Bounded'
  <2>1. MaxItems # 0
    BY <1>5 DEF Bounded
  <2>2. \/ UNCHANGED <<items, primary>>
        \/ /\ items' = [items EXCEPT ![r] = <<>>]
           /\ primary' = [primary EXCEPT ![r] = FALSE]
        \/ NextItem(r)
    BY <1>5 DEF MirrorStep, GetRow, FlushRow, GraphClose, GraphUpsert, Commit, RemoteDelete,
                CommitDelete, CloseDeleted, Raise, Return
  <2>3. CASE UNCHANGED <<items, primary>>
    BY <1>1, <2>1, <2>3 DEF Bounded
  <2>4. CASE /\ items' = [items EXCEPT ![r] = <<>>]
             /\ primary' = [primary EXCEPT ![r] = FALSE]
    <3>1. \A q \in Requests : Len(items'[q]) <= MaxItems
      BY <2>4, BoundsAssumption DEF Bounded, IInv, Typed
    <3>2. QED BY <1>1, <2>1, <2>4, <3>1 DEF Bounded
  <2>5. CASE NextItem(r)
    <3>1. /\ items' = [items EXCEPT ![r] = Tail(items[r])]
          /\ primary' = [primary EXCEPT ![r] = primary[r] \/ ~Loose(Item(r), seen[r])]
          /\ pc[r] = "next"
      BY <2>5 DEF NextItem, Rest
    <3>2. items[r] \in Seq(Items) /\ items[r] # <<>>
      BY <3>1 DEF IInv, Typed, Hands, Hand, InLoop
    <3>3. Len(Tail(items[r])) <= Len(items[r]) /\ Len(Tail(items[r])) \in Nat
      BY <3>2
    <3>4. \A q \in Requests : Len(items'[q]) <= MaxItems
      BY <3>1, <3>2, <3>3, BoundsAssumption DEF Bounded, IInv, Typed
    <3>5. primary' \in [Requests -> BOOLEAN]
      <4>1. (primary[r] \/ ~Loose(Item(r), seen[r])) \in BOOLEAN
        OBVIOUS
      <4>2. QED BY <3>1, <4>1 DEF Bounded
    <3>6. QED BY <1>1, <2>1, <3>4, <3>5 DEF Bounded
  <2>6. QED BY <2>2, <2>3, <2>4, <2>5
<1>6. ASSUME NEW r \in Requests, AddNoop(r) PROVE Bounded'
  BY <1>2, <1>6 DEF AddNoop, requestVars
<1>7. CASE UNCHANGED vars
  BY <1>2, <1>7 DEF vars, pgVars, requestVars
<1>8. QED BY <1>3, <1>4, <1>5, <1>6, <1>7, StepShape, MirrorStepInFlight

\* Every variable keeps to its type: in particular an answer is never longer
\* than Mem0 gave it, and the events that name no memory are no more than the
\* calls made and the memories ended.
THEOREM TypeCorrect == Spec => []TypeOK
<1>1. Init => RemoteOK /\ Ends /\ Bounded
  <2> SUFFICES ASSUME Init PROVE RemoteOK /\ Ends /\ Bounded
    OBVIOUS
  <2>1. RemoteOK
    BY DEF Init, RemoteOK
  <2>2. \A r \in Requests : Apart(r) /\ Gone(r) = {}
    BY DEF Init, Apart, Gone, Work
  <2>3. EndsComeOnce
    BY <2>2 DEF EndsComeOnce
  <2>4. EndsCounted
    <3>1. AllGone = {}
      BY <2>2 DEF AllGone
    <3>2. Cardinality(AllGone) = 0
      BY <3>1, FS_EmptySet
    <3>3. QED BY <3>2, EndsAreFinite, BoundsAssumption DEF Init, EndsCounted
  <2>5. Bounded
    <3>1. \A r \in Requests : Len(items[r]) <= MaxItems
      BY BoundsAssumption DEF Init
    <3>2. \A m \in Ids : rows[m] = NoRow /\ ~NoRow.active
      BY DEF Init, NoRow
    <3>3. primary \in [Requests -> BOOLEAN] /\ faults \in 0 .. MaxFaults
      BY BoundsAssumption DEF Init
    <3>4. QED BY <3>1, <3>2, <3>3 DEF Init, Bounded
  <2>6. QED BY <2>1, <2>3, <2>4, <2>5 DEF Ends
<1>2. IInv /\ (RemoteOK /\ Ends /\ Bounded) /\ [Next]_vars => (RemoteOK /\ Ends /\ Bounded)'
  BY NextRemoteOK, NextEnds, NextBounded
<1>3. IInv /\ TextInv /\ (RemoteOK /\ Ends /\ Bounded) => TypeOK
  <2> SUFFICES ASSUME IInv, TextInv, RemoteOK, Ends, Bounded PROVE TypeOK
    OBVIOUS
  <2>1. loose \in 0 .. MaxCalls + MaxIds
    BY EndsAreFinite, BoundsAssumption DEF Ends, EndsCounted
  <2>2. \A r \in Requests : /\ items[r] \in Seq(Items)
                            /\ Len(items[r]) <= MaxItems
                            /\ tx[r] \subseteq Changes
    BY DEF IInv, Typed, Bounded
  <2>3. QED
    BY <2>1, <2>2 DEF TypeOK, IInv, Typed, TextInv, States, RemoteOK, Ends, EndsCounted,
                      Bounded
<1>4. QED BY <1>1, <1>2, <1>3, MirrorIsGrounded, TextsGoTogether, PTL DEF Spec
=============================================================================
