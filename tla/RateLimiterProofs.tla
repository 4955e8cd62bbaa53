------------------------- MODULE RateLimiterProofs --------------------------
(***************************************************************************)
(* What the rate limiter promises, for any limit, workers and requests:    *)
(* while Redis answers, all worker processes together let no more than     *)
(* Limit requests through on a window's account; when it fails, this is    *)
(* exceeded by Limit for each worker at most; and a 429 is never given to  *)
(* a client that has made no more than Limit requests in a window.  What   *)
(* makes these inductive is the request between its INCR and its EXPIRE:   *)
(* it has been counted but not been let through, and others may be in the  *)
(* meantime.                                                               *)
(***************************************************************************)
EXTENDS RateLimiter, FiniteSetTheorems, TLAPS

\* The types the arithmetic needs.
Typed ==
    /\ window \in Windows
    /\ count \in [Windows -> Nat]
    /\ local \in [Workers -> [count : Nat, start : Windows]]
    /\ pc \in [Requests -> {"new", "incr", "expire", "served", "throttled"}]
    /\ asked \in [Requests -> Windows]
    /\ admitted \in [Windows -> Nat]
    /\ faulty \in BOOLEAN

\* A request that has been the first of window w to be counted, and has yet
\* to be let through.
First(r, w) == pc[r] = "expire" /\ asked[r] = w

\* Requests get to Redis only if there is a limit.
LimitIsOn == \A r \in Requests : pc[r] \in {"incr", "expire"} => Limit > 0

\* A window that is not over has one first request at most, and has counted
\* everyone it let through, and its first request, whom it will let through.
CountedAt(w) ==
    /\ admitted[w] <= count[w]
    /\ admitted[w] <= Limit
    /\ \A r \in Requests : First(r, w) =>
        /\ admitted[w] + 1 <= count[w]
        /\ admitted[w] + 1 <= Limit
        /\ \A q \in Requests : First(q, w) => q = r

AllCounted == ~faulty => \A w \in Windows : w >= window => CountedAt(w)

IInv == Typed /\ LimitIsOn /\ AllCounted

LEMMA WindowsAreNumbers == Windows \subseteq Nat
BY MaxWindowAssumption DEF Windows

LEMMA InitInv == Init => IInv
<1> SUFFICES ASSUME Init PROVE IInv
  OBVIOUS
<1> USE DEF Init
<1>1. 0 \in Windows
  BY MaxWindowAssumption DEF Windows
<1>2. Typed
  BY <1>1 DEF Typed
<1>3. LimitIsOn
  BY DEF LimitIsOn
<1>4. AllCounted
  BY LimitAssumption DEF AllCounted, CountedAt, First
<1>5. QED BY <1>2, <1>3, <1>4 DEF IInv

LEMMA ArriveInv ==
    ASSUME IInv, NEW r \in Requests, Arrive(r)
    PROVE  IInv'
<1> USE LimitAssumption DEF IInv, Arrive
<1>1. Typed'
  BY DEF Typed
<1>2. LimitIsOn'
  BY DEF LimitIsOn, Typed
<1>3. ASSUME NEW q \in Requests, NEW w \in Windows, First(q, w)'
      PROVE  First(q, w)
  BY <1>3 DEF First, Typed
<1>4. AllCounted'
  BY <1>3 DEF AllCounted, CountedAt
<1>5. QED BY <1>1, <1>2, <1>4

\* A step of r that answers it: what First is afterwards.
LEMMA AnswerTypes ==
    ASSUME Typed, NEW r \in Requests, NEW n \in Nat, NEW w \in Windows,
           Answer(r, n, w)
    PROVE  /\ pc' \in [Requests -> {"new", "incr", "expire", "served", "throttled"}]
           /\ pc'[r] \in {"served", "throttled"}
           /\ \A q \in Requests : q # r => pc'[q] = pc[q]
           /\ admitted' \in [Windows -> Nat]
           /\ \A v \in Windows : v # w => admitted'[v] = admitted[v]
           /\ \/ Within(n) /\ admitted'[w] = admitted[w] + 1
              \/ ~Within(n) /\ admitted'[w] = admitted[w]
BY DEF Answer, Typed

LEMMA IncrInv ==
    ASSUME IInv, NEW r \in Requests, Incr(r)
    PROVE  IInv'
<1> DEFINE k == asked[r]
           n == count[k] + 1
<1> USE LimitAssumption, WindowsAreNumbers
<1>0. k \in Windows /\ count[k] \in Nat
  BY DEF IInv, Typed
<1>1. /\ k \in Windows
      /\ n \in Nat
      /\ pc[r] = "incr"
      /\ Limit > 0
      /\ count' = [count EXCEPT ![k] = n]
      /\ UNCHANGED <<window, local, asked, faulty>>
  BY <1>0 DEF IInv, Incr, Key, LimitIsOn
<1>2. CASE n = 1
  <2>1. /\ pc' = [pc EXCEPT ![r] = "expire"]
        /\ admitted' = admitted
    BY <1>2 DEF Incr, FirstOfWindow, Key
  <2>2. Typed'
    BY <1>1, <2>1 DEF IInv, Typed
  <2>3. LimitIsOn'
    BY <1>1, <2>1 DEF IInv, LimitIsOn, Typed
  <2>4. ASSUME ~faulty', NEW w \in Windows, w >= window'
        PROVE  CountedAt(w)'
    <3>1. CountedAt(w)
      BY <1>1, <2>4 DEF IInv, AllCounted
    <3>2. CASE w # k
      <4>1. \A q \in Requests : First(q, w)' => First(q, w)
        BY <1>1, <2>1, <3>2 DEF First, IInv, Typed
      <4>2. QED BY <1>1, <2>1, <3>1, <3>2, <4>1 DEF CountedAt, IInv, Typed
    <3>3. CASE w = k
      <4>1. admitted[w] = 0 /\ \A q \in Requests : ~First(q, w)
        BY <1>1, <1>2, <3>1, <3>3 DEF CountedAt, IInv, Typed
      <4>2. \A q \in Requests : First(q, w)' => q = r
        BY <1>1, <2>1, <4>1 DEF First, IInv, Typed
      <4>3. count'[w] = 1 /\ admitted'[w] = 0
        BY <1>1, <1>2, <2>1, <3>3, <4>1 DEF IInv, Typed
      <4>4. QED BY <1>1, <4>2, <4>3 DEF CountedAt
    <3>4. QED BY <3>2, <3>3
  <2>5. QED BY <2>2, <2>3, <2>4 DEF IInv, AllCounted
<1>3. CASE n # 1
  <2>1. Answer(r, n, k)
    BY <1>3 DEF Incr, FirstOfWindow, Key
  <2>2. Typed'
    BY <1>1, <2>1, AnswerTypes DEF IInv, Typed
  <2>3. LimitIsOn'
    BY <1>1 DEF IInv, LimitIsOn
  <2>4. ASSUME NEW q \in Requests, NEW w \in Windows, First(q, w)'
        PROVE  First(q, w)
    BY <1>1, <2>1, <2>4, AnswerTypes DEF First, IInv
  <2>5. ASSUME ~faulty', NEW w \in Windows, w >= window'
        PROVE  CountedAt(w)'
    <3>1. CountedAt(w)
      BY <1>1, <2>5 DEF IInv, AllCounted
    <3>2. CASE w # k
      <4>1. count'[w] = count[w]
        BY <1>1, <3>2 DEF IInv, Typed
      <4>2. \A v \in Windows : v # k => admitted'[v] = admitted[v]
        BY <1>1, <2>1, AnswerTypes DEF IInv
      <4>3. admitted'[w] = admitted[w] /\ count'[w] = count[w]
        BY <3>2, <4>1, <4>2
      <4>4. QED BY <2>4, <3>1, <4>3 DEF CountedAt
    <3>3. CASE w = k
      <4>1. count'[w] = n /\ admitted[w] \in Nat /\ count[w] = n - 1
        BY <1>1, <3>3 DEF IInv, Typed
      <4>2. \/ n <= Limit /\ admitted'[w] = admitted[w] + 1
            \/ admitted'[w] = admitted[w]
        BY <1>1, <2>1, <3>3, AnswerTypes DEF IInv, Within
      <4>3. admitted[w] <= count[w] /\ admitted[w] <= Limit
        BY <3>1 DEF CountedAt
      <4>4. admitted'[w] <= count'[w] /\ admitted'[w] <= Limit
        BY <1>1, <4>1, <4>2, <4>3
      <4>5. ASSUME NEW q \in Requests, First(q, w)'
            PROVE  /\ admitted'[w] + 1 <= count'[w]
                   /\ admitted'[w] + 1 <= Limit
                   /\ \A p \in Requests : First(p, w)' => p = q
        <5>1. First(q, w)
          BY <2>4, <4>5
        <5>2. /\ admitted[w] + 1 <= count[w]
              /\ admitted[w] + 1 <= Limit
              /\ \A p \in Requests : First(p, w) => p = q
          BY <3>1, <5>1 DEF CountedAt
        <5>3. admitted'[w] + 1 <= count'[w] /\ admitted'[w] + 1 <= Limit
          BY <1>1, <4>1, <4>2, <5>2
        <5>4. \A p \in Requests : First(p, w)' => p = q
          BY <2>4, <5>2
        <5>5. QED BY <5>3, <5>4
      <4>6. QED BY <4>4, <4>5 DEF CountedAt
    <3>4. QED BY <3>2, <3>3
  <2>6. QED BY <2>2, <2>3, <2>5 DEF IInv, AllCounted
<1>4. QED BY <1>2, <1>3

LEMMA ExpireInv ==
    ASSUME IInv, NEW r \in Requests, Expire(r)
    PROVE  IInv'
<1> DEFINE k == asked[r]
<1> USE LimitAssumption, WindowsAreNumbers
<1>1. /\ k \in Windows
      /\ First(r, k)
      /\ Limit > 0
      /\ Answer(r, 1, k)
      /\ UNCHANGED <<window, count, local, asked, faulty>>
  BY DEF IInv, Expire, Typed, First, LimitIsOn
<1>2. Typed'
  BY <1>1, AnswerTypes DEF IInv, Typed
<1>3. LimitIsOn'
  BY <1>1 DEF IInv, LimitIsOn
<1>4. ASSUME NEW q \in Requests, NEW w \in Windows, First(q, w)'
      PROVE  First(q, w) /\ q # r
  BY <1>1, <1>4, AnswerTypes DEF First, IInv
<1>5. ASSUME ~faulty', NEW w \in Windows, w >= window'
      PROVE  CountedAt(w)'
  <2>1. CountedAt(w)
    BY <1>1, <1>5 DEF IInv, AllCounted
  <2>2. CASE w # k
    <3>1. Typed /\ 1 \in Nat
      BY DEF IInv
    <3>2. \A v \in Windows : v # k => admitted'[v] = admitted[v]
      BY <1>1, <3>1, AnswerTypes
    <3>3. admitted'[w] = admitted[w] /\ count'[w] = count[w]
      BY <1>1, <2>2, <3>2
    <3>4. QED BY <1>4, <2>1, <3>3 DEF CountedAt
  <2>3. CASE w = k
    <3>1. admitted'[w] \in {admitted[w], admitted[w] + 1} /\ admitted[w] \in Nat
      BY <1>1, <2>3, AnswerTypes DEF IInv, Typed
    <3>2. \A q \in Requests : ~First(q, w)'
      BY <1>1, <1>4, <2>1, <2>3 DEF CountedAt
    <3>3. QED BY <1>1, <2>1, <2>3, <3>1, <3>2 DEF CountedAt, IInv, Typed
  <2>4. QED BY <2>2, <2>3
<1>6. QED BY <1>2, <1>3, <1>5 DEF IInv, AllCounted

\* Redis has failed: all that is left to show is types.
LEMMA FallBackInv ==
    ASSUME IInv, NEW r \in Requests, FallBack(r)
    PROVE  IInv'
<1>1. PICK k \in Workers :
        /\ local' = [local EXCEPT ![k] = [count |-> Entry(k) + 1, start |-> window]]
        /\ Answer(r, Entry(k) + 1, window)
  BY DEF FallBack
<1>2. Entry(k) + 1 \in Nat
  BY DEF IInv, Typed, Entry
<1>3. faulty' = TRUE /\ UNCHANGED <<window, asked>>
  BY DEF FallBack
<1>4. count' \in [Windows -> Nat]
  BY DEF FallBack, IInv, Typed, Key
<1>5. Typed'
  BY <1>1, <1>2, <1>3, <1>4, AnswerTypes DEF IInv, Typed
<1>6. LimitIsOn'
  BY <1>1, <1>2, AnswerTypes DEF IInv, LimitIsOn, Typed
<1>7. QED BY <1>3, <1>5, <1>6 DEF IInv, AllCounted

\* Time passes, and Redis forgets windows that are over: fewer windows are
\* not over, and their counters are as they were.
LEMMA TickInv == IInv /\ Tick => IInv'
<1> SUFFICES ASSUME IInv, Tick PROVE IInv'
  OBVIOUS
<1> USE MaxWindowAssumption DEF IInv, Tick, clientVars
<1>1. Typed'
  BY DEF Typed, Windows
<1>2. LimitIsOn'
  BY DEF LimitIsOn
<1>3. AllCounted'
  BY DEF AllCounted, CountedAt, First, Typed, Windows
<1>4. QED BY <1>1, <1>2, <1>3

LEMMA EvictInv ==
    ASSUME IInv, NEW v \in Windows, Evict(v)
    PROVE  IInv'
<1> USE MaxWindowAssumption DEF IInv, Evict, clientVars
<1>1. Typed'
  BY DEF Typed
<1>2. LimitIsOn'
  BY DEF LimitIsOn
<1>3. ASSUME ~faulty', NEW w \in Windows, w >= window'
      PROVE  CountedAt(w)'
  <2>1. CountedAt(w) /\ count'[w] = count[w]
    BY <1>3 DEF AllCounted, Typed, Windows
  <2>2. QED BY <2>1 DEF CountedAt, First
<1>4. QED BY <1>1, <1>2, <1>3 DEF AllCounted

\* The inductive invariant: everyone let through on the account of a window
\* that is not over has been counted.
THEOREM Counted == Spec => []IInv
<1>1. IInv /\ [Next]_vars => IInv'
  <2> SUFFICES ASSUME IInv, [Next]_vars PROVE IInv'
    OBVIOUS
  <2>1. CASE UNCHANGED vars
    BY <2>1 DEF vars, clientVars, IInv, Typed, LimitIsOn, AllCounted, CountedAt, First
  <2>2. CASE Next
    BY <2>2, ArriveInv, IncrInv, ExpireInv, FallBackInv, TickInv, EvictInv DEF Next
  <2>3. QED BY <2>1, <2>2
<1>2. QED BY <1>1, InitInv, PTL DEF Spec

\* The limit is one for all workers: while Redis answers, they let no more
\* than Limit requests through on a window's account before it is over.
THEOREM LimitIsShared == Spec => []WindowShare
<1>1. IInv => WindowShare
  BY LimitAssumption, WindowsAreNumbers
     DEF IInv, Typed, AllCounted, CountedAt, WindowShare
<1>2. QED BY <1>1, Counted, PTL

-----------------------------------------------------------------------------
\* What a 429 shows, whatever Redis does: both counters have requests to show
\* for what they say.  Counters may be forgotten and requests be counted
\* twice, so it is an inequality, and it is about the requests charged to a
\* window, which only ever become more.

Done(r) == pc[r] \in {"served", "throttled"}

Charged == {q \in Requests : charged[q] # {}}
ChargedTo(w) == {q \in Requests : w \in charged[q]}
AnsweredFor(w) == {q \in Requests : w \in charged[q] /\ Done(q)}

\* Nothing is charged to a request before its first await, and only the
\* window of its key before its second: its fallback adds a request to those
\* answered for the window of the local counter.
ChargedAsAwaited ==
    \A r \in Requests :
        /\ pc[r] \in {"new", "incr"} => charged[r] = {}
        /\ pc[r] = "expire" => charged[r] = {asked[r]}

CountersHaveRequests ==
    /\ \A w \in Windows : count[w] <= Cardinality(ChargedTo(w))
    /\ \A k \in Workers, w \in Windows : local[k].start = w =>
         local[k].count <= Cardinality(AnsweredFor(w))

\* However many requests there are, finitely many have been charged.
Charging ==
    /\ charged \in [Requests -> SUBSET Windows]
    /\ IsFiniteSet(Charged)
    /\ ChargedAsAwaited
    /\ CountersHaveRequests
    /\ ThrottledOnlyAboveLimit

\* The sets that are counted are finite and only grow.
LEMMA Charge ==
    ASSUME charged \in [Requests -> SUBSET Windows], IsFiniteSet(Charged),
           NEW r \in Requests, NEW W \in SUBSET Windows,
           charged' = [charged EXCEPT ![r] = @ \cup W],
           \A q \in Requests : Done(q) => Done(q)'
    PROVE  /\ charged' \in [Requests -> SUBSET Windows]
           /\ IsFiniteSet(Charged')
           /\ \A w \in Windows :
                /\ Cardinality(ChargedTo(w)) \in Nat
                /\ Cardinality(ChargedTo(w)') \in Nat
                /\ Cardinality(ChargedTo(w)) <= Cardinality(ChargedTo(w)')
                /\ Cardinality(AnsweredFor(w)) \in Nat
                /\ Cardinality(AnsweredFor(w)') \in Nat
                /\ Cardinality(AnsweredFor(w)) <= Cardinality(AnsweredFor(w)')
                /\ Cardinality(AnsweredFor(w)') <= Cardinality(ChargedTo(w)')
           /\ \A w \in W : w \notin charged[r] =>
                Cardinality(ChargedTo(w)') >= Cardinality(ChargedTo(w)) + 1
           /\ \A w \in W : ~Done(r) /\ Done(r)' =>
                Cardinality(AnsweredFor(w)') >= Cardinality(AnsweredFor(w)) + 1
<1>1. charged' \in [Requests -> SUBSET Windows]
  OBVIOUS
<1>2. IsFiniteSet(Charged')
  <2>1. IsFiniteSet(Charged \cup {r})
    BY FS_AddElement
  <2>2. Charged' \subseteq Charged \cup {r}
    BY DEF Charged
  <2>3. QED BY <2>1, <2>2, FS_Subset
<1>3. ASSUME NEW w \in Windows
      PROVE  /\ IsFiniteSet(ChargedTo(w)) /\ IsFiniteSet(ChargedTo(w)')
             /\ IsFiniteSet(AnsweredFor(w)) /\ IsFiniteSet(AnsweredFor(w)')
             /\ ChargedTo(w) \subseteq ChargedTo(w)'
             /\ AnsweredFor(w) \subseteq AnsweredFor(w)'
             /\ AnsweredFor(w)' \subseteq ChargedTo(w)'
  <2>1. ChargedTo(w)' \subseteq Charged' /\ ChargedTo(w) \subseteq Charged
    BY DEF ChargedTo, Charged
  <2>2. AnsweredFor(w)' \subseteq Charged' /\ AnsweredFor(w) \subseteq Charged
    BY DEF AnsweredFor, Charged
  <2>3. ChargedTo(w) \subseteq ChargedTo(w)'
    BY DEF ChargedTo
  <2>4. AnsweredFor(w) \subseteq AnsweredFor(w)'
    BY DEF AnsweredFor
  <2>5. AnsweredFor(w)' \subseteq ChargedTo(w)'
    BY DEF AnsweredFor, ChargedTo
  <2>6. QED BY <1>2, <2>1, <2>2, <2>3, <2>4, <2>5, FS_Subset
<1>4. ASSUME NEW w \in Windows
      PROVE  /\ Cardinality(ChargedTo(w)) \in Nat
             /\ Cardinality(ChargedTo(w)') \in Nat
             /\ Cardinality(ChargedTo(w)) <= Cardinality(ChargedTo(w)')
             /\ Cardinality(AnsweredFor(w)) \in Nat
             /\ Cardinality(AnsweredFor(w)') \in Nat
             /\ Cardinality(AnsweredFor(w)) <= Cardinality(AnsweredFor(w)')
             /\ Cardinality(AnsweredFor(w)') <= Cardinality(ChargedTo(w)')
  BY <1>3, FS_CardinalityType, FS_Subset
<1>5. ASSUME NEW w \in W, w \notin charged[r]
      PROVE  Cardinality(ChargedTo(w)') >= Cardinality(ChargedTo(w)) + 1
  <2>1. ChargedTo(w)' = ChargedTo(w) \cup {r} /\ r \notin ChargedTo(w)
    BY <1>5 DEF ChargedTo
  <2>2. IsFiniteSet(ChargedTo(w)) /\ Cardinality(ChargedTo(w)) \in Nat
    BY <1>3, <1>4
  <2>3. Cardinality(ChargedTo(w)') = Cardinality(ChargedTo(w)) + 1
    BY <2>1, <2>2, FS_AddElement
  <2>4. QED BY <2>2, <2>3
<1>6. ASSUME NEW w \in W, ~Done(r), Done(r)'
      PROVE  Cardinality(AnsweredFor(w)') >= Cardinality(AnsweredFor(w)) + 1
  <2> DEFINE S == AnsweredFor(w) \cup {r}
  <2>1. /\ IsFiniteSet(AnsweredFor(w)) /\ IsFiniteSet(AnsweredFor(w)')
        /\ Cardinality(AnsweredFor(w)) \in Nat
        /\ AnsweredFor(w) \subseteq AnsweredFor(w)'
    BY <1>3, <1>4
  <2>2. r \notin AnsweredFor(w)
    BY <1>6 DEF AnsweredFor
  <2>3. r \in AnsweredFor(w)'
    BY <1>6 DEF AnsweredFor
  <2>4. IsFiniteSet(S) /\ Cardinality(S) = Cardinality(AnsweredFor(w)) + 1
    BY <2>1, <2>2, FS_AddElement
  <2>5. Cardinality(S) <= Cardinality(AnsweredFor(w)')
    BY <2>1, <2>3, <2>4, FS_Subset
  <2>6. QED BY <2>1, <2>4, <2>5, FS_CardinalityType
<1>7. QED BY <1>1, <1>2, <1>4, <1>5, <1>6

\* A 429 stays as justified as it was.
LEMMA StaysThrottled ==
    ASSUME ThrottledOnlyAboveLimit, Typed, Charging,
           NEW r \in Requests, NEW W \in SUBSET Windows,
           charged' = [charged EXCEPT ![r] = @ \cup W],
           \A q \in Requests : Done(q) => Done(q)',
           \A q \in Requests : q # r => pc'[q] = pc[q],
           pc'[r] = "throttled" =>
               \E w \in charged'[r] : Cardinality(ChargedTo(w)') > Limit
    PROVE  ThrottledOnlyAboveLimit'
<1> SUFFICES ASSUME NEW q \in Requests, pc'[q] = "throttled"
             PROVE  \E w \in charged'[q] : Cardinality(ChargedTo(w)') > Limit
  BY DEF ThrottledOnlyAboveLimit, ChargedTo
<1>1. CASE q = r
  BY <1>1
<1>2. CASE q # r
  <2>1. pc[q] = "throttled"
    BY <1>2
  <2>2. PICK w \in charged[q] : Cardinality(ChargedTo(w)) > Limit
    BY <2>1 DEF ThrottledOnlyAboveLimit, ChargedTo
  <2>3. w \in Windows /\ w \in charged'[q]
    BY <1>2 DEF Charging
  <2>4. /\ Cardinality(ChargedTo(w)) \in Nat
        /\ Cardinality(ChargedTo(w)') \in Nat
        /\ Cardinality(ChargedTo(w)) <= Cardinality(ChargedTo(w)')
    BY <2>3, Charge DEF Charging
  <2>5. Cardinality(ChargedTo(w)') > Limit
    BY <2>2, <2>4, LimitAssumption
  <2>6. QED BY <2>3, <2>5
<1>3. QED BY <1>1, <1>2

LEMMA InitCharging == Init => Charging
<1> SUFFICES ASSUME Init PROVE Charging
  OBVIOUS
<1> USE DEF Init
<1>1. charged \in [Requests -> SUBSET Windows] /\ Charged = {}
  BY DEF Charged
<1>2. ASSUME NEW w \in Windows
      PROVE  ChargedTo(w) = {} /\ AnsweredFor(w) = {}
  BY DEF ChargedTo, AnsweredFor
<1>3. Cardinality({}) = 0 /\ IsFiniteSet({})
  BY FS_EmptySet
<1>4. 0 \in Windows
  BY MaxWindowAssumption DEF Windows
<1>5. CountersHaveRequests
  <2>1. \A w \in Windows :
          count[w] = 0 /\ Cardinality(ChargedTo(w)) = 0 /\ Cardinality(AnsweredFor(w)) = 0
    BY <1>2, <1>3
  <2>2. \A k \in Workers : local[k].count = 0
    OBVIOUS
  <2>3. QED BY <2>1, <2>2 DEF CountersHaveRequests
<1>6. ThrottledOnlyAboveLimit /\ ChargedAsAwaited
  BY DEF ThrottledOnlyAboveLimit, ChargedAsAwaited
<1>7. QED BY <1>1, <1>3, <1>5, <1>6 DEF Charging

LEMMA ArriveCharging ==
    ASSUME IInv, Charging, NEW r \in Requests, Arrive(r)
    PROVE  Charging'
<1> USE DEF Arrive
<1>1. /\ pc[r] = "new" /\ charged[r] = {}
      /\ \A q \in Requests : q # r => pc'[q] = pc[q] /\ asked'[q] = asked[q]
      /\ pc'[r] \in {"incr", "served"}
      /\ UNCHANGED <<count, local, charged>>
  BY DEF IInv, Typed, Charging, ChargedAsAwaited
<1>2. \A q \in Requests : Done(q) => Done(q)'
  BY <1>1 DEF Done
<1>3. charged' = [charged EXCEPT ![r] = @ \cup {}]
  BY <1>1 DEF Charging
<1>4. ThrottledOnlyAboveLimit'
  BY <1>1, <1>2, <1>3, StaysThrottled DEF IInv, Charging
<1>5. CountersHaveRequests'
  <2>1. \A w \in Windows : ChargedTo(w)' = ChargedTo(w) /\ AnsweredFor(w)' = AnsweredFor(w)
    <3>1. \A q \in Requests, w \in Windows :
            w \in charged'[q] /\ Done(q)' <=> w \in charged[q] /\ Done(q)
      BY <1>1 DEF Done
    <3>2. QED BY <1>1, <3>1 DEF ChargedTo, AnsweredFor
  <2>2. \A k \in Workers : local[k].start \in Windows
    BY DEF IInv, Typed
  <2>3. QED BY <1>1, <2>1, <2>2 DEF Charging, CountersHaveRequests
<1>6. ChargedAsAwaited'
  BY <1>1 DEF Charging, ChargedAsAwaited
<1>7. QED BY <1>1, <1>4, <1>5, <1>6 DEF Charging, Charged

\* A step that charges r and answers it, or leaves it to its second await.
LEMMA ChargeInv ==
    ASSUME IInv, Charging, NEW r \in Requests, NEW W \in SUBSET Windows,
           pc[r] \in {"incr", "expire"},
           pc'[r] \in {"expire", "served", "throttled"},
           \A q \in Requests : q # r => pc'[q] = pc[q],
           UNCHANGED asked,
           charged' = [charged EXCEPT ![r] = @ \cup W],
           pc'[r] = "expire" => charged'[r] = {asked[r]},
           pc'[r] = "throttled" =>
               \E w \in charged'[r] : Cardinality(ChargedTo(w)') > Limit,
           CountersHaveRequests'
    PROVE  Charging'
<1>1. \A q \in Requests : Done(q) => Done(q)'
  BY DEF Done
<1>2. charged' \in [Requests -> SUBSET Windows] /\ IsFiniteSet(Charged')
  BY <1>1, Charge DEF Charging
<1>3. ThrottledOnlyAboveLimit'
  BY <1>1, StaysThrottled DEF IInv, Charging
<1>4. ChargedAsAwaited'
  BY DEF Charging, ChargedAsAwaited
<1>5. QED BY <1>2, <1>3, <1>4 DEF Charging

LEMMA IncrCharging ==
    ASSUME IInv, Charging, NEW r \in Requests, Incr(r)
    PROVE  Charging'
<1> USE LimitAssumption
<1>0. PICK k \in Windows : k = asked[r]
  BY DEF IInv, Typed
<1> DEFINE n == count[k] + 1
<1>1. /\ k = asked[r] /\ count[k] \in Nat
      /\ pc[r] = "incr" /\ charged[r] = {}
      /\ count' = [count EXCEPT ![k] = n]
      /\ charged' = [charged EXCEPT ![r] = @ \cup {k}]
      /\ charged'[r] = {k}
      /\ UNCHANGED <<local, asked>>
  BY <1>0 DEF IInv, Typed, Charging, ChargedAsAwaited, Incr, Key
<1>2. /\ \A q \in Requests : q # r => pc'[q] = pc[q]
      /\ \/ pc'[r] = "expire"
         \/ pc'[r] = "served"
         \/ pc'[r] = "throttled" /\ n > Limit
  BY <1>1 DEF Incr, Key, Answer, Within, IInv, Typed
<1>3. \A q \in Requests : Done(q) => Done(q)'
  BY <1>1, <1>2 DEF Done
<1>4. /\ \A w \in Windows :
           /\ Cardinality(ChargedTo(w)) \in Nat
           /\ Cardinality(ChargedTo(w)') \in Nat
           /\ Cardinality(ChargedTo(w)) <= Cardinality(ChargedTo(w)')
           /\ Cardinality(AnsweredFor(w)) \in Nat
           /\ Cardinality(AnsweredFor(w)') \in Nat
           /\ Cardinality(AnsweredFor(w)) <= Cardinality(AnsweredFor(w)')
      /\ Cardinality(ChargedTo(k)') >= Cardinality(ChargedTo(k)) + 1
  BY <1>1, <1>3, Charge DEF Charging
<1>5. count[k] <= Cardinality(ChargedTo(k))
  BY <1>1 DEF Charging, CountersHaveRequests
<1>6. n <= Cardinality(ChargedTo(k)')
  BY <1>1, <1>4, <1>5
<1>7. ASSUME NEW w \in Windows
      PROVE  count'[w] <= Cardinality(ChargedTo(w)')
  <2>1. count[w] <= Cardinality(ChargedTo(w)) /\ count[w] \in Nat
    BY DEF Charging, CountersHaveRequests, IInv, Typed
  <2>2. w # k => count'[w] = count[w]
    BY <1>1 DEF IInv, Typed
  <2>3. w = k => count'[w] = n
    BY <1>1 DEF IInv, Typed
  <2>4. QED BY <1>4, <1>6, <2>1, <2>2, <2>3
<1>8. ASSUME NEW j \in Workers, NEW w \in Windows, local'[j].start = w
      PROVE  local'[j].count <= Cardinality(AnsweredFor(w)')
  <2>1. local'[j] = local[j]
    BY <1>1
  <2>2. local[j].count \in Nat /\ local[j].count <= Cardinality(AnsweredFor(w))
    BY <1>8, <2>1 DEF Charging, CountersHaveRequests, IInv, Typed
  <2>3. QED BY <1>4, <2>1, <2>2
<1>9. CountersHaveRequests'
  BY <1>7, <1>8 DEF CountersHaveRequests
<1>10. pc'[r] = "throttled" =>
         \E w \in charged'[r] : Cardinality(ChargedTo(w)') > Limit
  BY <1>1, <1>2, <1>4, <1>6
<1>11. QED BY <1>1, <1>2, <1>9, <1>10, ChargeInv

LEMMA ExpireCharging ==
    ASSUME IInv, Charging, NEW r \in Requests, Expire(r)
    PROVE  Charging'
<1>1. /\ pc[r] = "expire" /\ Limit > 0
      /\ charged' = [charged EXCEPT ![r] = @ \cup {}]
      /\ charged'[r] = {asked[r]}
      /\ UNCHANGED <<count, local, asked>>
      /\ Answer(r, 1, asked[r])
  BY DEF IInv, LimitIsOn, Charging, ChargedAsAwaited, Expire
<1>2. pc'[r] = "served" /\ \A q \in Requests : q # r => pc'[q] = pc[q]
  BY <1>1, LimitAssumption DEF Answer, Within, IInv, Typed
<1>3. \A q \in Requests : Done(q) => Done(q)'
  BY <1>1, <1>2 DEF Done
<1>4. \A w \in Windows :
        /\ Cardinality(ChargedTo(w)) \in Nat
        /\ Cardinality(ChargedTo(w)') \in Nat
        /\ Cardinality(ChargedTo(w)) <= Cardinality(ChargedTo(w)')
        /\ Cardinality(AnsweredFor(w)) \in Nat
        /\ Cardinality(AnsweredFor(w)') \in Nat
        /\ Cardinality(AnsweredFor(w)) <= Cardinality(AnsweredFor(w)')
  BY <1>1, <1>3, Charge DEF Charging
<1>5. ASSUME NEW w \in Windows
      PROVE  count'[w] <= Cardinality(ChargedTo(w)')
  <2>1. count[w] <= Cardinality(ChargedTo(w)) /\ count[w] \in Nat
    BY DEF Charging, CountersHaveRequests, IInv, Typed
  <2>2. QED BY <1>1, <1>4, <2>1
<1>6. ASSUME NEW j \in Workers, NEW w \in Windows, local'[j].start = w
      PROVE  local'[j].count <= Cardinality(AnsweredFor(w)')
  <2>1. local'[j] = local[j]
    BY <1>1
  <2>2. local[j].count \in Nat /\ local[j].count <= Cardinality(AnsweredFor(w))
    BY <1>6, <2>1 DEF Charging, CountersHaveRequests, IInv, Typed
  <2>3. QED BY <1>4, <2>1, <2>2
<1>7. CountersHaveRequests'
  BY <1>5, <1>6 DEF CountersHaveRequests
<1>8. /\ {} \in SUBSET Windows
      /\ pc[r] \in {"incr", "expire"} /\ pc'[r] \in {"expire", "served", "throttled"}
      /\ UNCHANGED asked
  BY <1>1, <1>2
<1>9. QED BY <1>1, <1>2, <1>7, <1>8, ChargeInv

\* The fallback charges the window it is now, on top of the window of the
\* key: whichever counter it raises has one more request to show for it.
LEMMA FallBackCharging ==
    ASSUME IInv, Charging, NEW r \in Requests, FallBack(r)
    PROVE  Charging'
<1> USE LimitAssumption
<1>0. PICK a \in Windows, v \in Windows : a = asked[r] /\ v = window
  BY DEF IInv, Typed
<1>1. PICK k \in Workers :
        /\ local' = [local EXCEPT ![k] = [count |-> Entry(k) + 1, start |-> v]]
        /\ Answer(r, Entry(k) + 1, v)
  BY <1>0 DEF FallBack
<1> DEFINE n == Entry(k) + 1
<1>2. /\ pc[r] \in {"incr", "expire"}
      /\ charged' = [charged EXCEPT ![r] = @ \cup {a, v}]
      /\ v \in charged'[r]
      /\ UNCHANGED asked
      /\ n \in Nat
  BY <1>0 DEF IInv, Typed, Charging, FallBack, Entry
<1>3. /\ \A q \in Requests : q # r => pc'[q] = pc[q]
      /\ \/ pc'[r] = "served"
         \/ pc'[r] = "throttled" /\ n > Limit
  BY <1>1, <1>2 DEF Answer, Within, IInv, Typed
<1>4. (\A q \in Requests : Done(q) => Done(q)') /\ ~Done(r) /\ Done(r)'
  BY <1>2, <1>3 DEF Done
<1>5. /\ a \in {a, v} /\ v \in {a, v} /\ {a, v} \in SUBSET Windows
      /\ charged \in [Requests -> SUBSET Windows] /\ IsFiniteSet(Charged)
  BY DEF Charging
<1>6. /\ \A w \in Windows :
           /\ Cardinality(ChargedTo(w)) \in Nat
           /\ Cardinality(ChargedTo(w)') \in Nat
           /\ Cardinality(ChargedTo(w)) <= Cardinality(ChargedTo(w)')
           /\ Cardinality(AnsweredFor(w)) \in Nat
           /\ Cardinality(AnsweredFor(w)') \in Nat
           /\ Cardinality(AnsweredFor(w)) <= Cardinality(AnsweredFor(w)')
           /\ Cardinality(AnsweredFor(w)') <= Cardinality(ChargedTo(w)')
      /\ a \notin charged[r] =>
           Cardinality(ChargedTo(a)') >= Cardinality(ChargedTo(a)) + 1
      /\ Cardinality(AnsweredFor(v)') >= Cardinality(AnsweredFor(v)) + 1
  BY <1>2, <1>4, <1>5, Charge
<1>7. n <= Cardinality(AnsweredFor(v)')
  <2>1. CASE local[k].start = v
    <3>1. n = local[k].count + 1 /\ local[k].count \in Nat
      BY <1>0, <2>1 DEF Entry, IInv, Typed
    <3>2. local[k].count <= Cardinality(AnsweredFor(v))
      BY <2>1 DEF Charging, CountersHaveRequests
    <3>3. QED BY <1>6, <3>1, <3>2
  <2>2. CASE local[k].start # v
    <3>1. n = 1
      BY <1>0, <2>2 DEF Entry
    <3>2. QED BY <1>6, <3>1
  <2>3. QED BY <2>1, <2>2
<1>8. ASSUME NEW w \in Windows
      PROVE  count'[w] <= Cardinality(ChargedTo(w)')
  <2>1. count[w] <= Cardinality(ChargedTo(w)) /\ count[w] \in Nat
    BY DEF Charging, CountersHaveRequests, IInv, Typed
  <2>2. \/ count'[w] = count[w]
        \/ w = a /\ pc[r] = "incr" /\ count'[w] = count[w] + 1
    BY <1>0 DEF FallBack, Key, IInv, Typed
  <2>3. pc[r] = "incr" => a \notin charged[r]
    BY DEF Charging, ChargedAsAwaited
  <2>4. QED BY <1>6, <2>1, <2>2, <2>3
<1>9. ASSUME NEW j \in Workers, NEW w \in Windows, local'[j].start = w
      PROVE  local'[j].count <= Cardinality(AnsweredFor(w)')
  <2>1. CASE j = k
    <3>1. local'[j] = [count |-> n, start |-> v]
      BY <1>1, <2>1 DEF IInv, Typed
    <3>2. QED BY <1>7, <1>9, <3>1
  <2>2. CASE j # k
    <3>1. local'[j] = local[j]
      BY <1>1, <2>2 DEF IInv, Typed
    <3>2. local[j].count \in Nat /\ local[j].count <= Cardinality(AnsweredFor(w))
      BY <1>9, <3>1 DEF Charging, CountersHaveRequests, IInv, Typed
    <3>3. QED BY <1>6, <3>1, <3>2
  <2>3. QED BY <2>1, <2>2
<1>10. CountersHaveRequests'
  BY <1>8, <1>9 DEF CountersHaveRequests
<1>11. pc'[r] = "throttled" =>
         \E w \in charged'[r] : Cardinality(ChargedTo(w)') > Limit
  <2>1. pc'[r] = "throttled" => Cardinality(ChargedTo(v)') > Limit
    BY <1>2, <1>3, <1>6, <1>7
  <2>2. QED BY <1>2, <2>1
<1>12. QED BY <1>2, <1>3, <1>10, <1>11, ChargeInv

LEMMA EvictCharging ==
    ASSUME IInv, Charging, NEW v \in Windows, Evict(v)
    PROVE  Charging'
<1>1. UNCHANGED <<local, pc, asked, charged>>
  BY DEF Evict, clientVars
<1>2. \A w \in Windows : ChargedTo(w)' = ChargedTo(w) /\ AnsweredFor(w)' = AnsweredFor(w)
  BY <1>1 DEF ChargedTo, AnsweredFor, Done
<1>3. ASSUME NEW w \in Windows
      PROVE  count'[w] <= Cardinality(ChargedTo(w))
  <2>1. count[w] <= Cardinality(ChargedTo(w)) /\ count'[w] \in {0, count[w]}
    BY DEF Evict, Charging, CountersHaveRequests, IInv, Typed
  <2>2. IsFiniteSet(Charged) /\ ChargedTo(w) \subseteq Charged
    BY DEF Charging, Charged, ChargedTo
  <2>3. Cardinality(ChargedTo(w)) \in Nat
    BY <2>2, FS_Subset, FS_CardinalityType
  <2>4. QED BY <2>1, <2>3
<1>4. CountersHaveRequests'
  BY <1>1, <1>2, <1>3 DEF Charging, CountersHaveRequests
<1>5. ChargedAsAwaited' /\ ThrottledOnlyAboveLimit'
  BY <1>1 DEF Charging, ChargedAsAwaited, ThrottledOnlyAboveLimit
<1>6. QED BY <1>1, <1>4, <1>5 DEF Charging, Charged

LEMMA IdleCharging ==
    ASSUME Charging, UNCHANGED <<count, local, pc, asked, charged>>
    PROVE  Charging'
BY DEF Charging, Charged, ChargedAsAwaited, CountersHaveRequests,
       ThrottledOnlyAboveLimit, ChargedTo, AnsweredFor, Done

\* The inductive invariant of the counters and of what they count.
THEOREM CountersAreBacked == Spec => []Charging
<1>1. IInv /\ Charging /\ [Next]_vars => Charging'
  <2> SUFFICES ASSUME IInv, Charging, [Next]_vars PROVE Charging'
    OBVIOUS
  <2>1. CASE UNCHANGED vars
    BY <2>1, IdleCharging DEF vars, clientVars
  <2>2. CASE Tick
    BY <2>2, IdleCharging DEF Tick, clientVars
  <2>3. CASE \E r \in Requests : Arrive(r) \/ Incr(r) \/ Expire(r) \/ FallBack(r)
    BY <2>3, ArriveCharging, IncrCharging, ExpireCharging, FallBackCharging
  <2>4. CASE \E w \in Windows : Evict(w)
    BY <2>4, EvictCharging
  <2>5. QED BY <2>1, <2>2, <2>3, <2>4 DEF Next
<1>2. QED BY <1>1, Counted, InitCharging, PTL DEF Spec

\* No client within its limit is throttled, for any number of requests and
\* workers and however Redis fails: a 429 means that more than Limit requests
\* were charged to one window.
THEOREM ThrottlingIsEarned == Spec => []ThrottledOnlyAboveLimit
BY CountersAreBacked, PTL DEF Charging

-----------------------------------------------------------------------------
\* The price of failing open.  Whoever is let through while a window lasts
\* has either been counted by Redis, and within the limit, or is one of the
\* first Limit in the local counter of a worker; there are only so many of
\* these, and their number is known because a local counter of the current
\* window is never reset.

\* The places in the local counters that requests have been let through on.
Fallbacks ==
    {p \in Workers \X (1 .. Limit) :
        local[p[1]].start = window /\ p[2] <= local[p[1]].count}

Late == Cardinality(Fallbacks)

\* Keys are of windows that have been, so the next window starts with nothing.
NothingAhead ==
    /\ \A r \in Requests : asked[r] <= window
    /\ \A w \in Windows : w > window => count[w] = 0 /\ admitted[w] = 0

\* As CountedAt, of the current window, with Redis failing.
CountedOrLate ==
    /\ admitted[window] <= count[window] + Late
    /\ admitted[window] <= Limit + Late
    /\ \A r \in Requests : First(r, window) =>
        /\ count[window] > 0
        /\ admitted[window] + 1 <= count[window] + Late
        /\ admitted[window] + 1 <= Limit + Late
        /\ \A q \in Requests : First(q, window) => q = r

FailingOpen == NothingAhead /\ CountedOrLate

LEMMA FallbacksAreFew ==
    /\ IsFiniteSet(Fallbacks)
    /\ Late \in Nat
    /\ Cardinality(Workers) \in Nat
    /\ Late <= Limit * Cardinality(Workers)
<1> DEFINE all == Workers \X (1 .. Limit)
<1>1. IsFiniteSet(Workers) /\ Cardinality(Workers) \in Nat
  BY WorkersAssumption, FS_CardinalityType
<1>2. IsFiniteSet(1 .. Limit) /\ Cardinality(1 .. Limit) = Limit
  BY LimitAssumption, FS_Interval
<1>3. IsFiniteSet(all) /\ Cardinality(all) = Cardinality(Workers) * Limit
  BY <1>1, <1>2, FS_Product
<1>4. Fallbacks \subseteq all
  BY DEF Fallbacks
<1>5. IsFiniteSet(Fallbacks) /\ Late <= Cardinality(all)
  BY <1>3, <1>4, FS_Subset DEF Late
<1>6. Late \in Nat
  BY <1>5, FS_CardinalityType DEF Late
<1>7. Cardinality(Workers) * Limit = Limit * Cardinality(Workers)
  BY <1>1, LimitAssumption
<1>8. QED BY <1>1, <1>3, <1>5, <1>6, <1>7

LEMMA LateUnchanged == UNCHANGED <<window, local>> => Late' = Late
BY DEF Late, Fallbacks

\* A fallback that lets a request through takes a place nobody has taken.
LEMMA LateGrows ==
    ASSUME Typed, NEW k \in Workers, UNCHANGED window,
           local' = [local EXCEPT ![k] = [count |-> Entry(k) + 1, start |-> window]]
    PROVE  /\ Late' \in Nat
           /\ Late <= Late'
           /\ Within(Entry(k) + 1) => Late + 1 <= Late'
<1> DEFINE n == Entry(k) + 1
           p == <<k, n>>
<1>1. /\ local'[k] = [count |-> n, start |-> window]
      /\ \A j \in Workers : j # k => local'[j] = local[j]
      /\ window \in Windows /\ n \in Nat /\ n > 0
  BY DEF Typed, Entry
<1>2. Fallbacks \subseteq Fallbacks'
  <2> SUFFICES ASSUME NEW q \in Fallbacks PROVE q \in Fallbacks'
    OBVIOUS
  <2>1. /\ q \in Workers \X (1 .. Limit) /\ q[1] \in Workers /\ q[2] \in 1 .. Limit
        /\ local[q[1]].start = window /\ q[2] <= local[q[1]].count
    BY DEF Fallbacks
  <2>2. local'[q[1]].start = window' /\ q[2] <= local'[q[1]].count
    <3>1. CASE q[1] = k
      <4>1. n = local[k].count + 1 /\ local[k].count \in Nat
        BY <2>1, <3>1 DEF Entry, Typed
      <4>2. QED BY <1>1, <2>1, <3>1, <4>1, LimitAssumption
    <3>2. CASE q[1] # k
      BY <1>1, <2>1, <3>2
    <3>3. QED BY <3>1, <3>2
  <2>3. QED BY <2>1, <2>2 DEF Fallbacks
<1>3. /\ IsFiniteSet(Fallbacks) /\ IsFiniteSet(Fallbacks')
      /\ Late \in Nat /\ Late' \in Nat
  <2>1. IsFiniteSet(Fallbacks) /\ Late \in Nat
    BY FallbacksAreFew
  <2>2. IsFiniteSet(Fallbacks)' /\ (Late \in Nat)'
    BY FallbacksAreFew, PTL
  <2>3. QED BY <2>1, <2>2
<1>4. Late <= Late'
  BY <1>2, <1>3, FS_Subset DEF Late
<1>5. ASSUME Within(n) PROVE Late + 1 <= Late'
  <2>1. p \in Fallbacks'
    BY <1>1, <1>5, LimitAssumption DEF Fallbacks, Within
  <2>2. p \notin Fallbacks
    <3> SUFFICES ASSUME local[k].start = window, n <= local[k].count PROVE FALSE
      BY DEF Fallbacks
    <3>1. n = local[k].count + 1 /\ local[k].count \in Nat
      BY DEF Entry, Typed
    <3>2. QED BY <3>1
  <2>3. Fallbacks \cup {p} \subseteq Fallbacks'
    BY <1>2, <2>1
  <2>4. IsFiniteSet(Fallbacks \cup {p}) /\ Cardinality(Fallbacks \cup {p}) = Late + 1
    BY <1>3, <2>2, FS_AddElement DEF Late
  <2>5. QED BY <1>3, <2>3, <2>4, FS_Subset DEF Late
<1>6. QED BY <1>3, <1>4, <1>5

LEMMA InitFailingOpen == Init => FailingOpen
<1> SUFFICES ASSUME Init PROVE FailingOpen
  OBVIOUS
<1>1. 0 \in Windows /\ \A w \in Windows : w \in Nat
  BY MaxWindowAssumption DEF Windows
<1>2. admitted[window] = 0 /\ count[window] = 0
  BY <1>1 DEF Init
<1>3. CountedOrLate
  BY <1>2, FallbacksAreFew, LimitAssumption DEF CountedOrLate, First, Init
<1>4. NothingAhead
  BY <1>1 DEF NothingAhead, Init
<1>5. QED BY <1>3, <1>4 DEF FailingOpen

LEMMA ArriveFailingOpen ==
    ASSUME IInv, FailingOpen, NEW r \in Requests, Arrive(r)
    PROVE  FailingOpen'
<1>1. /\ UNCHANGED <<window, count, local, admitted>>
      /\ \A q \in Requests : asked'[q] \in {asked[q], window}
      /\ window \in Nat
  BY WindowsAreNumbers DEF Arrive, IInv, Typed
<1>2. Late' = Late
  BY <1>1, LateUnchanged
<1>3. \A q \in Requests, w \in Windows : First(q, w)' => First(q, w)
  BY DEF Arrive, First, IInv, Typed
<1>4. NothingAhead'
  BY <1>1 DEF FailingOpen, NothingAhead
<1>5. CountedOrLate'
  <2>1. \A q \in Requests : First(q, window)' => First(q, window)
    BY <1>1, <1>3 DEF First, IInv, Typed
  <2>2. QED BY <1>1, <1>2, <2>1 DEF FailingOpen, CountedOrLate
<1>6. QED BY <1>4, <1>5 DEF FailingOpen

LEMMA IncrFailingOpen ==
    ASSUME IInv, FailingOpen, NEW r \in Requests, Incr(r)
    PROVE  FailingOpen'
<1> USE LimitAssumption, WindowsAreNumbers, FallbacksAreFew
<1>0. PICK k \in Windows, v \in Windows : k = asked[r] /\ v = window
  BY DEF IInv, Typed
<1> DEFINE n == count[k] + 1
<1>1. /\ k <= v /\ k \in Nat /\ v \in Nat
      /\ n \in Nat /\ count[k] \in Nat /\ count[v] \in Nat /\ admitted[v] \in Nat
      /\ pc[r] = "incr"
      /\ Limit > 0
      /\ count' = [count EXCEPT ![k] = n]
      /\ UNCHANGED <<window, local, asked>>
  BY <1>0 DEF IInv, Typed, LimitIsOn, FailingOpen, NothingAhead, Incr, Key
<1>2. Late' = Late
  BY <1>1, LateUnchanged
<1>3. \/ /\ n = 1
         /\ pc' = [pc EXCEPT ![r] = "expire"]
         /\ admitted' = admitted
      \/ n # 1 /\ Answer(r, n, k)
  BY <1>0 DEF Incr, FirstOfWindow, Key
<1>4. \A w \in Windows : w # k => count'[w] = count[w] /\ admitted'[w] = admitted[w]
  BY <1>0, <1>1, <1>3, AnswerTypes DEF IInv, Typed
<1>5. NothingAhead'
  <2>1. ASSUME NEW w \in Windows, w > window' PROVE count'[w] = 0 /\ admitted'[w] = 0
    <3>1. w > window /\ w # k
      BY <1>0, <1>1, <2>1
    <3>2. QED BY <1>4, <3>1 DEF FailingOpen, NothingAhead
  <2>2. QED BY <1>1, <2>1 DEF FailingOpen, NothingAhead
<1>6. /\ admitted[v] <= count[v] + Late
      /\ admitted[v] <= Limit + Late
      /\ \A q \in Requests : First(q, v) =>
          /\ count[v] > 0
          /\ admitted[v] + 1 <= count[v] + Late
          /\ admitted[v] + 1 <= Limit + Late
          /\ \A p \in Requests : First(p, v) => p = q
  BY <1>0 DEF FailingOpen, CountedOrLate
<1>7. /\ admitted'[v] <= count'[v] + Late
      /\ admitted'[v] <= Limit + Late
      /\ \A q \in Requests : First(q, v)' =>
          /\ count'[v] > 0
          /\ admitted'[v] + 1 <= count'[v] + Late
          /\ admitted'[v] + 1 <= Limit + Late
          /\ \A p \in Requests : First(p, v)' => p = q
  <2>1. CASE n = 1 /\ k = v
    <3>1. count[v] = 0 /\ count'[v] = 1 /\ admitted'[v] = admitted[v]
      BY <1>1, <1>3, <2>1 DEF IInv, Typed
    <3>2. \A q \in Requests : ~First(q, v)
      BY <1>6, <3>1
    <3>3. \A q \in Requests : First(q, v)' => q = r
      BY <1>1, <1>3, <2>1, <3>2 DEF First, IInv, Typed
    <3>4. QED BY <1>1, <1>6, <3>1, <3>3
  <2>2. CASE k # v
    <3>1. \A q \in Requests : First(q, v)' => First(q, v)
      BY <1>0, <1>1, <1>3, <2>2, AnswerTypes DEF First, IInv, Typed
    <3>2. QED BY <1>4, <1>6, <2>2, <3>1
  <2>3. CASE n # 1 /\ k = v
    <3>1. \A q \in Requests : First(q, v)' => First(q, v)
      BY <1>0, <1>1, <1>3, <2>3, AnswerTypes DEF First, IInv, Typed
    <3>2. count'[v] = count[v] + 1
      BY <1>1, <2>3 DEF IInv, Typed
    <3>3. \/ count[v] + 1 <= Limit /\ admitted'[v] = admitted[v] + 1
          \/ admitted'[v] = admitted[v]
      BY <1>1, <1>3, <2>3, AnswerTypes DEF IInv, Within
    <3>4. /\ admitted'[v] <= count'[v] + Late
          /\ admitted'[v] <= Limit + Late
      BY <1>1, <1>6, <3>2, <3>3
    <3>5. ASSUME NEW q \in Requests, First(q, v)'
          PROVE  /\ count'[v] > 0
                 /\ admitted'[v] + 1 <= count'[v] + Late
                 /\ admitted'[v] + 1 <= Limit + Late
                 /\ \A p \in Requests : First(p, v)' => p = q
      <4>1. First(q, v)
        BY <3>1, <3>5
      <4>2. /\ admitted[v] + 1 <= count[v] + Late
            /\ admitted[v] + 1 <= Limit + Late
        BY <1>6, <4>1
      <4>3. \A p \in Requests : First(p, v)' => p = q
        BY <1>6, <3>1, <4>1
      <4>4. /\ count'[v] > 0
            /\ admitted'[v] + 1 <= count'[v] + Late
            /\ admitted'[v] + 1 <= Limit + Late
        BY <1>1, <3>2, <3>3, <4>2
      <4>5. QED BY <4>3, <4>4
    <3>6. QED BY <3>4, <3>5
  <2>4. QED BY <2>1, <2>2, <2>3
<1>8. CountedOrLate'
  BY <1>0, <1>1, <1>2, <1>7 DEF CountedOrLate, First
<1>9. QED BY <1>5, <1>8 DEF FailingOpen

LEMMA ExpireFailingOpen ==
    ASSUME IInv, FailingOpen, NEW r \in Requests, Expire(r)
    PROVE  FailingOpen'
<1> USE LimitAssumption, WindowsAreNumbers, FallbacksAreFew
<1>0. PICK k \in Windows, v \in Windows : k = asked[r] /\ v = window
  BY DEF IInv, Typed
<1>1. /\ k <= v /\ k \in Nat /\ v \in Nat
      /\ count[v] \in Nat /\ admitted[v] \in Nat
      /\ First(r, k)
      /\ Answer(r, 1, k)
      /\ UNCHANGED <<window, count, local, asked>>
  BY <1>0 DEF IInv, Typed, FailingOpen, NothingAhead, Expire, First
<1>2. Late' = Late
  BY <1>1, LateUnchanged
<1>3. \A w \in Windows : w # k => admitted'[w] = admitted[w]
  BY <1>1, AnswerTypes DEF IInv
<1>4. \A q \in Requests : First(q, v)' => First(q, v) /\ q # r
  BY <1>1, AnswerTypes DEF First, IInv
<1>5. NothingAhead'
  <2>1. ASSUME NEW w \in Windows, w > window' PROVE count'[w] = 0 /\ admitted'[w] = 0
    <3>1. w > window /\ w # k
      BY <1>0, <1>1, <2>1
    <3>2. QED BY <1>1, <1>3, <3>1 DEF FailingOpen, NothingAhead
  <2>2. QED BY <1>1, <2>1 DEF FailingOpen, NothingAhead
<1>6. /\ admitted[v] <= count[v] + Late
      /\ admitted[v] <= Limit + Late
      /\ \A q \in Requests : First(q, v) =>
          /\ count[v] > 0
          /\ admitted[v] + 1 <= count[v] + Late
          /\ admitted[v] + 1 <= Limit + Late
          /\ \A p \in Requests : First(p, v) => p = q
  BY <1>0 DEF FailingOpen, CountedOrLate
<1>7. CASE k # v
  <2>1. admitted'[v] = admitted[v]
    BY <1>3, <1>7
  <2>2. \A q \in Requests : First(q, v)' =>
          /\ count[v] > 0
          /\ admitted[v] + 1 <= count[v] + Late
          /\ admitted[v] + 1 <= Limit + Late
          /\ \A p \in Requests : First(p, v)' => p = q
    BY <1>4, <1>6
  <2>3. CountedOrLate'
    BY <1>0, <1>1, <1>2, <1>6, <2>1, <2>2 DEF CountedOrLate, First
  <2>4. QED BY <1>5, <2>3 DEF FailingOpen
<1>8. CASE k = v
  <2>1. \A q \in Requests : ~First(q, v)'
    BY <1>1, <1>4, <1>6, <1>8
  <2>2. admitted'[v] \in {admitted[v], admitted[v] + 1}
    BY <1>1, <1>8, AnswerTypes DEF IInv
  <2>3. /\ admitted[v] + 1 <= count[v] + Late
        /\ admitted[v] + 1 <= Limit + Late
    BY <1>1, <1>6, <1>8
  <2>4. CountedOrLate'
    BY <1>0, <1>1, <1>2, <2>1, <2>2, <2>3 DEF CountedOrLate, First
  <2>5. QED BY <1>5, <2>4 DEF FailingOpen
<1>9. QED BY <1>7, <1>8

LEMMA FallBackFailingOpen ==
    ASSUME IInv, FailingOpen, NEW r \in Requests, FallBack(r)
    PROVE  FailingOpen'
<1> USE LimitAssumption, WindowsAreNumbers, FallbacksAreFew
<1>0. PICK v \in Windows : v = window
  BY DEF IInv, Typed
<1>1. PICK k \in Workers :
        /\ local' = [local EXCEPT ![k] = [count |-> Entry(k) + 1, start |-> window]]
        /\ Answer(r, Entry(k) + 1, v)
  BY <1>0 DEF FallBack
<1>2. /\ Entry(k) + 1 \in Nat
      /\ UNCHANGED <<window, asked>>
      /\ v \in Nat /\ admitted[v] \in Nat /\ count[v] \in Nat /\ asked[r] <= v
  BY <1>0 DEF IInv, Typed, Entry, FallBack, FailingOpen, NothingAhead
<1>3. \A w \in Windows : \/ count'[w] = count[w]
                         \/ w = asked[r] /\ count'[w] = count[w] + 1
  BY DEF FallBack, Key, IInv, Typed
<1>4. /\ Late \in Nat /\ Late' \in Nat
      /\ Late <= Late'
      /\ Within(Entry(k) + 1) => Late + 1 <= Late'
  BY <1>1, <1>2, LateGrows DEF IInv
<1>5. /\ \A w \in Windows : w # v => admitted'[w] = admitted[w]
      /\ \/ Within(Entry(k) + 1) /\ admitted'[v] = admitted[v] + 1
         \/ admitted'[v] = admitted[v]
      /\ pc'[r] \in {"served", "throttled"}
      /\ \A q \in Requests : q # r => pc'[q] = pc[q]
  BY <1>1, <1>2, AnswerTypes DEF IInv
<1>6. NothingAhead'
  <2>1. ASSUME NEW w \in Windows, w > window' PROVE count'[w] = 0 /\ admitted'[w] = 0
    <3>1. w > window /\ w # v /\ w # asked[r]
      BY <1>0, <1>2, <2>1
    <3>2. count[w] = 0 /\ admitted[w] = 0
      BY <3>1 DEF FailingOpen, NothingAhead
    <3>3. QED BY <1>3, <1>5, <3>1, <3>2
  <2>2. QED BY <1>2, <2>1 DEF FailingOpen, NothingAhead
<1>7. /\ admitted[v] <= count[v] + Late
      /\ admitted[v] <= Limit + Late
      /\ \A q \in Requests : First(q, v) =>
          /\ count[v] > 0
          /\ admitted[v] + 1 <= count[v] + Late
          /\ admitted[v] + 1 <= Limit + Late
          /\ \A p \in Requests : First(p, v) => p = q
  BY <1>0 DEF FailingOpen, CountedOrLate
<1>8. \A q \in Requests : First(q, v)' => First(q, v)
  BY <1>2, <1>5 DEF First, IInv, Typed
<1>9. count'[v] \in Nat /\ count[v] <= count'[v] /\ admitted'[v] \in Nat
  BY <1>2, <1>3, <1>5
<1>10. admitted'[v] <= admitted[v] + (Late' - Late)
  BY <1>2, <1>4, <1>5, <1>9
<1>11. ASSUME NEW q \in Requests, First(q, v)'
       PROVE  /\ count'[v] > 0
              /\ admitted'[v] + 1 <= count'[v] + Late'
              /\ admitted'[v] + 1 <= Limit + Late'
              /\ \A p \in Requests : First(p, v)' => p = q
  <2>1. /\ count[v] > 0
        /\ admitted[v] + 1 <= count[v] + Late
        /\ admitted[v] + 1 <= Limit + Late
        /\ \A p \in Requests : First(p, v) => p = q
    BY <1>7, <1>8, <1>11
  <2>2. \A p \in Requests : First(p, v)' => p = q
    BY <1>8, <2>1
  <2>3. QED BY <1>2, <1>4, <1>9, <1>10, <2>1, <2>2
<1>12. admitted'[v] <= count'[v] + Late' /\ admitted'[v] <= Limit + Late'
  BY <1>2, <1>4, <1>7, <1>9, <1>10
<1>13. CountedOrLate'
  BY <1>0, <1>2, <1>11, <1>12 DEF CountedOrLate, First
<1>14. QED BY <1>6, <1>13 DEF FailingOpen

\* The next window starts with nothing counted, nobody let through and no
\* request between INCR and EXPIRE.
LEMMA TickFailingOpen ==
    ASSUME IInv, FailingOpen, Tick
    PROVE  FailingOpen'
<1> USE LimitAssumption, WindowsAreNumbers
<1>1. /\ window' = window + 1
      /\ window \in Nat /\ window' \in Windows
      /\ UNCHANGED <<count, pc, asked, admitted>>
  BY MaxWindowAssumption DEF Tick, IInv, Typed, Windows, clientVars
<1>2. NothingAhead'
  <2>1. \A w \in Windows : w > window' => w > window
    BY <1>1
  <2>2. \A r \in Requests : asked[r] <= window /\ asked[r] \in Nat
    BY DEF FailingOpen, NothingAhead, IInv, Typed
  <2>3. \A r \in Requests : asked'[r] <= window'
    BY <1>1, <2>2
  <2>4. QED BY <1>1, <2>1, <2>3 DEF FailingOpen, NothingAhead
<1>3. (Late \in Nat)'
  BY FallbacksAreFew, PTL
<1>4. count'[window'] = 0 /\ admitted'[window'] = 0
  BY <1>1 DEF FailingOpen, NothingAhead
<1>5. \A q \in Requests : asked'[q] # window'
  BY <1>1 DEF FailingOpen, NothingAhead, IInv, Typed
<1>6. CountedOrLate'
  <2>1. (\A q \in Requests : ~First(q, window))'
    BY <1>5 DEF First
  <2>2. admitted'[window'] <= count'[window'] + Late' /\ admitted'[window'] <= Limit + Late'
    <3>1. Late' \in Nat
      BY <1>3
    <3>2. \A n \in Nat : 0 <= 0 + n /\ 0 <= Limit + n
      OBVIOUS
    <3>3. QED BY <1>4, <3>1, <3>2
  <2>3. QED BY <2>1, <2>2 DEF CountedOrLate, First
<1>7. QED BY <1>2, <1>6 DEF FailingOpen

LEMMA EvictFailingOpen ==
    ASSUME IInv, FailingOpen, NEW w \in Windows, Evict(w)
    PROVE  FailingOpen'
<1>1. /\ UNCHANGED <<window, local, pc, asked, admitted>>
      /\ w < window
      /\ count' = [count EXCEPT ![w] = 0]
      /\ window \in Windows
  BY DEF Evict, clientVars, IInv, Typed
<1>2. Late' = Late
  BY <1>1, LateUnchanged
<1>3. \A v \in Windows : v >= window => count'[v] = count[v]
  BY <1>1, WindowsAreNumbers DEF IInv, Typed
<1>4. count'[window] = count[window]
  BY <1>1, <1>3, WindowsAreNumbers
<1>5. NothingAhead'
  BY <1>1, <1>3, WindowsAreNumbers DEF FailingOpen, NothingAhead
<1>6. CountedOrLate'
  BY <1>1, <1>2, <1>4 DEF FailingOpen, CountedOrLate, First
<1>7. QED BY <1>5, <1>6 DEF FailingOpen

\* The inductive invariant of a window in which Redis comes and goes.
THEOREM CountedByRedisOrLate == Spec => []FailingOpen
<1>1. IInv /\ FailingOpen /\ [Next]_vars => FailingOpen'
  <2> SUFFICES ASSUME IInv, FailingOpen, [Next]_vars PROVE FailingOpen'
    OBVIOUS
  <2>1. CASE UNCHANGED vars
    <3>1. UNCHANGED <<window, local, count, pc, asked, admitted>>
      BY <2>1 DEF vars, clientVars
    <3>2. Late' = Late
      BY <3>1, LateUnchanged
    <3>3. QED BY <3>1, <3>2 DEF FailingOpen, NothingAhead, CountedOrLate, First
  <2>2. CASE Next
    BY <2>2, ArriveFailingOpen, IncrFailingOpen, ExpireFailingOpen,
       FallBackFailingOpen, TickFailingOpen, EvictFailingOpen DEF Next
  <2>3. QED BY <2>1, <2>2
<1>2. QED BY <1>1, Counted, InitFailingOpen, PTL DEF Spec

\* What failing open can cost, for any number of workers and requests and
\* however Redis comes and goes: Limit requests let through by Redis and
\* Limit by each worker, as long as a window lasts.
THEOREM FailingOpenHasAPrice == Spec => []FailOpenIsBounded
<1>1. IInv /\ FailingOpen => FailOpenIsBounded
  <2> SUFFICES ASSUME IInv, FailingOpen PROVE FailOpenIsBounded
    OBVIOUS
  <2> DEFINE c == Cardinality(Workers)
  <2>1. /\ admitted[window] \in Nat
        /\ admitted[window] <= Limit + Late
    BY DEF IInv, Typed, FailingOpen, CountedOrLate
  <2>2. c \in Nat /\ Late \in Nat /\ Late <= Limit * c
    BY FallbacksAreFew
  <2>3. Limit * (1 + c) = Limit + Limit * c /\ Limit * c \in Nat
    BY <2>2, LimitAssumption
  <2>4. admitted[window] <= Limit * (1 + c)
    <3> HIDE DEF c
    <3>1. Limit + Late <= Limit * (1 + c)
      BY <2>2, <2>3, LimitAssumption
    <3>2. QED BY <2>1, <2>2, <2>3, <3>1, LimitAssumption
  <2>5. QED BY <2>4 DEF FailOpenIsBounded
<1>2. QED BY <1>1, Counted, CountedByRedisOrLate, PTL

-----------------------------------------------------------------------------
\* Types: Redis is told to expire counters it has, and only by the one request
\* that is between its INCR and its EXPIRE.  The bounds TypeOK puts on numbers
\* are those of a finite set of requests.

\* The counter a first request is about to have expired is there, is not to
\* expire yet, and is no other request's to expire.
Expiring ==
    /\ expires \subseteq {w \in Windows : count[w] > 0}
    /\ \A w \in Windows, r \in Requests : First(r, w) =>
        /\ count[w] > 0
        /\ w \notin expires
        /\ \A q \in Requests : First(q, w) => q = r

LEMMA InitExpiring == Init => Expiring
BY DEF Init, Expiring, First

LEMMA ExpiringInv ==
    ASSUME IInv, Expiring, [Next]_vars
    PROVE  Expiring'
<1> USE LimitAssumption, WindowsAreNumbers
<1>1. ASSUME NEW r \in Requests, Arrive(r) PROVE Expiring'
  <2>1. \A q \in Requests, w \in Windows : First(q, w)' => First(q, w)
    BY <1>1 DEF Arrive, First, IInv, Typed
  <2>2. QED BY <1>1, <2>1 DEF Expiring, Arrive
<1>2. ASSUME NEW r \in Requests, Incr(r) PROVE Expiring'
  <2>0. PICK k \in Windows : k = asked[r]
    BY DEF IInv, Typed
  <2>1. /\ count[k] \in Nat
        /\ count' = [count EXCEPT ![k] = count[k] + 1]
        /\ UNCHANGED <<expires, asked>>
        /\ pc[r] = "incr"
        /\ \/ count[k] = 0 /\ pc' = [pc EXCEPT ![r] = "expire"]
           \/ Answer(r, count[k] + 1, k)
    BY <1>2, <2>0 DEF Incr, Key, FirstOfWindow, IInv, Typed
  <2>2. \A w \in Windows : count[w] > 0 => count'[w] > 0
    BY <2>1 DEF IInv, Typed
  <2>3. ASSUME NEW w \in Windows, NEW q \in Requests, First(q, w)'
        PROVE  \/ First(q, w)
               \/ q = r /\ w = k /\ count[k] = 0 /\ count'[k] = 1
    <3>1. CASE count[k] = 0 /\ pc' = [pc EXCEPT ![r] = "expire"]
      BY <2>0, <2>1, <2>3, <3>1 DEF First, IInv, Typed
    <3>2. CASE Answer(r, count[k] + 1, k)
      BY <2>1, <2>3, <3>2, AnswerTypes DEF First, IInv
    <3>3. QED BY <2>1, <3>1, <3>2
  <2>4. ASSUME NEW w \in Windows, NEW q \in Requests, First(q, w)'
        PROVE  count'[w] > 0 /\ w \notin expires /\ \A p \in Requests : First(p, w)' => p = q
    <3>1. CASE First(q, w)
      <4>1. count[w] > 0 /\ w \notin expires /\ \A p \in Requests : First(p, w) => p = q
        BY <3>1 DEF Expiring
      <4>2. QED BY <2>2, <2>3, <4>1
    <3>2. CASE q = r /\ w = k /\ count[k] = 0 /\ count'[k] = 1
      <4>1. w \notin expires /\ \A p \in Requests : ~First(p, w)
        BY <3>2 DEF Expiring
      <4>2. QED BY <2>3, <3>2, <4>1
    <3>3. QED BY <2>3, <2>4, <3>1, <3>2
  <2>5. QED BY <2>1, <2>2, <2>4 DEF Expiring
<1>3. ASSUME NEW r \in Requests, NEW k \in Windows, First(r, k),
             expires' \in {expires, expires \cup {k}},
             pc'[r] \in {"served", "throttled"},
             \A q \in Requests : q # r => pc'[q] = pc[q],
             UNCHANGED <<count, asked>>
      PROVE  Expiring'
  <2>1. \A q \in Requests, w \in Windows : First(q, w)' => First(q, w) /\ w # k
    BY <1>3 DEF First, Expiring
  <2>2. count[k] > 0
    BY <1>3 DEF Expiring
  <2>3. QED BY <1>3, <2>1, <2>2 DEF Expiring
<1>4. ASSUME NEW r \in Requests, Expire(r) PROVE Expiring'
  <2>1. PICK k \in Windows : k = asked[r]
    BY DEF IInv, Typed
  <2>2. /\ First(r, k) /\ Answer(r, 1, k)
        /\ expires' = expires \cup {k}
        /\ UNCHANGED <<count, asked>>
    BY <1>4, <2>1 DEF Expire, First, Key
  <2>3. pc'[r] \in {"served", "throttled"} /\ \A q \in Requests : q # r => pc'[q] = pc[q]
    BY <2>2, AnswerTypes DEF IInv
  <2>4. QED BY <1>3, <2>2, <2>3
<1>5. ASSUME NEW r \in Requests, FallBack(r) PROVE Expiring'
  <2>1. PICK k \in Windows, v \in Windows : k = asked[r] /\ v = window
    BY DEF IInv, Typed
  <2>2. PICK j \in Workers : Answer(r, Entry(j) + 1, v)
    BY <1>5, <2>1 DEF FallBack
  <2>3. Entry(j) + 1 \in Nat
    BY DEF IInv, Typed, Entry
  <2>4. /\ pc'[r] \in {"served", "throttled"}
        /\ \A q \in Requests : q # r => pc'[q] = pc[q]
        /\ UNCHANGED asked
    BY <1>5, <2>2, <2>3, AnswerTypes DEF IInv, FallBack
  <2>5. CASE pc[r] = "expire"
    <3>1. expires' \in {expires, expires \cup {k}} /\ UNCHANGED count
      BY <1>5, <2>1, <2>5 DEF FallBack, Key
    <3>2. First(r, k)
      BY <2>1, <2>5 DEF First
    <3>3. QED BY <1>3, <2>4, <3>1, <3>2
  <2>6. CASE pc[r] = "incr"
    <3>1. UNCHANGED expires /\ \A w \in Windows : count[w] > 0 => count'[w] > 0
      BY <1>5, <2>6 DEF FallBack, Key, IInv, Typed
    <3>2. \A q \in Requests, w \in Windows : First(q, w)' => First(q, w)
      BY <2>4 DEF First
    <3>3. QED BY <3>1, <3>2 DEF Expiring
  <2>7. QED BY <1>5, <2>5, <2>6 DEF FallBack
<1>6. ASSUME Tick \/ UNCHANGED vars PROVE Expiring'
  BY <1>6 DEF Tick, vars, clientVars, Expiring, First
<1>7. ASSUME NEW v \in Windows, Evict(v) PROVE Expiring'
  <2>1. /\ v \in expires /\ expires' = expires \ {v}
        /\ UNCHANGED <<pc, asked>>
        /\ \A w \in Windows : w # v => count'[w] = count[w]
    BY <1>7 DEF Evict, clientVars, IInv, Typed
  <2>2. \A q \in Requests, w \in Windows : First(q, w)' => First(q, w) /\ w # v
    BY <2>1 DEF First, Expiring
  <2>3. QED BY <2>1, <2>2 DEF Expiring
<1>8. QED BY <1>1, <1>2, <1>4, <1>5, <1>6, <1>7 DEF Next

\* Nobody is let through twice.
Served == {q \in Requests : pc[q] = "served"}

ServedOnce == \A w \in Windows : admitted[w] <= Cardinality(Served)

LEMMA ServedOnceInv ==
    ASSUME IsFiniteSet(Requests), IInv, ServedOnce, [Next]_vars
    PROVE  ServedOnce'
<1>1. /\ IsFiniteSet(Served) /\ IsFiniteSet(Served')
      /\ Cardinality(Served) \in Nat /\ Cardinality(Served') \in Nat
  BY FS_Subset, FS_CardinalityType DEF Served
<1>2. ASSUME UNCHANGED admitted, \A q \in Requests : pc[q] = "served" => pc'[q] = "served"
      PROVE  ServedOnce'
  <2>1. Served \subseteq Served'
    BY <1>2 DEF Served
  <2>2. Cardinality(Served) <= Cardinality(Served')
    BY <1>1, <2>1, FS_Subset
  <2>3. QED BY <1>1, <1>2, <2>2 DEF ServedOnce, IInv, Typed
<1>3. ASSUME NEW r \in Requests, pc[r] # "served",
             NEW n \in Nat, NEW w \in Windows, Answer(r, n, w)
      PROVE  ServedOnce'
  <2>1. CASE Within(n)
    <3>1. /\ pc' = [pc EXCEPT ![r] = "served"]
          /\ admitted' = [admitted EXCEPT ![w] = @ + 1]
      BY <1>3, <2>1 DEF Answer
    <3>2. Served' = Served \cup {r} /\ r \notin Served
      BY <1>3, <3>1 DEF Served, IInv, Typed
    <3>3. Cardinality(Served') = Cardinality(Served) + 1
      BY <1>1, <3>2, FS_AddElement
    <3>4. \A v \in Windows : admitted'[v] <= admitted[v] + 1 /\ admitted[v] \in Nat
                             /\ admitted'[v] \in Nat
      BY <3>1 DEF IInv, Typed
    <3>5. QED BY <1>1, <3>3, <3>4 DEF ServedOnce
  <2>2. CASE ~Within(n)
    <3>1. UNCHANGED admitted /\ \A q \in Requests : pc[q] = "served" => pc'[q] = "served"
      BY <1>3, <2>2 DEF Answer, IInv, Typed
    <3>2. QED BY <1>2, <3>1
  <2>3. QED BY <2>1, <2>2
<1>4. ASSUME NEW r \in Requests, Arrive(r) PROVE ServedOnce'
  BY <1>2, <1>4 DEF Arrive, IInv, Typed
<1>5. ASSUME NEW r \in Requests, Incr(r) PROVE ServedOnce'
  <2>1. count[asked[r]] + 1 \in Nat /\ asked[r] \in Windows /\ pc[r] # "served"
    BY <1>5 DEF Incr, IInv, Typed
  <2>2. CASE FirstOfWindow(count[asked[r]] + 1)
    BY <1>2, <1>5, <2>1, <2>2 DEF Incr, Key, IInv, Typed
  <2>3. CASE ~FirstOfWindow(count[asked[r]] + 1)
    BY <1>3, <1>5, <2>1, <2>3 DEF Incr, Key
  <2>4. QED BY <2>2, <2>3
<1>6. ASSUME NEW r \in Requests, Expire(r) PROVE ServedOnce'
  <2>1. asked[r] \in Windows /\ pc[r] # "served" /\ Answer(r, 1, asked[r])
    BY <1>6 DEF Expire, IInv, Typed
  <2>2. QED BY <1>3, <2>1
<1>7. ASSUME NEW r \in Requests, FallBack(r) PROVE ServedOnce'
  <2>1. PICK k \in Workers : Answer(r, Entry(k) + 1, window)
    BY <1>7 DEF FallBack
  <2>2. Entry(k) + 1 \in Nat /\ window \in Windows /\ pc[r] # "served"
    BY <1>7 DEF FallBack, IInv, Typed, Entry
  <2>3. QED BY <1>3, <2>1, <2>2
<1>8. ASSUME Tick \/ UNCHANGED vars \/ \E w \in Windows : Evict(w) PROVE ServedOnce'
  <2>1. UNCHANGED <<admitted, pc>>
    BY <1>8 DEF Tick, Evict, vars, clientVars
  <2>2. QED BY <1>2, <2>1
<1>9. QED BY <1>4, <1>5, <1>6, <1>7, <1>8 DEF Next

\* The types of the state: Redis is only told to expire counters it has.
THEOREM TypeCorrect ==
    ASSUME IsFiniteSet(Requests)
    PROVE  Spec => []TypeOK
<1>1. Init => ServedOnce
  BY FS_EmptySet, FS_Subset, FS_CardinalityType DEF Init, ServedOnce, Served
<1>2. IInv /\ Expiring /\ [Next]_vars => Expiring'
  BY ExpiringInv
<1>3. IInv /\ ServedOnce /\ [Next]_vars => ServedOnce'
  BY ServedOnceInv
<1>4. IInv /\ Charging /\ Expiring /\ ServedOnce => TypeOK
  <2> SUFFICES ASSUME IInv, Charging, Expiring, ServedOnce PROVE TypeOK
    OBVIOUS
  <2> DEFINE N == Cardinality(Requests)
  <2>1. ASSUME NEW S \in SUBSET Requests
        PROVE  Cardinality(S) \in Nat /\ N \in Nat /\ Cardinality(S) <= N
    BY FS_Subset, FS_CardinalityType
  <2>2. \A w \in Windows : count[w] \in 0 .. N
    <3> SUFFICES ASSUME NEW w \in Windows PROVE count[w] \in 0 .. N
      OBVIOUS
    <3>1. count[w] \in Nat /\ count[w] <= Cardinality(ChargedTo(w))
      BY DEF IInv, Typed, Charging, CountersHaveRequests
    <3>2. ChargedTo(w) \in SUBSET Requests
      BY DEF ChargedTo
    <3>3. QED BY <2>1, <3>1, <3>2
  <2>3. \A k \in Workers : local[k].count \in 0 .. N /\ local[k].start \in Windows
    <3> SUFFICES ASSUME NEW k \in Workers
                 PROVE  local[k].count \in 0 .. N /\ local[k].start \in Windows
      OBVIOUS
    <3>1. PICK w \in Windows : local[k].start = w
      BY DEF IInv, Typed
    <3>2. local[k].count \in Nat /\ local[k].count <= Cardinality(AnsweredFor(w))
      BY <3>1 DEF IInv, Typed, Charging, CountersHaveRequests
    <3>3. AnsweredFor(w) \in SUBSET Requests
      BY DEF AnsweredFor
    <3>4. QED BY <2>1, <3>1, <3>2, <3>3
  <2>4. \A w \in Windows : admitted[w] \in 0 .. N
    <3> SUFFICES ASSUME NEW w \in Windows PROVE admitted[w] \in 0 .. N
      OBVIOUS
    <3>1. admitted[w] \in Nat /\ admitted[w] <= Cardinality(Served)
      BY DEF IInv, Typed, ServedOnce
    <3>2. Served \in SUBSET Requests
      BY DEF Served
    <3>3. QED BY <2>1, <3>1, <3>2
  <2>5. count \in [Windows -> 0 .. N] /\ admitted \in [Windows -> 0 .. N]
    BY <2>2, <2>4 DEF IInv, Typed
  <2>6. local \in [Workers -> [count : 0 .. N, start : Windows]]
    BY <2>3 DEF IInv, Typed
  <2>7. QED BY <2>5, <2>6 DEF IInv, Typed, Charging, Expiring, TypeOK
<1>5. Spec => []Expiring
  BY <1>2, InitExpiring, Counted, PTL DEF Spec
<1>6. Spec => []ServedOnce
  BY <1>1, <1>3, Counted, PTL DEF Spec
<1>7. QED BY <1>4, <1>5, <1>6, Counted, CountersAreBacked, PTL
=============================================================================
