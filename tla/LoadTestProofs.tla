--------------------------- MODULE LoadTestProofs ---------------------------
(***************************************************************************)
(* What the numbers of a sweep mean, for any ladder of levels, share of    *)
(* writes, pool and failures.  Within a level no search is answered from   *)
(* the cache that the level has made itself: the counter is shared, and no *)
(* worker counts far enough to reach the next worker's nonces; what a      *)
(* request under way may find in the cache depends on who else carries its *)
(* nonce.  And a summary counts every request once, and averages over the  *)
(* searches of its level, which is inductive only together with the        *)
(* requests that are under way.                                            *)
(***************************************************************************)
EXTENDS LoadTest, FiniteSetTheorems, TLAPS

\* The types the argument needs.
Typed ==
    /\ n \in 0 .. MaxRequests
    /\ call \in [Slots -> Calls \cup {NoCall}]

\* The nonces of a level that has counted to k.
NoncesBelow(k) == {w * Stride + i : w \in Workers, i \in 0 .. k - 1}

\* What a level sends are nonces it has counted, and all of them count as
\* those of an earlier level before the next one begins.
SentCounted ==
    /\ sent \subseteq NoncesBelow(n)
    /\ phase \in {"seed", "start", "summary", "done"} => sent \subseteq seen

\* A search is under way or cached only if it has been sent.
NothingUnsent ==
    /\ \A s \in Slots : call[s] # NoCall => call[s].nonce \in sent \cup seen
    /\ cached \subseteq sent \cup seen

\* A search a worker waits for is cached, or asked for by another request,
\* only if an earlier level sent it as well.
WorkersAlone ==
    \A w \in Workers : call[Slot(w)] # NoCall =>
        /\ call[Slot(w)].nonce \in cached => call[Slot(w)].nonce \in seen
        /\ \A s \in Slots : /\ s # Slot(w)
                            /\ call[s] # NoCall
                            /\ call[s].nonce = call[Slot(w)].nonce
                            => call[s].nonce \in seen

IInv == Typed /\ SentCounted /\ NothingUnsent /\ WorkersAlone /\ HitsRepeatEarlierLevels

-----------------------------------------------------------------------------
\* Two workers' nonces meet only if the counter was the same.
LEMMA NoncesApart ==
    ASSUME NEW S \in Nat, NEW v \in Nat, NEW w \in Nat,
           NEW i \in Nat, NEW j \in Nat, i < S, j < S,
           v * S + i = w * S + j
    PROVE  i = j
<1>1. ASSUME NEW x \in Nat, NEW y \in Nat, x < y
      PROVE  y * S >= x * S + S
  <2>1. PICK d \in Nat : y = x + 1 + d
    <3>1. y - x - 1 \in Nat /\ y = x + 1 + (y - x - 1)
      BY <1>1
    <3>2. QED BY <3>1
  <2>2. d * S \in Nat
    OBVIOUS
  <2>3. y * S = x * S + S + d * S
    BY <2>1
  <2>4. x * S \in Nat
    OBVIOUS
  <2>5. QED BY <2>2, <2>3, <2>4
<1>2. v * S \in Nat /\ w * S \in Nat
  OBVIOUS
<1>3. CASE v < w
  BY <1>1, <1>2, <1>3
<1>4. CASE w < v
  BY <1>1, <1>2, <1>4
<1>5. CASE v = w
  BY <1>2, <1>5
<1>6. QED BY <1>3, <1>4, <1>5

LEMMA WorkersAreNumbers == Workers \subseteq Nat
<1> SUFFICES ASSUME NEW l \in Levels PROVE Concurrency(l) \subseteq Nat
  BY DEF Workers
<1>1. Sweep[l] \in Nat
  BY SweepAssumption DEF Levels
<1>2. QED BY <1>1 DEF Concurrency

LEMMA SlotsOfWorkers == \A w \in Workers : Slot(w) \in Slots
BY DEF Slot, Slots

LEMMA InitInv == Init => IInv
<1> SUFFICES ASSUME Init PROVE IInv
  OBVIOUS
<1> USE DEF Init
<1>1. Typed
  BY BoundsAssumption DEF Typed
<1>2. SentCounted
  BY DEF SentCounted
<1>3. NothingUnsent
  BY DEF NothingUnsent
<1>4. WorkersAlone
  BY SlotsOfWorkers DEF WorkersAlone
<1>5. HitsRepeatEarlierLevels
  BY DEF HitsRepeatEarlierLevels
<1>6. QED BY <1>1, <1>2, <1>3, <1>4, <1>5 DEF IInv

\* The driver's steps that touch no request.
Quiet ==
    \/ Seed \/ SeedFails \/ Deadline \/ Gather \/ NextLevel
    \/ \E answers \in BOOLEAN : ReadBefore(answers)
    \/ \E w \in Workers : Leave(w)

LEMMA QuietInv == IInv /\ Quiet => IInv'
<1> SUFFICES ASSUME IInv, Quiet PROVE IInv'
  OBVIOUS
<1>1. /\ UNCHANGED <<n, call, cached, sent, seen, hits>>
      /\ phase' \in {"seed", "start", "summary", "done"} =>
            phase \in {"seed", "start", "summary", "done"}
  BY DEF Quiet, Seed, SeedFails, Deadline, Gather, NextLevel, ReadBefore, Leave,
         apiVars, historyVars
<1>2. QED BY <1>1 DEF IInv, Typed, SentCounted, NothingUnsent, WorkersAlone,
                      HitsRepeatEarlierLevels

\* A level begins with nothing sent and nothing counted.
LEMMA StartLevelInv == IInv /\ StartLevel => IInv'
<1> SUFFICES ASSUME IInv, StartLevel PROVE IInv'
  OBVIOUS
<1>1. /\ UNCHANGED <<call, cached, seen>>
      /\ n' = 0 /\ sent' = {} /\ hits' = {} /\ phase' = "before" /\ phase = "start"
  BY DEF StartLevel, apiVars
<1>2. Typed'
  BY <1>1, BoundsAssumption DEF IInv, Typed
<1>3. SentCounted'
  BY <1>1 DEF SentCounted
<1>4. NothingUnsent'
  BY <1>1 DEF IInv, NothingUnsent, SentCounted
<1>5. WorkersAlone'
  BY <1>1 DEF IInv, WorkersAlone
<1>6. HitsRepeatEarlierLevels'
  BY <1>1 DEF HitsRepeatEarlierLevels
<1>7. QED BY <1>2, <1>3, <1>4, <1>5, <1>6 DEF IInv

\* A level ends: more nonces have been sent before.
LEMMA ReadAfterInv ==
    ASSUME IInv, NEW answers \in BOOLEAN, ReadAfter(answers)
    PROVE  IInv'
<1>1. /\ UNCHANGED <<n, call, cached, sent, hits>>
      /\ seen' = seen \cup sent
  BY DEF ReadAfter, apiVars
<1>2. QED BY <1>1 DEF IInv, Typed, SentCounted, NothingUnsent, WorkersAlone,
                      HitsRepeatEarlierLevels

\* A worker sends a nonce that this level has not sent yet.
LEMMA SendInv ==
    ASSUME IInv, NEW w \in Workers, Send(w)
    PROVE  IInv'
<1> DEFINE c == Nonce(w)
<1> USE WorkersAreNumbers, SlotsOfWorkers
<1>1. /\ n < MaxRequests
      /\ n' = n + 1
      /\ call' = [call EXCEPT ![Slot(w)] = [stage |-> "arrived", nonce |-> c]]
      /\ sent' = sent \cup {c}
      /\ UNCHANGED <<cached, seen, hits>>
      /\ phase' = "load"
  BY DEF Send
<1>2. n \in Nat /\ MaxRequests \in Nat /\ n < Stride /\ Stride \in Nat
  BY <1>1, BoundsAssumption, NoncesAssumption DEF IInv, Typed
<1>3. c \notin sent
  <2> SUFFICES ASSUME c \in NoncesBelow(n) PROVE FALSE
    BY DEF IInv, SentCounted
  <2>1. PICK v \in Workers, i \in 0 .. n - 1 : c = v * Stride + i
    BY DEF NoncesBelow
  <2>2. i \in Nat /\ i < n /\ i < Stride /\ v \in Nat /\ w \in Nat
    BY <1>2, <2>1
  <2>3. v * Stride + i = w * Stride + n
    BY <2>1 DEF Nonce
  <2>4. i = n
    BY <1>2, <2>2, <2>3, NoncesApart
  <2>5. QED BY <1>2, <2>2, <2>4
<1>4. Typed'
  <2>1. c \in Nonces
    BY <1>1, <1>2 DEF Nonce, Nonces
  <2>2. [stage |-> "arrived", nonce |-> c] \in Calls
    BY <2>1 DEF Calls
  <2>3. n' \in 0 .. MaxRequests
    BY <1>1, <1>2
  <2>4. QED BY <1>1, <2>2, <2>3 DEF IInv, Typed
<1>5. SentCounted'
  <2>1. NoncesBelow(n) \subseteq NoncesBelow(n')
    BY <1>1, <1>2 DEF NoncesBelow
  <2>2. c \in NoncesBelow(n')
    BY <1>1, <1>2 DEF NoncesBelow, Nonce
  <2>3. QED BY <1>1, <2>1, <2>2 DEF IInv, SentCounted
<1>6. ASSUME NEW s \in Slots
      PROVE  IF s = Slot(w) THEN call'[s].nonce = c ELSE call'[s] = call[s]
  BY <1>1 DEF IInv, Typed
<1>7. NothingUnsent'
  BY <1>1, <1>6 DEF IInv, NothingUnsent
<1>8. WorkersAlone'
  <2> SUFFICES ASSUME NEW v \in Workers, call'[Slot(v)] # NoCall
               PROVE  /\ call'[Slot(v)].nonce \in cached => call'[Slot(v)].nonce \in seen
                      /\ \A s \in Slots : /\ s # Slot(v)
                                          /\ call'[s] # NoCall
                                          /\ call'[s].nonce = call'[Slot(v)].nonce
                                          => call'[s].nonce \in seen
    BY <1>1 DEF WorkersAlone
  <2>1. CASE Slot(v) = Slot(w)
    BY <1>3, <1>6, <2>1 DEF IInv, NothingUnsent
  <2>2. CASE Slot(v) # Slot(w)
    <3>1. call'[Slot(v)] = call[Slot(v)]
      BY <1>6, <2>2
    <3>2. ASSUME NEW s \in Slots, s # Slot(v), call'[s] # NoCall,
                 call'[s].nonce = call'[Slot(v)].nonce
          PROVE  call'[s].nonce \in seen
      <4>1. CASE s = Slot(w)
        BY <1>3, <1>6, <3>1, <3>2, <4>1 DEF IInv, NothingUnsent
      <4>2. CASE s # Slot(w)
        BY <1>6, <3>1, <3>2, <4>2 DEF IInv, WorkersAlone
      <4>3. QED BY <4>1, <4>2
    <3>3. QED BY <3>1, <3>2 DEF IInv, WorkersAlone
  <2>3. QED BY <2>1, <2>2
<1>9. HitsRepeatEarlierLevels'
  BY <1>1 DEF IInv, HitsRepeatEarlierLevels
<1>10. QED BY <1>4, <1>5, <1>7, <1>8, <1>9 DEF IInv

\* A request given up changes hands, and no worker waits for it any longer.
LEMMA GiveUpInv ==
    ASSUME IInv, NEW w \in Workers, NEW g \in GivenUp, GiveUp(w, g)
    PROVE  IInv'
<1> USE SlotsOfWorkers
<1>1. /\ g \in Slots /\ g # Slot(w)
      /\ call[Slot(w)] # NoCall
      /\ call' = [call EXCEPT ![Slot(w)] = NoCall, ![g] = call[Slot(w)]]
      /\ UNCHANGED <<n, phase, cached, sent, seen, hits>>
  BY DEF GiveUp, Slots
<1>2. Typed'
  BY <1>1 DEF IInv, Typed
<1>3. /\ call'[Slot(w)] = NoCall
      /\ call'[g] = call[Slot(w)]
      /\ \A s \in Slots : s \notin {g, Slot(w)} => call'[s] = call[s]
  BY <1>1 DEF IInv, Typed
<1>4. NothingUnsent'
  BY <1>1, <1>3 DEF IInv, NothingUnsent
<1>5. \A v \in Workers : Slot(v) # g
  BY DEF Slot, GivenUp
<1>6. WorkersAlone'
  <2> SUFFICES ASSUME NEW v \in Workers, call'[Slot(v)] # NoCall
               PROVE  /\ call'[Slot(v)].nonce \in cached => call'[Slot(v)].nonce \in seen
                      /\ \A s \in Slots : /\ s # Slot(v)
                                          /\ call'[s] # NoCall
                                          /\ call'[s].nonce = call'[Slot(v)].nonce
                                          => call'[s].nonce \in seen
    BY <1>1 DEF WorkersAlone
  <2>1. Slot(v) # Slot(w) /\ call'[Slot(v)] = call[Slot(v)]
    BY <1>3, <1>5
  <2>2. ASSUME NEW s \in Slots, s # Slot(v), call'[s] # NoCall,
               call'[s].nonce = call'[Slot(v)].nonce
        PROVE  call'[s].nonce \in seen
    <3>1. CASE s = g
      BY <1>1, <1>3, <2>1, <2>2, <3>1 DEF IInv, WorkersAlone
    <3>2. CASE s # g
      BY <1>3, <2>1, <2>2, <3>2 DEF IInv, WorkersAlone
    <3>3. QED BY <3>1, <3>2
  <2>3. QED BY <2>1, <2>2 DEF IInv, WorkersAlone
<1>7. QED BY <1>1, <1>2, <1>4, <1>6 DEF IInv, SentCounted, HitsRepeatEarlierLevels

\* A request that goes on keeps its nonce.
LEMMA MovesInv ==
    ASSUME IInv, NEW s \in Slots, Miss(s) \/ Checkout(s)
    PROVE  IInv'
<1>1. PICK from \in {"arrived", "pool"}, to \in {"pool", "query"} : Moves(s, from, to)
  BY DEF Miss, Checkout
<1>2. UNCHANGED <<n, phase, cached, sent, seen, hits>>
  BY DEF Miss, Checkout, driverVars, historyVars
<1>3. call[s] \in Calls /\ call' = [call EXCEPT ![s].stage = to]
  BY <1>1 DEF Moves, IInv, Typed
<1>4. call'[s] \in Calls /\ call'[s].nonce = call[s].nonce /\ call[s] # NoCall
  BY <1>1, <1>3 DEF Moves, Calls, IInv, Typed
<1>5. \A q \in Slots : q # s => call'[q] = call[q]
  BY <1>3 DEF IInv, Typed
<1>6. Typed'
  BY <1>2, <1>3, <1>4, <1>5 DEF IInv, Typed
<1>7. NothingUnsent'
  BY <1>2, <1>4, <1>5 DEF IInv, NothingUnsent
<1>8. WorkersAlone'
  BY <1>2, <1>4, <1>5, SlotsOfWorkers DEF IInv, WorkersAlone
<1>9. QED BY <1>2, <1>6, <1>7, <1>8 DEF IInv, SentCounted, HitsRepeatEarlierLevels

\* A request ends, and may leave its own answer in the cache.
LEMMA AnsweredInv ==
    ASSUME IInv, NEW s \in Slots, NEW ok \in BOOLEAN,
           call[s] # NoCall, Answered(s, ok),
           cached' \subseteq cached \cup {call[s].nonce},
           hits' \subseteq seen,
           UNCHANGED <<n, phase, sent, seen>>
    PROVE  IInv'
<1>1. /\ call'[s] = NoCall
      /\ \A q \in Slots : q # s => call'[q] = call[q]
      /\ call' \in [Slots -> Calls \cup {NoCall}]
  BY DEF Answered, IInv, Typed
<1>2. Typed'
  BY <1>1 DEF IInv, Typed
<1>3. NothingUnsent'
  BY <1>1 DEF IInv, NothingUnsent
<1>4. WorkersAlone'
  BY <1>1, SlotsOfWorkers DEF IInv, WorkersAlone
<1>5. QED BY <1>2, <1>3, <1>4 DEF IInv, SentCounted, HitsRepeatEarlierLevels

LEMMA ServeInv ==
    ASSUME IInv, NEW s \in Slots, Serve(s)
    PROVE  IInv'
<1>1. CASE Hit(s)
  <2>1. /\ call[s] # NoCall /\ Answered(s, TRUE)
        /\ UNCHANGED <<n, phase, sent, seen, cached>>
        /\ call[s].nonce \in cached
        /\ hits' = IF s \in GivenUp THEN hits ELSE hits \cup {call[s].nonce}
    BY <1>1 DEF Hit
  <2>2. s \notin GivenUp => \E w \in Workers : s = Slot(w)
    BY DEF Slots, Slot
  <2>3. hits' \subseteq seen
    BY <2>1, <2>2 DEF IInv, WorkersAlone, HitsRepeatEarlierLevels
  <2>4. QED BY <2>1, <2>3, AnsweredInv
<1>2. CASE PoolTimeout(s)
  <2>1. /\ call[s] # NoCall /\ Answered(s, FALSE)
        /\ UNCHANGED <<n, phase, sent, seen, cached, hits>>
    BY <1>2 DEF PoolTimeout
  <2>2. QED BY <2>1, AnsweredInv DEF IInv, HitsRepeatEarlierLevels
<1>3. ASSUME NEW ok \in BOOLEAN, Finish(s, ok) PROVE IInv'
  <2>1. /\ call[s] # NoCall /\ Answered(s, ok)
        /\ UNCHANGED <<n, phase, sent, seen, hits>>
        /\ cached' \subseteq cached \cup {call[s].nonce}
    BY <1>3 DEF Finish
  <2>2. QED BY <2>1, AnsweredInv DEF IInv, HitsRepeatEarlierLevels
<1>4. QED BY <1>1, <1>2, <1>3, MovesInv DEF Serve

\* The inductive invariant: nothing is cached or under way that was not sent,
\* and what a worker waits for is nobody else's unless an earlier level sent it.
THEOREM NoncesAreOwned == Spec => []IInv
<1>1. IInv /\ [Next]_vars => IInv'
  <2> SUFFICES ASSUME IInv, [Next]_vars PROVE IInv'
    OBVIOUS
  <2>1. CASE UNCHANGED vars
    BY <2>1 DEF vars, driverVars, apiVars, historyVars, IInv, Typed, SentCounted,
                NothingUnsent, WorkersAlone, HitsRepeatEarlierLevels
  <2>2. CASE Drive
    BY <2>2, QuietInv, StartLevelInv, ReadAfterInv, SendInv DEF Drive, Quiet
  <2>3. CASE Deadline
    BY <2>3, QuietInv DEF Quiet
  <2>4. CASE \E s \in Slots : Serve(s)
    BY <2>4, ServeInv
  <2>5. CASE \E w \in Workers, g \in GivenUp : GiveUp(w, g)
    BY <2>5, GiveUpInv
  <2>6. QED BY <2>1, <2>2, <2>3, <2>4, <2>5 DEF Next
<1>2. QED BY <1>1, InitInv, PTL DEF Spec

\* A search that is answered from the cache was sent by an earlier level:
\* within a level, the nonces do force a miss every request.
THEOREM LevelsDoNotRepeatThemselves == Spec => []HitsRepeatEarlierLevels
<1>1. IInv => HitsRepeatEarlierLevels
  BY DEF IInv
<1>2. QED BY <1>1, NoncesAreOwned, PTL

-----------------------------------------------------------------------------
\* What a summary says.  A request is under way until it is counted in the
\* result, so the counts of a level add up only together with the requests its
\* workers wait for; and a search the server has recorded is one the level was
\* answered, or one of those given up that have been carried out since.

\* The workers that wait for an answer, and the requests given up that the
\* server has yet to carry out.
Busy == {w \in Workers : call[Slot(w)] # NoCall}
GivenUpSlot(i) == [giveUp |-> i]
Carried == {i \in 1 .. MaxGiveUps : call[GivenUpSlot(i)] # NoCall}

\* The types of what is counted.
CountsTyped ==
    /\ share \in WriteShares
    /\ phase \in {"seed", "start", "before", "load", "after", "summary", "done", "dead"}
    /\ level \in Levels
    /\ expired \in BOOLEAN
    /\ result \in Results
    /\ before \in Nat
    /\ searches \in Nat
    /\ answered \in Nat
    /\ abandoned \in [sweep : 0 .. MaxGiveUps, level : 0 .. MaxGiveUps]
    /\ abandoned.level <= abandoned.sweep
    /\ scraped \in BOOLEAN

\* Only workers in their loop wait, and a level is over when all have left it.
LoopsAreLeft ==
    /\ left \subseteq Concurrency(level)
    /\ Busy \subseteq Concurrency(level) \ left
    /\ phase # "load" => Busy = {}

RequestsAddUp ==
    /\ n = result.requests + Cardinality(Busy)
    /\ result.latencies + abandoned.level = result.requests
    /\ result.errors >= abandoned.level

\* The histogram has moved by the searches answered since it was read, and by
\* no more than the requests given up that are not under way any longer.
HistogramMoves ==
    /\ Cardinality(Carried) <= abandoned.sweep
    /\ phase = "before" => answered = 0
    /\ phase \in {"load", "after"} /\ scraped =>
        /\ before + answered <= searches
        /\ searches + Cardinality(Carried) <= before + answered + abandoned.sweep
    /\ ServerMeanIsOfTheLevel

Summing == CountsTyped /\ LoopsAreLeft /\ RequestsAddUp /\ HistogramMoves

LEMMA ResultsCounted ==
    ASSUME NEW r \in Results, NEW a \in Nat, NEW b \in Nat, NEW c \in Nat
    PROVE  /\ [r EXCEPT !.requests = a, !.latencies = b, !.errors = c] \in Results
           /\ [r EXCEPT !.requests = a, !.errors = c] \in Results
BY DEF Results

LEMMA SlotsOfGivenUp ==
    /\ \A i \in 1 .. MaxGiveUps : GivenUpSlot(i) \in GivenUp
    /\ \A g \in GivenUp : g \in Slots /\ \E i \in 1 .. MaxGiveUps : g = GivenUpSlot(i)
    /\ \A i, j \in 1 .. MaxGiveUps : GivenUpSlot(i) = GivenUpSlot(j) => i = j
    /\ \A i \in 1 .. MaxGiveUps, w \in Workers : GivenUpSlot(i) # Slot(w)
    /\ \A v, w \in Workers : Slot(v) = Slot(w) => v = w
    /\ \A s \in Slots : s \notin GivenUp => \E w \in Workers : s = Slot(w)
<1>1. \A g \in GivenUp : g \in Slots /\ \E i \in 1 .. MaxGiveUps : g = GivenUpSlot(i)
  BY DEF Slots, GivenUp, GivenUpSlot
<1>2. \A i, j \in 1 .. MaxGiveUps : GivenUpSlot(i) = GivenUpSlot(j) => i = j
  BY DEF GivenUpSlot
<1>3. \A v, w \in Workers : Slot(v) = Slot(w) => v = w
  BY DEF Slot
<1>4. \A i \in 1 .. MaxGiveUps, w \in Workers : GivenUpSlot(i) # Slot(w)
  BY DEF GivenUpSlot, Slot
<1>5. \A i \in 1 .. MaxGiveUps : GivenUpSlot(i) \in GivenUp
  BY DEF GivenUpSlot, GivenUp
<1>6. \A s \in Slots : s \notin GivenUp => \E w \in Workers : s = Slot(w)
  BY DEF Slots, Slot
<1>7. QED BY <1>1, <1>2, <1>3, <1>4, <1>5, <1>6

LEMMA CountsAreFinite ==
    ASSUME level \in Levels, Busy \subseteq Concurrency(level)
    PROVE  /\ IsFiniteSet(Busy) /\ Cardinality(Busy) \in Nat
           /\ IsFiniteSet(Carried) /\ Cardinality(Carried) \in Nat
<1>1. Sweep[level] - 1 \in Int
  BY SweepAssumption DEF Levels
<1>2. IsFiniteSet(Concurrency(level)) /\ IsFiniteSet(1 .. MaxGiveUps)
  BY <1>1, BoundsAssumption, FS_Interval DEF Concurrency
<1>3. Carried \subseteq 1 .. MaxGiveUps
  BY DEF Carried
<1>4. QED BY <1>2, <1>3, FS_Subset, FS_CardinalityType

\* How the counts change when one slot becomes free, or one worker's busy.
LEMMA WorkerFreed ==
    ASSUME Typed, Summing, NEW w \in Workers, call[Slot(w)] # NoCall,
           call'[Slot(w)] = NoCall,
           \A s \in Slots : s # Slot(w) /\ s \notin GivenUp => call'[s] = call[s]
    PROVE  /\ Busy' = Busy \ {w}
           /\ phase = "load" /\ w \in Concurrency(level) \ left
           /\ Cardinality(Busy') \in Nat
           /\ Cardinality(Busy) = Cardinality(Busy') + 1
<1>1. \A v \in Workers : v # w => call'[Slot(v)] = call[Slot(v)]
  <2>1. \A v \in Workers : Slot(v) \notin GivenUp
    BY DEF Slot, GivenUp
  <2>2. QED BY <2>1, SlotsOfWorkers, SlotsOfGivenUp
<1>2. Busy' = Busy \ {w} /\ w \in Busy
  BY <1>1 DEF Busy
<1>3. IsFiniteSet(Busy) /\ Cardinality(Busy) \in Nat
  BY CountsAreFinite DEF Summing, CountsTyped, LoopsAreLeft
<1>4. IsFiniteSet(Busy') /\ Cardinality(Busy') = Cardinality(Busy) - 1
  BY <1>2, <1>3, FS_RemoveElement
<1>5. Cardinality(Busy') \in Nat
  BY <1>4, FS_CardinalityType
<1>6. phase = "load" /\ w \in Concurrency(level) \ left
  BY <1>2 DEF Summing, LoopsAreLeft
<1>7. QED BY <1>2, <1>3, <1>4, <1>5, <1>6

LEMMA GivenUpFreed ==
    ASSUME Typed, Summing, NEW i \in 1 .. MaxGiveUps, call[GivenUpSlot(i)] # NoCall,
           call'[GivenUpSlot(i)] = NoCall,
           \A s \in Slots : s # GivenUpSlot(i) => call'[s] = call[s]
    PROVE  /\ Busy' = Busy
           /\ Cardinality(Carried') \in Nat
           /\ Cardinality(Carried) = Cardinality(Carried') + 1
<1>1. \A w \in Workers : call'[Slot(w)] = call[Slot(w)]
  BY SlotsOfWorkers, SlotsOfGivenUp
<1>2. \A j \in 1 .. MaxGiveUps : j # i => call'[GivenUpSlot(j)] = call[GivenUpSlot(j)]
  BY SlotsOfGivenUp
<1>3. Carried' = Carried \ {i} /\ i \in Carried
  BY <1>2 DEF Carried
<1>4. IsFiniteSet(Carried) /\ Cardinality(Carried) \in Nat
  BY CountsAreFinite DEF Summing, CountsTyped, LoopsAreLeft
<1>5. IsFiniteSet(Carried') /\ Cardinality(Carried') = Cardinality(Carried) - 1
  BY <1>3, <1>4, FS_RemoveElement
<1>6. Cardinality(Carried') \in Nat
  BY <1>5, FS_CardinalityType
<1>7. Busy' = Busy
  BY <1>1 DEF Busy
<1>8. QED BY <1>4, <1>5, <1>6, <1>7

LEMMA InitSumming == Init => Summing
<1> SUFFICES ASSUME Init PROVE Summing
  OBVIOUS
<1>1. Busy = {} /\ Carried = {}
  BY SlotsOfWorkers, SlotsOfGivenUp DEF Init, Busy, Carried
<1>2. Cardinality({}) = 0
  BY FS_EmptySet
<1>3. CountsTyped
  <2>1. 1 \in Levels
    BY SweepAssumption DEF Levels
  <2>2. result \in Results
    BY DEF Init, NoResult, Results
  <2>3. abandoned \in [sweep : 0 .. MaxGiveUps, level : 0 .. MaxGiveUps]
        /\ abandoned.level <= abandoned.sweep
    BY BoundsAssumption DEF Init
  <2>4. QED BY <2>1, <2>2, <2>3 DEF Init, CountsTyped
<1>4. LoopsAreLeft
  BY <1>1 DEF Init, LoopsAreLeft
<1>5. RequestsAddUp
  BY <1>1, <1>2 DEF Init, RequestsAddUp, NoResult
<1>6. HistogramMoves
  BY <1>1, <1>2 DEF Init, HistogramMoves, ServerMeanIsOfTheLevel
<1>7. QED BY <1>3, <1>4, <1>5, <1>6 DEF Summing

LEMMA QuietSumming == Summing /\ Quiet => Summing'
<1> SUFFICES ASSUME Summing, Quiet PROVE Summing'
  OBVIOUS
<1> USE DEF apiVars, historyVars
<1>1. /\ UNCHANGED <<share, n, result, call, searches, answered, abandoned>>
      /\ Busy' = Busy /\ Carried' = Carried
  BY DEF Quiet, Seed, SeedFails, Deadline, Gather, NextLevel, ReadBefore, Leave,
         Busy, Carried
<1>2. RequestsAddUp'
  BY <1>1 DEF Summing, RequestsAddUp
<1>3. CASE Seed \/ SeedFails \/ Deadline \/ Gather
  <2>1. /\ UNCHANGED <<level, left, before, scraped>>
        /\ expired' \in BOOLEAN
        /\ \/ phase' = phase
           \/ phase' \in {"start", "dead"} /\ Busy = {}
           \/ phase = "load" /\ phase' = "after" /\ left = Concurrency(level)
    BY <1>3 DEF Seed, SeedFails, Deadline, Gather, Summing, LoopsAreLeft, CountsTyped
  <2>2. CountsTyped'
    BY <1>1, <2>1 DEF Summing, CountsTyped
  <2>3. LoopsAreLeft'
    BY <1>1, <2>1 DEF Summing, LoopsAreLeft
  <2>4. HistogramMoves'
    BY <1>1, <2>1 DEF Summing, HistogramMoves, ServerMeanIsOfTheLevel
  <2>5. QED BY <1>2, <2>2, <2>3, <2>4 DEF Summing
<1>4. CASE NextLevel
  <2>1. /\ phase = "summary" /\ phase' \in {"start", "done"}
        /\ UNCHANGED <<before, scraped, expired>>
        /\ \/ level' = level + 1 /\ level < Len(Sweep) /\ left' = {}
           \/ UNCHANGED <<level, left>>
    BY <1>4 DEF NextLevel
  <2>2. Busy = {}
    BY <2>1 DEF Summing, LoopsAreLeft
  <2>3. level' \in Levels
    BY <2>1, SweepAssumption DEF Summing, CountsTyped, Levels
  <2>4. CountsTyped'
    BY <1>1, <2>1, <2>3 DEF Summing, CountsTyped
  <2>5. LoopsAreLeft'
    BY <1>1, <2>1, <2>2 DEF Summing, LoopsAreLeft
  <2>6. HistogramMoves'
    BY <1>1, <2>1 DEF Summing, HistogramMoves, ServerMeanIsOfTheLevel
  <2>7. QED BY <1>2, <2>4, <2>5, <2>6 DEF Summing
<1>5. ASSUME NEW answers \in BOOLEAN, ReadBefore(answers) PROVE Summing'
  <2>1. /\ phase = "before" /\ phase' = "load"
        /\ before' = IF answers THEN searches ELSE 0
        /\ scraped' = answers
        /\ UNCHANGED <<level, expired, left>>
    BY <1>5 DEF ReadBefore, ReadMetric
  <2>2. CountsTyped'
    BY <1>1, <2>1 DEF Summing, CountsTyped
  <2>3. LoopsAreLeft'
    BY <1>1, <2>1 DEF Summing, LoopsAreLeft
  <2>4. HistogramMoves'
    <3>1. answered = 0 /\ Cardinality(Carried) <= abandoned.sweep
      BY <2>1 DEF Summing, HistogramMoves
    <3>2. searches \in Nat /\ abandoned.sweep \in Nat /\ Cardinality(Carried) \in Nat
      BY CountsAreFinite, BoundsAssumption DEF Summing, CountsTyped, LoopsAreLeft
    <3>3. QED BY <1>1, <2>1, <3>1, <3>2 DEF HistogramMoves, ServerMeanIsOfTheLevel
  <2>5. QED BY <1>2, <2>2, <2>3, <2>4 DEF Summing
<1>6. ASSUME NEW w \in Workers, Leave(w) PROVE Summing'
  <2>1. /\ phase = "load" /\ left' = left \cup {w} /\ w \in Concurrency(level)
        /\ call[Slot(w)] = NoCall
        /\ UNCHANGED <<phase, level, expired, before, scraped>>
    BY <1>6 DEF Leave
  <2>2. w \notin Busy
    BY <2>1 DEF Busy
  <2>3. CountsTyped'
    BY <1>1, <2>1 DEF Summing, CountsTyped
  <2>4. LoopsAreLeft'
    BY <1>1, <2>1, <2>2 DEF Summing, LoopsAreLeft
  <2>5. HistogramMoves'
    BY <1>1, <2>1 DEF Summing, HistogramMoves, ServerMeanIsOfTheLevel
  <2>6. QED BY <1>2, <2>3, <2>4, <2>5 DEF Summing
<1>7. QED BY <1>3, <1>4, <1>5, <1>6 DEF Quiet

LEMMA StartLevelSumming == Summing /\ StartLevel => Summing'
<1> SUFFICES ASSUME Summing, StartLevel PROVE Summing'
  OBVIOUS
<1>1. /\ phase = "start" /\ phase' = "before"
      /\ n' = 0 /\ left' = {} /\ result' = NoResult /\ answered' = 0
      /\ abandoned' = [abandoned EXCEPT !.level = 0]
      /\ scraped' = TRUE /\ expired' = FALSE
      /\ UNCHANGED <<share, level, before, call, searches>>
  BY DEF StartLevel, apiVars
<1>2. Busy = {} /\ Busy' = Busy /\ Carried' = Carried
  BY <1>1 DEF Summing, LoopsAreLeft, Busy, Carried
<1>3. /\ abandoned'.level = 0 /\ abandoned'.sweep = abandoned.sweep
      /\ abandoned' \in [sweep : 0 .. MaxGiveUps, level : 0 .. MaxGiveUps]
      /\ abandoned'.level <= abandoned'.sweep
  BY <1>1, BoundsAssumption DEF Summing, CountsTyped
<1>4. CountsTyped'
  BY <1>1, <1>3 DEF Summing, CountsTyped, NoResult, Results
<1>5. LoopsAreLeft'
  BY <1>1, <1>2 DEF LoopsAreLeft
<1>6. RequestsAddUp'
  BY <1>1, <1>2, <1>3, FS_EmptySet DEF RequestsAddUp, NoResult
<1>7. HistogramMoves'
  BY <1>1, <1>2, <1>3 DEF Summing, HistogramMoves, ServerMeanIsOfTheLevel
<1>8. QED BY <1>4, <1>5, <1>6, <1>7 DEF Summing

LEMMA ReadAfterSumming ==
    ASSUME Summing, NEW answers \in BOOLEAN, ReadAfter(answers)
    PROVE  Summing'
<1> DEFINE mean == IF ReadMetric(answers) > before THEN searches - before ELSE 0
<1>1. /\ phase = "after" /\ phase' = "summary"
      /\ result' = [result EXCEPT !.averaged = mean]
      /\ scraped' = (scraped /\ answers)
      /\ UNCHANGED <<share, level, n, expired, left, before, call, searches,
                     answered, abandoned>>
  BY DEF ReadAfter, apiVars
<1>2. Busy' = Busy /\ Carried' = Carried
  BY <1>1 DEF Busy, Carried
<1>3. mean \in Nat
  BY DEF Summing, CountsTyped, ReadMetric
<1>4. /\ result' \in Results /\ result'.averaged = mean
      /\ result'.requests = result.requests
      /\ result'.latencies = result.latencies
      /\ result'.errors = result.errors
  BY <1>1, <1>3 DEF Summing, CountsTyped, Results
<1>5. CountsTyped'
  BY <1>1, <1>4 DEF Summing, CountsTyped
<1>6. LoopsAreLeft'
  BY <1>1, <1>2 DEF Summing, LoopsAreLeft
<1>7. RequestsAddUp'
  BY <1>1, <1>2, <1>4 DEF Summing, RequestsAddUp
<1>8. ASSUME scraped, answers
      PROVE  mean \in answered .. answered + abandoned.sweep
  <2>1. /\ before + answered <= searches
        /\ searches + Cardinality(Carried) <= before + answered + abandoned.sweep
    BY <1>1, <1>8 DEF Summing, HistogramMoves
  <2>2. /\ searches \in Nat /\ before \in Nat /\ answered \in Nat
        /\ abandoned.sweep \in Nat /\ Cardinality(Carried) \in Nat
    BY CountsAreFinite, BoundsAssumption DEF Summing, CountsTyped, LoopsAreLeft
  <2>3. mean = searches - before
    BY <1>8, <2>1, <2>2 DEF ReadMetric
  <2>4. QED BY <2>1, <2>2, <2>3
<1>9. HistogramMoves'
  BY <1>1, <1>2, <1>4, <1>8 DEF Summing, HistogramMoves, ServerMeanIsOfTheLevel
<1>10. QED BY <1>5, <1>6, <1>7, <1>9 DEF Summing

LEMMA SendSumming ==
    ASSUME Typed, Summing, NEW w \in Workers, Send(w)
    PROVE  Summing'
<1>1. /\ phase = "load" /\ w \in Concurrency(level) \ left
      /\ call[Slot(w)] = NoCall
      /\ n' = n + 1
      /\ call' = [call EXCEPT ![Slot(w)] = [stage |-> "arrived", nonce |-> Nonce(w)]]
      /\ UNCHANGED <<share, phase, level, expired, left, result, before, searches,
                     answered, abandoned, scraped>>
  BY DEF Send
<1>2. \A s \in Slots : s # Slot(w) => call'[s] = call[s]
  BY <1>1 DEF Typed
<1>3. call'[Slot(w)] # NoCall
  BY <1>1, SlotsOfWorkers DEF Typed, NoCall
<1>4. Busy' = Busy \cup {w} /\ w \notin Busy /\ Carried' = Carried
  <2>1. \A v \in Workers : v # w => call'[Slot(v)] = call[Slot(v)]
    BY <1>2, SlotsOfWorkers, SlotsOfGivenUp
  <2>2. \A i \in 1 .. MaxGiveUps : call'[GivenUpSlot(i)] = call[GivenUpSlot(i)]
    BY <1>2, SlotsOfGivenUp
  <2>3. QED BY <1>1, <1>3, <2>1, <2>2 DEF Busy, Carried
<1>5. IsFiniteSet(Busy) /\ Cardinality(Busy) \in Nat
  BY CountsAreFinite DEF Summing, CountsTyped, LoopsAreLeft
<1>6. Cardinality(Busy') = Cardinality(Busy) + 1
  BY <1>4, <1>5, FS_AddElement
<1>7. CountsTyped'
  BY <1>1 DEF Summing, CountsTyped
<1>8. LoopsAreLeft'
  BY <1>1, <1>4 DEF Summing, LoopsAreLeft
<1>9. RequestsAddUp'
  BY <1>1, <1>5, <1>6, BoundsAssumption DEF Summing, RequestsAddUp, CountsTyped, Results
<1>10. HistogramMoves'
  BY <1>1, <1>4 DEF Summing, HistogramMoves, ServerMeanIsOfTheLevel
<1>11. QED BY <1>7, <1>8, <1>9, <1>10 DEF Summing

LEMMA GiveUpSumming ==
    ASSUME Typed, Summing, NEW w \in Workers, NEW g \in GivenUp, GiveUp(w, g)
    PROVE  Summing'
<1>1. /\ g \in Slots /\ g # Slot(w)
      /\ call[Slot(w)] # NoCall /\ call[g] = NoCall
      /\ call' = [call EXCEPT ![Slot(w)] = NoCall, ![g] = call[Slot(w)]]
      /\ abandoned.sweep < MaxGiveUps
      /\ abandoned' = [sweep |-> abandoned.sweep + 1, level |-> abandoned.level + 1]
      /\ result' = [result EXCEPT !.requests = @ + 1, !.errors = @ + 1]
      /\ UNCHANGED <<share, phase, level, n, expired, left, before, searches,
                     answered, scraped>>
  BY DEF GiveUp, Slots
<1>2. /\ call'[Slot(w)] = NoCall /\ call'[g] = call[Slot(w)]
      /\ \A s \in Slots : s \notin {Slot(w), g} => call'[s] = call[s]
  BY <1>1, SlotsOfWorkers DEF Typed
<1>3. /\ Busy' = Busy \ {w}
      /\ phase = "load" /\ w \in Concurrency(level) \ left
      /\ Cardinality(Busy') \in Nat
      /\ Cardinality(Busy) = Cardinality(Busy') + 1
  <2>1. \A s \in Slots : s # Slot(w) /\ s \notin GivenUp => call'[s] = call[s]
    BY <1>2
  <2>2. QED BY <1>1, <1>2, <2>1, WorkerFreed
<1>4. PICK i \in 1 .. MaxGiveUps : g = GivenUpSlot(i)
  BY SlotsOfGivenUp
<1>5. Carried' = Carried \cup {i} /\ i \notin Carried
  <2>1. \A j \in 1 .. MaxGiveUps : j # i => call'[GivenUpSlot(j)] = call[GivenUpSlot(j)]
    BY <1>2, <1>4, SlotsOfGivenUp
  <2>2. QED BY <1>1, <1>2, <1>4, <2>1 DEF Carried
<1>6. IsFiniteSet(Carried) /\ Cardinality(Carried) \in Nat
  BY CountsAreFinite DEF Summing, CountsTyped, LoopsAreLeft
<1>7. Cardinality(Carried') = Cardinality(Carried) + 1
  BY <1>5, <1>6, FS_AddElement
<1>8. /\ abandoned'.sweep = abandoned.sweep + 1
      /\ abandoned'.level = abandoned.level + 1
      /\ abandoned.sweep \in Nat /\ abandoned.level \in Nat
      /\ abandoned.level <= abandoned.sweep
      /\ MaxGiveUps \in Nat
  BY <1>1, BoundsAssumption DEF Summing, CountsTyped
<1>9. /\ result' \in Results
      /\ result'.requests = result.requests + 1
      /\ result'.errors = result.errors + 1
      /\ result'.latencies = result.latencies
      /\ result'.averaged = result.averaged
      /\ result.requests \in Nat /\ result.errors \in Nat /\ result.latencies \in Nat
  <2>1. /\ result \in Results
        /\ result.requests \in Nat /\ result.errors \in Nat
        /\ result.latencies \in Nat /\ result.averaged \in Nat
    BY DEF Summing, CountsTyped, Results
  <2>2. /\ result'.requests = result.requests + 1
        /\ result'.errors = result.errors + 1
        /\ result'.latencies = result.latencies
        /\ result'.averaged = result.averaged
    BY <1>1, <2>1 DEF Results
  <2>3. result' \in Results
    <3>1. /\ result.requests + 1 \in Nat /\ result.errors + 1 \in Nat
          /\ result' = [result EXCEPT !.requests = result.requests + 1,
                                      !.errors = result.errors + 1]
      BY <1>1, <2>1
    <3>2. QED BY <2>1, <3>1, ResultsCounted
  <2>4. QED BY <2>1, <2>2, <2>3
<1>10. CountsTyped'
  <2>1. /\ abandoned' \in [sweep : 0 .. MaxGiveUps, level : 0 .. MaxGiveUps]
        /\ abandoned'.level <= abandoned'.sweep
    BY <1>1, <1>8
  <2>2. QED BY <1>1, <1>9, <2>1 DEF Summing, CountsTyped
<1>11. LoopsAreLeft'
  BY <1>1, <1>3 DEF Summing, LoopsAreLeft
<1>12. RequestsAddUp'
  BY <1>1, <1>3, <1>8, <1>9 DEF Summing, RequestsAddUp
<1>13. HistogramMoves'
  BY <1>1, <1>3, <1>6, <1>7, <1>8
     DEF Summing, HistogramMoves, ServerMeanIsOfTheLevel, CountsTyped
<1>14. QED BY <1>10, <1>11, <1>12, <1>13 DEF Summing

LEMMA MovesSumming ==
    ASSUME Typed, Summing, NEW s \in Slots, Miss(s) \/ Checkout(s)
    PROVE  Summing'
<1>1. PICK from \in {"arrived", "pool"}, to \in {"pool", "query"} : Moves(s, from, to)
  BY DEF Miss, Checkout
<1>2. UNCHANGED <<share, phase, level, n, expired, left, result, before, searches,
                  answered, abandoned, scraped>>
  BY DEF Miss, Checkout, driverVars, historyVars
<1>3. call[s] \in Calls /\ call' = [call EXCEPT ![s].stage = to]
  BY <1>1 DEF Moves, Typed
<1>4. call'[s] \in Calls /\ call[s] # NoCall
  BY <1>1, <1>3 DEF Moves, Calls, Typed
<1>5. call'[s] # NoCall
  BY <1>4 DEF Calls, NoCall
<1>6. \A q \in Slots : q # s => call'[q] = call[q]
  BY <1>3 DEF Typed
<1>7. Busy' = Busy /\ Carried' = Carried
  BY <1>4, <1>5, <1>6, SlotsOfWorkers, SlotsOfGivenUp DEF Busy, Carried
<1>8. QED BY <1>2, <1>7 DEF Summing, CountsTyped, LoopsAreLeft, RequestsAddUp,
                            HistogramMoves, ServerMeanIsOfTheLevel

\* A request that ends is counted, by the worker that waits for it, if one
\* does, and by the histogram, if it is a search.
LEMMA AnsweredSumming ==
    ASSUME Typed, Summing, NEW s \in Slots, NEW ok \in BOOLEAN,
           call[s] # NoCall, Answered(s, ok),
           searches' = Recorded(s),
           UNCHANGED <<share, phase, level, n, expired, left, before, abandoned, scraped>>
    PROVE  Summing'
<1>1. /\ call'[s] = NoCall
      /\ \A q \in Slots : q # s => call'[q] = call[q]
  BY DEF Answered, Typed
<1>2. /\ searches \in Nat /\ before \in Nat /\ answered \in Nat
      /\ abandoned.sweep \in Nat /\ abandoned.level \in Nat
      /\ Cardinality(Carried) \in Nat /\ Cardinality(Busy) \in Nat
  BY CountsAreFinite, BoundsAssumption DEF Summing, CountsTyped, LoopsAreLeft
<1>3. CASE s \in GivenUp
  <2>1. PICK i \in 1 .. MaxGiveUps : s = GivenUpSlot(i)
    BY <1>3, SlotsOfGivenUp
  <2>2. /\ Busy' = Busy
        /\ Cardinality(Carried') \in Nat
        /\ Cardinality(Carried) = Cardinality(Carried') + 1
    BY <1>1, <2>1, GivenUpFreed
  <2>3. UNCHANGED <<result, answered>> /\ searches' \in {searches, searches + 1}
    BY <1>3 DEF Answered, Recorded
  <2>4. CountsTyped' /\ LoopsAreLeft' /\ RequestsAddUp'
    BY <1>2, <2>2, <2>3 DEF Summing, CountsTyped, LoopsAreLeft, RequestsAddUp
  <2>5. HistogramMoves'
    BY <1>2, <2>2, <2>3 DEF Summing, HistogramMoves, ServerMeanIsOfTheLevel
  <2>6. QED BY <2>4, <2>5 DEF Summing
<1>4. CASE s \notin GivenUp
  <2>1. PICK w \in Workers : s = Slot(w)
    BY <1>4, SlotsOfGivenUp
  <2>2. /\ Busy' = Busy \ {w}
        /\ phase = "load"
        /\ Cardinality(Busy') \in Nat
        /\ Cardinality(Busy) = Cardinality(Busy') + 1
    BY <1>1, <2>1, WorkerFreed
  <2>3. Carried' = Carried
    <3>1. \A i \in 1 .. MaxGiveUps : call'[GivenUpSlot(i)] = call[GivenUpSlot(i)]
      BY <1>1, <1>4, SlotsOfGivenUp
    <3>2. QED BY <3>1 DEF Carried
  <2>4. \/ UNCHANGED <<searches, answered>>
        \/ searches' = searches + 1 /\ answered' = answered + 1
    BY <1>4 DEF Answered, Recorded
  <2>5. /\ result \in Results
        /\ result.requests \in Nat /\ result.errors \in Nat
        /\ result.latencies \in Nat /\ result.averaged \in Nat
    BY DEF Summing, CountsTyped, Results
  <2>6. result' = [result EXCEPT !.requests = @ + 1, !.latencies = @ + 1,
                                 !.errors = IF ok THEN @ ELSE @ + 1]
    BY <1>4 DEF Answered
  <2>7. /\ result'.requests = result.requests + 1
        /\ result'.errors \in {result.errors, result.errors + 1}
        /\ result'.latencies = result.latencies + 1
        /\ result'.averaged = result.averaged
    BY <2>5, <2>6 DEF Results
  <2>8. result' \in Results
    <3> DEFINE e == IF ok THEN result.errors ELSE result.errors + 1
    <3>1. /\ result.requests + 1 \in Nat /\ result.latencies + 1 \in Nat /\ e \in Nat
          /\ result' = [result EXCEPT !.requests = result.requests + 1,
                                      !.latencies = result.latencies + 1, !.errors = e]
      BY <2>5, <2>6
    <3>2. QED BY <2>5, <3>1, ResultsCounted
  <2>9. CountsTyped'
    BY <1>2, <2>4, <2>8 DEF Summing, CountsTyped
  <2>10. LoopsAreLeft'
    BY <2>2 DEF Summing, LoopsAreLeft
  <2>11. RequestsAddUp'
    BY <1>2, <2>2, <2>5, <2>7, BoundsAssumption DEF Summing, RequestsAddUp, Typed
  <2>12. HistogramMoves'
    BY <1>2, <2>2, <2>3, <2>4 DEF Summing, HistogramMoves, ServerMeanIsOfTheLevel
  <2>13. QED BY <2>9, <2>10, <2>11, <2>12 DEF Summing
<1>5. QED BY <1>3, <1>4

LEMMA ServeSumming ==
    ASSUME Typed, Summing, NEW s \in Slots, Serve(s)
    PROVE  Summing'
<1>1. CASE Hit(s)
  BY <1>1, AnsweredSumming DEF Hit
<1>2. CASE PoolTimeout(s)
  BY <1>2, AnsweredSumming DEF PoolTimeout
<1>3. ASSUME NEW ok \in BOOLEAN, Finish(s, ok) PROVE Summing'
  BY <1>3, AnsweredSumming DEF Finish
<1>4. QED BY <1>1, <1>2, <1>3, MovesSumming DEF Serve

\* The inductive invariant of the counts, at every moment of a sweep.
THEOREM CountsAddUp == Spec => []Summing
<1>1. Typed /\ Summing /\ [Next]_vars => Summing'
  <2> SUFFICES ASSUME Typed, Summing, [Next]_vars PROVE Summing'
    OBVIOUS
  <2>1. CASE UNCHANGED vars
    BY <2>1 DEF vars, driverVars, apiVars, historyVars, Summing, CountsTyped,
                LoopsAreLeft, RequestsAddUp, HistogramMoves, ServerMeanIsOfTheLevel,
                Busy, Carried
  <2>2. CASE Drive
    BY <2>2, QuietSumming, StartLevelSumming, ReadAfterSumming, SendSumming
       DEF Drive, Quiet
  <2>3. CASE Deadline
    BY <2>3, QuietSumming DEF Quiet
  <2>4. CASE \E s \in Slots : Serve(s)
    BY <2>4, ServeSumming
  <2>5. CASE \E w \in Workers, g \in GivenUp : GiveUp(w, g)
    BY <2>5, GiveUpSumming
  <2>6. QED BY <2>1, <2>2, <2>3, <2>4, <2>5 DEF Next
<1>2. IInv => Typed
  BY DEF IInv
<1>3. QED BY <1>1, <1>2, InitSumming, NoncesAreOwned, PTL DEF Spec

\* A summary counts every request that was sent once, with a latency or as
\* given up, whatever fails and however late, for any ladder of levels.
THEOREM SummariesAddUp == Spec => []SummaryAddsUp
<1>1. Typed /\ Summing => SummaryAddsUp
  <2> SUFFICES ASSUME Typed, Summing, phase = "summary"
               PROVE  /\ result.requests = n
                      /\ result.latencies + abandoned.level = n
                      /\ result.errors >= abandoned.level
                      /\ \A w \in Workers : call[Slot(w)] = NoCall
    BY DEF SummaryAddsUp
  <2>1. Busy = {}
    BY DEF Summing, LoopsAreLeft
  <2>2. n = result.requests + 0 /\ result.requests \in Nat
    BY <2>1, FS_EmptySet DEF Summing, RequestsAddUp, CountsTyped, Results
  <2>3. QED BY <2>1, <2>2 DEF Summing, RequestsAddUp, Busy
<1>2. IInv => Typed
  BY DEF IInv
<1>3. QED BY <1>1, <1>2, CountsAddUp, NoncesAreOwned, PTL

\* The server-observed mean of a level is of the searches the level was
\* answered and of no others but those the sweep had given up.
THEOREM ServerMeansAreOfTheirLevels == Spec => []ServerMeanIsOfTheLevel
<1>1. Summing => ServerMeanIsOfTheLevel
  BY DEF Summing, HistogramMoves
<1>2. QED BY <1>1, CountsAddUp, PTL

-----------------------------------------------------------------------------
\* Types: the pool hands out no more connections than it has, and takes back
\* every one of them, because a slot's query holds exactly one.

Querying == {s \in Slots : call[s] # NoCall /\ call[s].stage = "query"}

ConnectionsAreHeld == inUse = Cardinality(Querying) /\ inUse <= PoolSize

LEMMA ImageIsFinite ==
    ASSUME NEW S, NEW T, IsFiniteSet(S), NEW f \in [S -> T],
           \A t \in T : \E s \in S : f[s] = t
    PROVE  IsFiniteSet(T)
<1>1. f \in Surjection(S, T)
  BY DEF Surjection
<1>2. QED BY <1>1, FS_Surjection

LEMMA SlotsAreFinite == IsFiniteSet(Slots)
<1>1. IsFiniteSet(Levels)
  BY SweepAssumption, FS_Interval DEF Levels
<1>2. IsFiniteSet({Concurrency(l) : l \in Levels})
  <2> DEFINE f == [l \in Levels |-> Concurrency(l)]
  <2>1. f \in [Levels -> {Concurrency(l) : l \in Levels}]
    OBVIOUS
  <2>2. \A t \in {Concurrency(l) : l \in Levels} : \E l \in Levels : f[l] = t
    OBVIOUS
  <2>3. QED BY <1>1, <2>1, <2>2, ImageIsFinite
<1>3. \A T \in {Concurrency(l) : l \in Levels} : IsFiniteSet(T)
  <2> SUFFICES ASSUME NEW l \in Levels PROVE IsFiniteSet(Concurrency(l))
    OBVIOUS
  <2>1. Sweep[l] - 1 \in Int
    BY SweepAssumption DEF Levels
  <2>2. QED BY <2>1, FS_Interval DEF Concurrency
<1>4. IsFiniteSet(Workers)
  BY <1>2, <1>3, FS_UNION DEF Workers
<1>5. IsFiniteSet([worker : Workers])
  <2> DEFINE T == [worker : Workers]
             f == [w \in Workers |-> Slot(w)]
  <2>1. f \in [Workers -> T]
    BY DEF Slot
  <2>2. \A t \in T : \E w \in Workers : f[w] = t
    BY DEF Slot
  <2> HIDE DEF T, f
  <2>3. IsFiniteSet(T)
    BY <1>4, <2>1, <2>2, ImageIsFinite
  <2>4. QED BY <2>3 DEF T
<1>6. IsFiniteSet(GivenUp)
  <2> DEFINE f == [i \in 1 .. MaxGiveUps |-> GivenUpSlot(i)]
  <2>1. f \in [1 .. MaxGiveUps -> GivenUp]
    BY SlotsOfGivenUp
  <2>2. \A g \in GivenUp : \E i \in 1 .. MaxGiveUps : f[i] = g
    BY SlotsOfGivenUp
  <2>3. IsFiniteSet(1 .. MaxGiveUps)
    BY BoundsAssumption, FS_Interval
  <2>4. QED BY <2>1, <2>2, <2>3, ImageIsFinite
<1>7. QED BY <1>5, <1>6, FS_Union DEF Slots

LEMMA QueryingIsFinite == IsFiniteSet(Querying) /\ Cardinality(Querying) \in Nat
BY SlotsAreFinite, FS_Subset, FS_CardinalityType DEF Querying

\* A step that neither takes nor returns a connection.
LEMMA ConnectionsKept ==
    ASSUME ConnectionsAreHeld, UNCHANGED inUse, Querying' = Querying
    PROVE  ConnectionsAreHeld'
BY DEF ConnectionsAreHeld

LEMMA ConnectionsInv ==
    ASSUME Typed, ConnectionsAreHeld, [Next]_vars
    PROVE  ConnectionsAreHeld'
<1> USE DEF apiVars, driverVars, historyVars
<1>1. ASSUME UNCHANGED <<call, inUse>> PROVE ConnectionsAreHeld'
  BY <1>1, ConnectionsKept DEF Querying
<1>2. ASSUME NEW w \in Workers, Send(w) PROVE ConnectionsAreHeld'
  <2> DEFINE c == [stage |-> "arrived", nonce |-> Nonce(w)]
  <2>1. /\ call[Slot(w)] = NoCall /\ UNCHANGED inUse
        /\ call' = [call EXCEPT ![Slot(w)] = c]
    BY <1>2 DEF Send
  <2>2. Querying' = Querying
    <3>1. \A s \in Slots : call'[s] = IF s = Slot(w) THEN c ELSE call[s]
      BY <2>1 DEF Typed
    <3>2. c.stage # "query"
      OBVIOUS
    <3>3. QED BY <2>1, <3>1, <3>2 DEF Querying
  <2>3. QED BY <2>1, <2>2, ConnectionsKept
<1>3. CASE Drive
  <2>1. ASSUME NEW w \in Workers, Leave(w) PROVE ConnectionsAreHeld'
    BY <1>1, <2>1 DEF Leave
  <2>2. QED BY <1>1, <1>2, <1>3, <2>1 DEF Drive, Seed, SeedFails, StartLevel, ReadBefore,
                                    ReadAfter, Gather, NextLevel
<1>4. CASE Deadline \/ UNCHANGED vars
  BY <1>1, <1>4 DEF Deadline, vars
<1>5. ASSUME NEW w \in Workers, NEW g \in GivenUp, GiveUp(w, g) PROVE ConnectionsAreHeld'
  <2>1. /\ Slot(w) \in Slots /\ g \in Slots /\ g # Slot(w)
        /\ call[Slot(w)] # NoCall /\ call[g] = NoCall
        /\ call' = [call EXCEPT ![Slot(w)] = NoCall, ![g] = call[Slot(w)]]
        /\ UNCHANGED inUse
    BY <1>5, SlotsOfWorkers DEF GiveUp, Slots
  <2>2. \A s \in Slots : call'[s] = IF s = g THEN call[Slot(w)]
                                    ELSE IF s = Slot(w) THEN NoCall ELSE call[s]
    BY <2>1 DEF Typed
  <2>3. CASE call[Slot(w)].stage = "query"
    <3> DEFINE R == Querying \ {Slot(w)}
    <3>1. Querying' = R \cup {g} /\ Slot(w) \in Querying /\ g \notin R
      <4>1. Slot(w) \in Querying /\ g \notin Querying
        BY <2>1, <2>3 DEF Querying
      <4>2. g \in Querying' /\ Slot(w) \notin Querying'
        BY <2>1, <2>2, <2>3 DEF Querying
      <4>3. \A s \in Slots : s # g /\ s # Slot(w) => (s \in Querying' <=> s \in Querying)
        BY <2>2 DEF Querying
      <4>4. Querying \subseteq Slots /\ Querying' \subseteq Slots
        BY DEF Querying
      <4>5. QED BY <4>1, <4>2, <4>3, <4>4
    <3>2. IsFiniteSet(R) /\ Cardinality(R) = Cardinality(Querying) - 1
      BY <3>1, QueryingIsFinite, FS_RemoveElement
    <3>3. Cardinality(Querying') = Cardinality(R) + 1
      BY <3>1, <3>2, FS_AddElement
    <3>4. QED BY <2>1, <3>2, <3>3, QueryingIsFinite DEF ConnectionsAreHeld
  <2>4. CASE call[Slot(w)].stage # "query"
    <3>1. Querying' = Querying
      BY <2>1, <2>2, <2>4 DEF Querying
    <3>2. QED BY <2>1, <3>1, ConnectionsKept
  <2>5. QED BY <2>3, <2>4
<1>6. ASSUME NEW s \in Slots, Serve(s) PROVE ConnectionsAreHeld'
  <2>1. CASE Hit(s) \/ PoolTimeout(s)
    <3>1. /\ call[s].stage # "query" /\ UNCHANGED inUse
          /\ call' = [call EXCEPT ![s] = NoCall]
      BY <2>1 DEF Hit, PoolTimeout, Answered
    <3>2. Querying' = Querying
      BY <3>1 DEF Querying, Typed
    <3>3. QED BY <3>1, <3>2, ConnectionsKept
  <2>2. CASE Miss(s)
    <3>1. /\ call[s] # NoCall /\ call[s].stage = "arrived" /\ UNCHANGED inUse
          /\ call' = [call EXCEPT ![s].stage = "pool"]
      BY <2>2 DEF Miss, Moves
    <3>2. call[s] \in Calls /\ call'[s].stage = "pool"
      BY <3>1 DEF Typed, Calls
    <3>3. Querying' = Querying
      BY <3>1, <3>2 DEF Querying, Typed
    <3>4. QED BY <3>1, <3>3, ConnectionsKept
  <2>3. CASE Checkout(s)
    <3>1. /\ call[s] # NoCall /\ call[s].stage = "pool"
          /\ inUse < PoolSize /\ inUse' = inUse + 1
          /\ call' = [call EXCEPT ![s].stage = "query"]
      BY <2>3 DEF Checkout, Moves, Connection
    <3>2. call[s] \in Calls /\ call'[s].stage = "query" /\ call'[s] \in Calls
      BY <3>1 DEF Typed, Calls
    <3>3. call'[s] # NoCall
      BY <3>2 DEF Calls, NoCall
    <3>4. Querying' = Querying \cup {s} /\ s \notin Querying
      BY <3>1, <3>2, <3>3 DEF Querying, Typed
    <3>5. Cardinality(Querying') = Cardinality(Querying) + 1
      BY <3>4, QueryingIsFinite, FS_AddElement
    <3>6. QED BY <3>1, <3>5, QueryingIsFinite, BoundsAssumption DEF ConnectionsAreHeld
  <2>4. ASSUME NEW ok \in BOOLEAN, Finish(s, ok) PROVE ConnectionsAreHeld'
    <3>1. /\ call[s] # NoCall /\ call[s].stage = "query"
          /\ inUse' = inUse - 1
          /\ call' = [call EXCEPT ![s] = NoCall]
      BY <2>4 DEF Finish, Answered
    <3>2. Querying' = Querying \ {s} /\ s \in Querying
      BY <3>1 DEF Querying, Typed
    <3>3. Cardinality(Querying') = Cardinality(Querying) - 1
      BY <3>2, QueryingIsFinite, FS_RemoveElement
    <3>4. QED BY <3>1, <3>3, QueryingIsFinite, BoundsAssumption DEF ConnectionsAreHeld
  <2>5. QED BY <1>6, <2>1, <2>2, <2>3, <2>4 DEF Serve
<1>7. QED BY <1>3, <1>4, <1>5, <1>6 DEF Next

LEMMA NoncesBelowTyped == Typed /\ SentCounted => sent \subseteq Nonces
<1> SUFFICES ASSUME Typed, SentCounted, NEW c \in sent PROVE c \in Nonces
  OBVIOUS
<1>1. PICK w \in Workers, i \in 0 .. n - 1 : c = w * Stride + i
  BY DEF SentCounted, NoncesBelow
<1>2. i \in 0 .. MaxRequests - 1
  BY BoundsAssumption, NoncesAssumption DEF Typed
<1>3. QED BY <1>1, <1>2 DEF Nonces

LEMMA SeenTyped == IInv /\ seen \subseteq Nonces /\ [Next]_vars => (seen \subseteq Nonces)'
<1> SUFFICES ASSUME IInv, seen \subseteq Nonces, [Next]_vars PROVE seen' \subseteq Nonces
  OBVIOUS
<1>1. seen' \in {seen, seen \cup sent}
  BY DEF Next, Drive, Serve, vars, driverVars, apiVars, historyVars, Seed, SeedFails,
         StartLevel, ReadBefore, ReadAfter, Gather, NextLevel, Deadline, Leave, Send,
         GiveUp, Hit, Miss, Checkout, PoolTimeout, Finish
<1>2. sent \subseteq Nonces
  BY NoncesBelowTyped DEF IInv
<1>3. QED BY <1>1, <1>2

\* The types of the state: the pool's limit holds for any pool and load.
THEOREM TypeCorrect == Spec => []TypeOK
<1>1. Init => ConnectionsAreHeld /\ seen \subseteq Nonces
  <2> SUFFICES ASSUME Init PROVE ConnectionsAreHeld /\ seen \subseteq Nonces
    OBVIOUS
  <2>1. Querying = {}
    BY DEF Init, Querying
  <2>2. QED BY <2>1, FS_EmptySet, BoundsAssumption DEF Init, ConnectionsAreHeld
<1>2. Typed /\ ConnectionsAreHeld /\ [Next]_vars => ConnectionsAreHeld'
  BY ConnectionsInv
<1>3. IInv => Typed
  BY DEF IInv
<1>4. Spec => [](ConnectionsAreHeld /\ seen \subseteq Nonces)
  BY <1>1, <1>2, <1>3, SeenTyped, NoncesAreOwned, PTL DEF Spec
<1>5. IInv /\ Summing /\ ConnectionsAreHeld /\ seen \subseteq Nonces => TypeOK
  <2> SUFFICES ASSUME IInv, Summing, ConnectionsAreHeld, seen \subseteq Nonces
               PROVE  TypeOK
    OBVIOUS
  <2>1. cached \cup sent \cup seen \cup hits \subseteq Nonces
    BY NoncesBelowTyped DEF IInv, NothingUnsent, HitsRepeatEarlierLevels
  <2>2. inUse \in 0 .. PoolSize
    BY QueryingIsFinite, BoundsAssumption DEF ConnectionsAreHeld
  <2>3. QED BY <2>1, <2>2 DEF IInv, Typed, Summing, CountsTyped, LoopsAreLeft, TypeOK
<1>6. QED BY <1>4, <1>5, CountsAddUp, NoncesAreOwned, PTL
=============================================================================
