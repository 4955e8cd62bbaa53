-------------------------- MODULE SearchCacheProofs -------------------------
(***************************************************************************)
(* While Redis answers and nobody dies, a stale entry of the cache is one  *)
(* that a mutation is about to delete, that a search wrote late, or that   *)
(* the user's pattern does not match; for any searches, mutations, keys    *)
(* and pattern.  One thing has to be added to make it inductive: an        *)
(* invalidation is not cut short while nothing fails.                      *)
(* The bounds on the stores' versions follow from the writes that the      *)
(* mutations under way have still to make.                                 *)
(***************************************************************************)
EXTENDS SearchCache, FiniteSetTheorems, TLAPS

Typed ==
    /\ mpc \in [Mutators -> {"idle", "close", "commit", "graph", "scan", "delete"}]
    /\ todo \in [Mutators -> SUBSET Keys]
    /\ DOMAIN cache \subseteq Keys
    /\ key \in [Searchers -> Keys \cup {None}]
    /\ spc \in [Searchers -> {"idle", "rows", "graph", "set"}]
    /\ \A s \in Searchers : spc[s] # "idle" => key[s] \in Keys

RedisAnswers == ~faulty => redisUp

IInv == Typed /\ RedisAnswers /\ StaleIsExplained

LEMMA InitInv == Init => IInv
BY DEF Init, IInv, Typed, RedisAnswers, StaleIsExplained, Stale

\* What was stale before is still explained if the stores stand still, no
\* entry is written, and whoever could delete a key that is there still can.
LEMMA StillExplained ==
    ASSUME StaleIsExplained, ~faulty' => ~faulty,
           UNCHANGED stores,
           \A k \in DOMAIN cache' : k \in DOMAIN cache /\ cache'[k] = cache[k],
           ~faulty' => \A m \in Mutators, k \in DOMAIN cache' :
                          Invalidating(m, k) => Invalidating(m, k)'
    PROVE  StaleIsExplained'
BY DEF StaleIsExplained, Stale, stores

\* Removing a key leaves the others, and whoever is about to delete them.
LEMMA RemoveInv ==
    ASSUME IInv, NEW k \in Keys, Remove(k),
           UNCHANGED <<stores, redisUp, searchVars, mpc, started, faulty>>
    PROVE  IInv'
<1>1. /\ DOMAIN cache' = DOMAIN cache \ {k}
      /\ \A j \in DOMAIN cache' : cache'[j] = cache[j]
      /\ \A m \in Mutators : todo'[m] = todo[m] \ {k}
  BY DEF Remove, Restrict
<1>2. Typed'
  BY <1>1 DEF IInv, Typed, Remove, searchVars
<1>3. RedisAnswers'
  BY DEF IInv, RedisAnswers
<1>4. \A m \in Mutators, j \in DOMAIN cache' : Invalidating(m, j) => Invalidating(m, j)'
  BY <1>1 DEF Invalidating
<1>5. StaleIsExplained'
  BY <1>1, <1>4, StillExplained DEF IInv
<1>6. QED BY <1>2, <1>3, <1>5 DEF IInv

\* A search changes nothing but what it has read, until it writes the cache.
LEMMA SearchInv ==
    ASSUME IInv, NEW s \in Searchers,
           \/ \E k \in Keys : SearchHit(s, k) \/ SearchMiss(s, k)
           \/ ReadRows(s) \/ ReadGraph(s) \/ SearchDies(s)
    PROVE  IInv'
<1>1. /\ UNCHANGED <<stores, redis, mutationVars>>
      /\ ~faulty' => ~faulty
  BY DEF SearchHit, SearchMiss, ReadRows, ReadGraph, SearchDies
<1>2. Typed'
  <2>1. UNCHANGED <<mpc, todo, cache>>
    BY <1>1 DEF redis, mutationVars
  <2>2. CASE \E k \in Keys : SearchHit(s, k)
    BY <2>1, <2>2 DEF SearchHit, searchVars, IInv, Typed
  <2>3. CASE \E k \in Keys : SearchMiss(s, k)
    BY <2>1, <2>3 DEF SearchMiss, IInv, Typed
  <2>4. CASE ReadRows(s) \/ ReadGraph(s)
    BY <2>1, <2>4 DEF ReadRows, ReadGraph, IInv, Typed
  <2>5. CASE SearchDies(s)
    BY <2>1, <2>5 DEF SearchDies, SearchDone, IInv, Typed
  <2>6. QED BY <2>2, <2>3, <2>4, <2>5
<1>3. RedisAnswers'
  BY <1>1 DEF IInv, RedisAnswers, redis
<1>4. StaleIsExplained'
  BY <1>1, StillExplained DEF IInv, redis, mutationVars, Invalidating
<1>5. QED BY <1>2, <1>3, <1>4 DEF IInv

\* An entry that is stale as soon as it is written was written late.
LEMMA CacheSetInv ==
    ASSUME IInv, NEW s \in Searchers, CacheSet(s)
    PROVE  IInv'
<1>1. /\ UNCHANGED <<pg, graph, redisUp, mpc, todo, faulty>>
      /\ spc' = [spc EXCEPT ![s] = "idle"] /\ key' = [key EXCEPT ![s] = None]
      /\ key[s] \in Keys
  BY DEF CacheSet, SearchDone, stores, mutationVars, IInv, Typed
<1>2. CASE ~redisUp
  <2>1. cache' = cache
    BY <1>2 DEF CacheSet
  <2>2. QED BY <1>1, <2>1
        DEF IInv, Typed, RedisAnswers, StaleIsExplained, Stale, Invalidating
<1>3. CASE redisUp
  <2>1. /\ DOMAIN cache' = DOMAIN cache \cup {key[s]}
        /\ cache'[key[s]] = [pg |-> seen[s].pg, graph |-> seen[s].graph, raced |-> Outrun(s)]
        /\ \A k \in DOMAIN cache : k # key[s] => cache'[k] = cache[k]
    BY <1>3 DEF CacheSet
  <2>2. Typed'
    BY <1>1, <2>1 DEF IInv, Typed
  <2>3. ASSUME NEW k \in Keys, k = key[s], Stale(k)'
        PROVE  cache'[k].raced
    <3>1. cache'[k].pg # pg \/ cache'[k].graph # graph
      BY <1>1, <2>3 DEF Stale
    <3>2. cache'[k].pg = seen[s].pg /\ cache'[k].graph = seen[s].graph
      BY <2>1, <2>3
    <3>3. cache'[k].raced = Outrun(s)
      BY <2>1, <2>3
    <3>4. Outrun(s)
      BY <3>1, <3>2 DEF Outrun
    <3>5. QED BY <3>3, <3>4
  <2>4. ASSUME ~faulty', NEW k \in Matched, Stale(k)'
        PROVE  cache'[k].raced \/ \E m \in Mutators : Invalidating(m, k)'
    <3>1. CASE k = key[s]
      BY <2>3, <2>4, <3>1, MatchedAssumption
    <3>2. CASE k # key[s]
      <4>1. Stale(k) /\ cache'[k] = cache[k]
        BY <1>1, <2>1, <2>4, <3>2 DEF Stale
      <4>2. QED BY <1>1, <2>4, <4>1 DEF IInv, StaleIsExplained, Invalidating
    <3>3. QED BY <3>1, <3>2
  <2>5. QED BY <1>1, <2>2, <2>4 DEF IInv, RedisAnswers, StaleIsExplained
<1>4. QED BY <1>2, <1>3

\* A mutation that changes a store may make everything stale, and is bound to
\* invalidate everything the pattern matches.
LEMMA WriteInv ==
    ASSUME IInv, NEW m \in Mutators, CloseOld(m) \/ Commit(m) \/ GraphWrite(m)
    PROVE  IInv'
<1>1. /\ \E l \in {"commit", "graph", "scan"} : mpc' = [mpc EXCEPT ![m] = l]
      /\ UNCHANGED <<cache, redisUp, spc, key, todo, faulty>>
  BY DEF CloseOld, Commit, GraphWrite, redis, searchVars
<1>2. mpc'[m] \in {"commit", "graph", "scan"}
  BY <1>1 DEF IInv, Typed
<1>3. Typed'
  BY <1>1 DEF IInv, Typed
<1>4. \A k \in Keys : Invalidating(m, k)'
  BY <1>2 DEF Invalidating
<1>5. QED BY <1>1, <1>3, <1>4, MatchedAssumption DEF IInv, RedisAnswers, StaleIsExplained

\* A scan is bound to return every key that is there when it starts and that
\* the pattern matches.
LEMMA StartScanInv ==
    ASSUME IInv, NEW m \in Mutators, StartScan(m)
    PROVE  IInv'
<1>1. /\ todo' = [todo EXCEPT ![m] = DOMAIN cache \cap Matched]
      /\ mpc' = [mpc EXCEPT ![m] = "delete"]
      /\ UNCHANGED <<pg, graph, cache, redisUp, spc, key, faulty>>
  BY MatchedAssumption DEF StartScan, Matching, stores, redis, searchVars
<1>2. Typed'
  BY <1>1 DEF IInv, Typed
<1>3. \A k \in DOMAIN cache \cap Matched : Invalidating(m, k)'
  BY <1>1 DEF IInv, Typed, Invalidating
<1>4. StaleIsExplained'
  BY <1>1, <1>3 DEF StaleIsExplained, Stale
<1>5. QED BY <1>1, <1>2, <1>4 DEF IInv, RedisAnswers

\* A mutation that starts, and one that ends with nothing left to delete.
LEMMA EndsInv ==
    ASSUME IInv, NEW m \in Mutators,
           MutationStart(m) \/ FinishScan(m) \/ MutationDies(m)
    PROVE  IInv'
<1>1. /\ UNCHANGED <<stores, redis, searchVars>>
      /\ ~faulty' => ~faulty
  BY DEF MutationStart, FinishScan, MutationDies
<1>2. Typed'
  <2>1. UNCHANGED <<cache, spc, key>>
    BY <1>1 DEF redis, searchVars
  <2>2. CASE MutationStart(m)
    BY <2>1, <2>2 DEF MutationStart, IInv, Typed
  <2>3. CASE FinishScan(m) \/ MutationDies(m)
    BY <2>1, <2>3 DEF FinishScan, MutationDies, MutationDone, IInv, Typed
  <2>4. QED BY <2>2, <2>3
<1>3. RedisAnswers'
  BY <1>1 DEF IInv, RedisAnswers, redis
<1>4. ASSUME ~faulty', NEW n \in Mutators, NEW k \in DOMAIN cache', Invalidating(n, k)
      PROVE  Invalidating(n, k)'
  <2>1. CASE n # m
    <3>1. mpc'[n] = mpc[n] /\ todo'[n] = todo[n]
      BY <2>1 DEF MutationStart, FinishScan, MutationDies, MutationDone, IInv, Typed
    <3>2. QED BY <1>4, <3>1 DEF Invalidating
  <2>2. CASE n = m
    <3>1. redisUp /\ ~MutationDies(m)
      BY <1>1, <1>4 DEF IInv, RedisAnswers, MutationDies
    <3>2. ~MutationStart(m) /\ ~FinishScan(m)
      BY <1>4, <2>2, <3>1 DEF MutationStart, FinishScan, Invalidating
    <3>3. QED BY <3>1, <3>2
  <2>3. QED BY <2>1, <2>2
<1>5. StaleIsExplained'
  BY <1>1, <1>4, StillExplained DEF IInv, redis
<1>6. QED BY <1>2, <1>3, <1>5 DEF IInv

LEMMA RedisInv == IInv /\ (RedisDown \/ RedisBack) => IInv'
<1> SUFFICES ASSUME IInv, RedisDown \/ RedisBack PROVE IInv'
  OBVIOUS
<1>1. /\ UNCHANGED <<pg, graph, cache, spc, key, mpc, todo>>
      /\ ~faulty' => ~faulty /\ redisUp'
  BY DEF RedisDown, RedisBack, stores, searchVars, mutationVars
<1>2. QED BY <1>1
      DEF IInv, Typed, RedisAnswers, StaleIsExplained, Stale, Invalidating

LEMMA NextInv == IInv /\ [Next]_vars => IInv'
<1> SUFFICES ASSUME IInv, [Next]_vars PROVE IInv'
  OBVIOUS
<1>1. CASE UNCHANGED vars
  BY <1>1 DEF vars, stores, redis, searchVars, mutationVars, IInv, Typed,
     RedisAnswers, StaleIsExplained, Stale, Invalidating
<1>2. CASE \E s \in Searchers, k \in Keys : SearchHit(s, k) \/ SearchMiss(s, k)
  BY <1>2, SearchInv
<1>3. CASE \E s \in Searchers : SearchStep(s) \/ SearchDies(s)
  BY <1>3, SearchInv, CacheSetInv DEF SearchStep
<1>4. ASSUME NEW m \in Mutators, NEW k \in Keys, DeleteKey(m, k) PROVE IInv'
  BY <1>4, RemoveInv DEF DeleteKey
<1>5. CASE \E m \in Mutators : MutationStart(m) \/ MutationStep(m) \/ MutationDies(m)
  <2>1. \A m \in Mutators : todo[m] \subseteq Keys
    BY DEF IInv, Typed
  <2>2. QED BY <1>4, <1>5, <2>1, WriteInv, StartScanInv, EndsInv DEF MutationStep
<1>6. CASE \E k \in Keys : Expire(k)
  BY <1>6, RemoveInv DEF Expire
<1>7. CASE RedisDown \/ RedisBack
  BY <1>7, RedisInv
<1>8. QED BY <1>1, <1>2, <1>3, <1>4, <1>5, <1>6, <1>7, MatchedAssumption DEF Next

\* Of the keys its pattern matches, invalidation misses nothing but what a
\* search that was outrun has written.
THEOREM OnlyOutrunSearchesStay == Spec => []StaleIsExplained
<1>1. IInv => StaleIsExplained
  BY DEF IInv
<1>2. QED BY <1>1, InitInv, NextInv, PTL DEF Spec
-----------------------------------------------------------------------------
(* Types.  That the versions stay within their bound is a matter of        *)
(* counting the writes that the mutations under way still have to make.    *)

Pending(labels) == {m \in Mutators : mpc[m] \in labels}

WritesCounted ==
    /\ pg \in Nat /\ graph \in Nat /\ started \in 0 .. MaxMutations
    /\ IsFiniteSet(Pending({"close", "commit", "graph"}))
    /\ pg + Cardinality(Pending({"close", "commit"})) <= started
    /\ graph + Cardinality(Pending({"close"})) + Cardinality(Pending({"close", "commit", "graph"}))
          <= 2 * started

ValuesTyped ==
    /\ redisUp \in BOOLEAN /\ faulty \in BOOLEAN
    /\ seen \in [Searchers -> Results]
    /\ \A k \in DOMAIN cache : cache[k] \in Entries

LEMMA VersionsBounded ==
    ASSUME WritesCounted
    PROVE  pg \in Versions /\ graph \in Versions
<1> DEFINE a == Cardinality(Pending({"close", "commit"}))
           b == Cardinality(Pending({"close"}))
           c == Cardinality(Pending({"close", "commit", "graph"}))
<1>1. a \in Nat /\ b \in Nat /\ c \in Nat
  <2>1. /\ Pending({"close", "commit"}) \subseteq Pending({"close", "commit", "graph"})
        /\ Pending({"close"}) \subseteq Pending({"close", "commit", "graph"})
    BY DEF Pending
  <2>2. IsFiniteSet(Pending({"close", "commit"})) /\ IsFiniteSet(Pending({"close"}))
    BY <2>1, FS_Subset DEF WritesCounted
  <2>3. QED BY <2>2, FS_CardinalityType DEF WritesCounted
<1>2. /\ pg \in Nat /\ graph \in Nat /\ started \in 0 .. MaxMutations
      /\ pg + a <= started /\ graph + b + c <= 2 * started
  BY DEF WritesCounted
<1> HIDE DEF a, b, c
<1>3. QED BY <1>1, <1>2, MaxMutationsAssumption DEF Versions

\* One mutation moves from one await to another.
One(p) == IF p THEN 1 ELSE 0

LEMMA PendingMoves ==
    ASSUME Typed, NEW m \in Mutators, NEW l, mpc' = [mpc EXCEPT ![m] = l],
           NEW labels, IsFiniteSet(Pending(labels))
    PROVE  /\ IsFiniteSet(Pending(labels)')
           /\ Cardinality(Pending(labels)) \in Nat /\ Cardinality(Pending(labels)') \in Nat
           /\ Cardinality(Pending(labels)') + One(mpc[m] \in labels)
                = Cardinality(Pending(labels)) + One(l \in labels)
<1> DEFINE P == Pending(labels)
           Q == Pending(labels)'
<1>1. /\ l \in labels => Q = P \cup {m}
      /\ l \notin labels => Q = P \ {m}
  BY DEF Pending, Typed
<1>2. m \in P <=> mpc[m] \in labels
  BY DEF Pending
<1>3. /\ IsFiniteSet(P \cup {m})
      /\ Cardinality(P \cup {m}) = IF m \in P THEN Cardinality(P) ELSE Cardinality(P) + 1
  BY FS_AddElement
<1>4. /\ IsFiniteSet(P \ {m})
      /\ Cardinality(P \ {m}) = IF m \in P THEN Cardinality(P) - 1 ELSE Cardinality(P)
  BY FS_RemoveElement
<1>5. IsFiniteSet(Q)
  BY <1>1, <1>3, <1>4
<1>6. Cardinality(P) \in Nat /\ Cardinality(Q) \in Nat
  BY <1>5, FS_CardinalityType
<1>7. Cardinality(Q) + One(m \in P) = Cardinality(P) + One(l \in labels)
  <2> HIDE DEF P, Q
  <2>1. CASE l \in labels
    BY <1>1, <1>3, <1>6, <2>1 DEF One
  <2>2. CASE l \notin labels
    <3>1. Cardinality(Q) = IF m \in P THEN Cardinality(P) - 1 ELSE Cardinality(P)
      BY <1>1, <1>4, <2>2
    <3>2. One(l \in labels) = 0
      BY <2>2 DEF One
    <3>3. One(m \in P) = IF m \in P THEN 1 ELSE 0
      BY DEF One
    <3>4. QED BY <1>6, <3>1, <3>2, <3>3
  <2>3. QED BY <2>1, <2>2
<1>8. QED BY <1>2, <1>5, <1>6, <1>7

\* The writes that a mutation at an await has still to make, at the most.
RowsOwed(l) == One(l \in {"close", "commit"})
GraphOwed(l) == One(l \in {"close"}) + One(l \in {"close", "commit", "graph"})

\* No mutation writes more than it owed.
LEMMA WritesPaid ==
    ASSUME Typed, WritesCounted, NEW m \in Mutators, NEW l, mpc' = [mpc EXCEPT ![m] = l],
           NEW p \in Nat, NEW g \in Nat, NEW s \in Nat,
           pg' = pg + p, graph' = graph + g, started' = started + s,
           started' <= MaxMutations,
           p + RowsOwed(l) <= s + RowsOwed(mpc[m]),
           g + GraphOwed(l) <= 2 * s + GraphOwed(mpc[m])
    PROVE  WritesCounted'
<1> DEFINE A == {"close", "commit"}
           B == {"close"}
           C == {"close", "commit", "graph"}
           a == Cardinality(Pending(A))
           b == Cardinality(Pending(B))
           c == Cardinality(Pending(C))
           a1 == Cardinality(Pending(A)')
           b1 == Cardinality(Pending(B)')
           c1 == Cardinality(Pending(C)')
<1>1. Pending(A) \subseteq Pending(C) /\ Pending(B) \subseteq Pending(C)
  BY DEF Pending
<1>2. IsFiniteSet(Pending(A)) /\ IsFiniteSet(Pending(B)) /\ IsFiniteSet(Pending(C))
  BY <1>1, FS_Subset DEF WritesCounted
<1>3. IsFiniteSet(Pending(C)')
  BY <1>2, PendingMoves
<1>4. /\ a \in Nat /\ a1 \in Nat
      /\ a1 + One(mpc[m] \in A) = a + One(l \in A)
  BY <1>2, PendingMoves
<1>5. /\ b \in Nat /\ b1 \in Nat
      /\ b1 + One(mpc[m] \in B) = b + One(l \in B)
  BY <1>2, PendingMoves
<1>6. /\ c \in Nat /\ c1 \in Nat
      /\ c1 + One(mpc[m] \in C) = c + One(l \in C)
  BY <1>2, PendingMoves
<1>7. /\ pg \in Nat /\ graph \in Nat /\ started \in 0 .. MaxMutations
      /\ pg + a <= started /\ graph + b + c <= 2 * started
  BY DEF WritesCounted
<1>8. /\ One(l \in A) \in Nat /\ One(l \in B) \in Nat /\ One(l \in C) \in Nat
      /\ One(mpc[m] \in A) \in Nat /\ One(mpc[m] \in B) \in Nat /\ One(mpc[m] \in C) \in Nat
  BY DEF One
<1>9. /\ p + One(l \in A) <= s + One(mpc[m] \in A)
      /\ g + (One(l \in B) + One(l \in C)) <= 2 * s + (One(mpc[m] \in B) + One(mpc[m] \in C))
  BY DEF RowsOwed, GraphOwed
<1>10. pg' + a1 <= started' /\ graph' + b1 + c1 <= 2 * started'
  <2> HIDE DEF a, b, c, a1, b1, c1, A, B, C
  <2>1. QED BY <1>4, <1>5, <1>6, <1>7, <1>8, <1>9
<1>11. pg' \in Nat /\ graph' \in Nat /\ started' \in 0 .. MaxMutations
  BY <1>7, MaxMutationsAssumption
<1>12. QED BY <1>3, <1>10, <1>11 DEF WritesCounted

LEMMA WritesNext ==
    ASSUME IInv, WritesCounted, [Next]_vars
    PROVE  WritesCounted'
<1>1. CASE UNCHANGED <<stores, mpc, started>>
  BY <1>1 DEF WritesCounted, Pending, stores
<1>2. Typed /\ started \in 0 .. MaxMutations
  BY DEF IInv, WritesCounted
<1>3. ASSUME NEW m \in Mutators, MutationStart(m) PROVE WritesCounted'
  <2>1. PICK l \in {"close", "commit", "scan"} : mpc' = [mpc EXCEPT ![m] = l]
    BY <1>3 DEF MutationStart
  <2>2. /\ mpc[m] = "idle" /\ started' = started + 1 /\ started < MaxMutations
        /\ pg' = pg + 0 /\ graph' = graph + 0 /\ started' <= MaxMutations
    BY <1>2, <1>3, MaxMutationsAssumption DEF MutationStart, stores, WritesCounted
  <2>3. /\ 0 + RowsOwed(l) <= 1 + RowsOwed(mpc[m])
        /\ 0 + GraphOwed(l) <= 2 * 1 + GraphOwed(mpc[m])
    BY <2>1, <2>2 DEF RowsOwed, GraphOwed, One
  <2>4. QED BY <1>2, <2>1, <2>2, <2>3, WritesPaid
<1>4. ASSUME NEW m \in Mutators, CloseOld(m) PROVE WritesCounted'
  <2>1. /\ mpc[m] = "close" /\ mpc' = [mpc EXCEPT ![m] = "commit"]
        /\ started' = started + 0 /\ pg' = pg + 0 /\ graph' = graph + 1
        /\ started' <= MaxMutations
    BY <1>2, <1>4, MaxMutationsAssumption DEF CloseOld, WritesCounted
  <2>2. /\ 0 + RowsOwed("commit") <= 0 + RowsOwed(mpc[m])
        /\ 1 + GraphOwed("commit") <= 2 * 0 + GraphOwed(mpc[m])
    BY <2>1 DEF RowsOwed, GraphOwed, One
  <2>3. QED BY <1>2, <2>1, <2>2, WritesPaid
<1>5. ASSUME NEW m \in Mutators, Commit(m) PROVE WritesCounted'
  <2>1. /\ mpc[m] = "commit" /\ mpc' = [mpc EXCEPT ![m] = "graph"]
        /\ started' = started + 0 /\ pg' = pg + 1 /\ graph' = graph + 0
        /\ started' <= MaxMutations
    BY <1>2, <1>5, MaxMutationsAssumption DEF Commit, WritesCounted
  <2>2. /\ 1 + RowsOwed("graph") <= 0 + RowsOwed(mpc[m])
        /\ 0 + GraphOwed("graph") <= 2 * 0 + GraphOwed(mpc[m])
    BY <2>1 DEF RowsOwed, GraphOwed, One
  <2>3. QED BY <1>2, <2>1, <2>2, WritesPaid
<1>6. ASSUME NEW m \in Mutators, GraphWrite(m) PROVE WritesCounted'
  <2>1. /\ mpc[m] = "graph" /\ mpc' = [mpc EXCEPT ![m] = "scan"]
        /\ started' = started + 0 /\ pg' = pg + 0 /\ graph' = graph + 1
        /\ started' <= MaxMutations
    BY <1>2, <1>6, MaxMutationsAssumption DEF GraphWrite, WritesCounted
  <2>2. /\ 0 + RowsOwed("scan") <= 0 + RowsOwed(mpc[m])
        /\ 1 + GraphOwed("scan") <= 2 * 0 + GraphOwed(mpc[m])
    BY <2>1 DEF RowsOwed, GraphOwed, One
  <2>3. QED BY <1>2, <2>1, <2>2, WritesPaid
<1>7. ASSUME NEW m \in Mutators, StartScan(m) \/ FinishScan(m) \/ MutationDies(m)
      PROVE  WritesCounted'
  <2>1. PICK l \in {"delete", "idle"} : mpc' = [mpc EXCEPT ![m] = l]
    BY <1>7 DEF StartScan, FinishScan, MutationDies, MutationDone
  <2>2. /\ started' = started + 0 /\ pg' = pg + 0 /\ graph' = graph + 0
        /\ started' <= MaxMutations
    BY <1>2, <1>7, MaxMutationsAssumption
       DEF StartScan, FinishScan, MutationDies, stores, WritesCounted
  <2>3. /\ 0 + RowsOwed(l) <= 0 + RowsOwed(mpc[m])
        /\ 0 + GraphOwed(l) <= 2 * 0 + GraphOwed(mpc[m])
    BY <2>1 DEF RowsOwed, GraphOwed, One
  <2>4. QED BY <1>2, <2>1, <2>2, <2>3, WritesPaid
<1>8. ASSUME NEW m \in Mutators, NEW k, DeleteKey(m, k) PROVE WritesCounted'
  BY <1>1, <1>8 DEF DeleteKey
<1>9. CASE \E s \in Searchers, k \in Keys : SearchHit(s, k) \/ SearchMiss(s, k)
  BY <1>1, <1>9 DEF SearchHit, SearchMiss, mutationVars
<1>10. CASE \E s \in Searchers : SearchStep(s) \/ SearchDies(s)
  BY <1>1, <1>10 DEF SearchStep, SearchDies, ReadRows, ReadGraph, CacheSet, mutationVars
<1>11. CASE (\E k \in Keys : Expire(k)) \/ RedisDown \/ RedisBack
  BY <1>1, <1>11 DEF Expire, RedisDown, RedisBack, mutationVars
<1>12. CASE UNCHANGED vars
  BY <1>1, <1>12 DEF vars, mutationVars
<1>13. QED BY <1>3, <1>4, <1>5, <1>6, <1>7, <1>8, <1>9, <1>10, <1>11, <1>12
       DEF Next, MutationStep

LEMMA ValuesNext ==
    ASSUME IInv, WritesCounted, ValuesTyped, [Next]_vars
    PROVE  ValuesTyped'
<1>1. pg \in Versions /\ graph \in Versions
  BY VersionsBounded
<1>2. CASE /\ UNCHANGED seen /\ redisUp' \in BOOLEAN /\ faulty' \in BOOLEAN
           /\ \A k \in DOMAIN cache' : k \in DOMAIN cache /\ cache'[k] = cache[k]
  BY <1>2 DEF ValuesTyped, Results, Entries, Versions
<1>3. redisUp \in BOOLEAN /\ faulty \in BOOLEAN
  BY DEF ValuesTyped
<1>4. ASSUME NEW s \in Searchers, ReadRows(s) \/ ReadGraph(s) PROVE ValuesTyped'
  <2>1. seen[s] \in Results
    BY DEF ValuesTyped
  <2>2. UNCHANGED <<cache, redisUp, faulty>>
    BY <1>4 DEF ReadRows, ReadGraph, redis
  <2>3. seen' \in [Searchers -> Results]
    <3>1. CASE ReadRows(s)
      <4>1. [seen[s] EXCEPT !.pg = pg] \in Results
        BY <1>1, <2>1 DEF Results
      <4>2. seen' = [seen EXCEPT ![s] = [seen[s] EXCEPT !.pg = pg]]
        BY <3>1 DEF ReadRows
      <4>3. QED BY <4>1, <4>2 DEF ValuesTyped
    <3>2. CASE ReadGraph(s)
      <4>1. [seen[s] EXCEPT !.graph = graph] \in Results
        BY <1>1, <2>1 DEF Results
      <4>2. seen' = [seen EXCEPT ![s] = [seen[s] EXCEPT !.graph = graph]]
        BY <3>2 DEF ReadGraph
      <4>3. QED BY <4>1, <4>2 DEF ValuesTyped
    <3>3. QED BY <1>4, <3>1, <3>2
  <2>4. QED BY <2>2, <2>3 DEF ValuesTyped, Results, Entries, Versions
<1>5. Nothing \in Results
  BY MaxMutationsAssumption DEF Nothing, Results, Versions
<1>6. ASSUME NEW s \in Searchers, CacheSet(s) PROVE ValuesTyped'
  <2>1. seen' = [seen EXCEPT ![s] = Nothing] /\ UNCHANGED <<redisUp, faulty>>
    BY <1>6 DEF CacheSet, SearchDone
  <2>2. seen' \in [Searchers -> Results]
    BY <1>5, <2>1 DEF ValuesTyped
  <2>3. [pg |-> seen[s].pg, graph |-> seen[s].graph, raced |-> Outrun(s)] \in Entries
    BY DEF ValuesTyped, Results, Entries, Outrun
  <2>4. \A k \in DOMAIN cache' : cache'[k] \in Entries
    BY <1>6, <2>3 DEF CacheSet, ValuesTyped
  <2>5. QED BY <1>3, <2>1, <2>2, <2>4 DEF ValuesTyped, Results, Entries, Versions
<1>7. ASSUME NEW s \in Searchers, SearchDies(s) PROVE ValuesTyped'
  <2>1. /\ seen' = [seen EXCEPT ![s] = Nothing]
        /\ UNCHANGED <<cache, redisUp>> /\ faulty' = TRUE
    BY <1>7 DEF SearchDies, SearchDone, redis
  <2>2. QED BY <1>3, <1>5, <2>1 DEF ValuesTyped, Results, Entries, Versions
<1>8. ASSUME NEW k, Remove(k), UNCHANGED <<redisUp, searchVars, faulty>> PROVE ValuesTyped'
  BY <1>2, <1>3, <1>8 DEF Remove, Restrict, searchVars
<1>9. ASSUME NEW m \in Mutators, MutationStep(m) PROVE ValuesTyped'
  <2>1. CASE \E k \in todo[m] : DeleteKey(m, k)
    BY <1>8, <2>1 DEF DeleteKey
  <2>2. CASE CloseOld(m) \/ Commit(m) \/ GraphWrite(m) \/ StartScan(m) \/ FinishScan(m)
    BY <1>2, <1>3, <2>2 DEF CloseOld, Commit, GraphWrite, StartScan, FinishScan, redis, searchVars
  <2>3. QED BY <1>9, <2>1, <2>2 DEF MutationStep
<1>10. CASE \E m \in Mutators : MutationStart(m) \/ MutationDies(m)
  BY <1>2, <1>3, <1>10 DEF MutationStart, MutationDies, redis, searchVars
<1>11. CASE \E s \in Searchers, k \in Keys : SearchHit(s, k) \/ SearchMiss(s, k)
  BY <1>2, <1>3, <1>11 DEF SearchHit, SearchMiss, redis, searchVars
<1>12. CASE RedisDown \/ RedisBack \/ UNCHANGED vars
  BY <1>2, <1>3, <1>12 DEF RedisDown, RedisBack, vars, redis, searchVars
<1>13. CASE \E m \in Mutators, k \in Matched : DeleteKey(m, k)
  BY <1>8, <1>13 DEF DeleteKey
<1>14. CASE \E k \in Keys : Expire(k)
  BY <1>8, <1>14 DEF Expire
<1>15. QED BY <1>4, <1>6, <1>7, <1>9, <1>10, <1>11, <1>12, <1>13, <1>14 DEF Next, SearchStep

\* Every variable keeps to its type; above all, the stores see no more writes
\* than the mutations that were started have to make.
THEOREM TypeCorrect == Spec => []TypeOK
<1>1. Init => WritesCounted /\ ValuesTyped
  <2> SUFFICES ASSUME Init PROVE WritesCounted /\ ValuesTyped
    OBVIOUS
  <2>1. ASSUME NEW labels, "idle" \notin labels PROVE Pending(labels) = {}
    BY <2>1 DEF Init, Pending
  <2>2. /\ Pending({"close", "commit"}) = {} /\ Pending({"close"}) = {}
        /\ Pending({"close", "commit", "graph"}) = {}
    BY <2>1
  <2>3. WritesCounted
    <3>1. pg = 0 /\ graph = 0 /\ started = 0
      BY DEF Init
    <3>2. IsFiniteSet({}) /\ Cardinality({}) = 0
      BY FS_EmptySet
    <3>3. 0 \in 0 .. MaxMutations
      BY MaxMutationsAssumption
    <3>4. QED BY <2>2, <3>1, <3>2, <3>3 DEF WritesCounted
  <2>4. ValuesTyped
    <3>1. Nothing \in Results
      BY MaxMutationsAssumption DEF Nothing, Results, Versions
    <3>2. DOMAIN cache = {}
      BY DEF Init
    <3>3. redisUp \in BOOLEAN /\ faulty \in BOOLEAN /\ seen \in [Searchers -> Results]
      BY <3>1 DEF Init
    <3>4. QED BY <3>2, <3>3 DEF ValuesTyped
  <2>5. QED BY <2>3, <2>4
<1>2. IInv /\ (WritesCounted /\ ValuesTyped) /\ [Next]_vars => (WritesCounted /\ ValuesTyped)'
  BY WritesNext, ValuesNext
<1>3. IInv /\ (WritesCounted /\ ValuesTyped) => TypeOK
  BY VersionsBounded DEF IInv, Typed, WritesCounted, ValuesTyped, TypeOK
<1>4. QED BY <1>1, <1>2, <1>3, InitInv, NextInv, PTL DEF Spec
=============================================================================
