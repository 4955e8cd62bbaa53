---------------------------- MODULE SearchCache -----------------------------
(***************************************************************************)
(* The memory routes and their Redis cache (app/routers/memories.py), for  *)
(* one user.  A search reads the cache, then Postgres, then Neo4j, then    *)
(* writes the cache: four awaits.  An add or a delete changes Postgres and *)
(* Neo4j, and only then scans the user's keys and deletes them one by one. *)
(* Every cache helper swallows its exceptions.                             *)
(*                                                                         *)
(* What a search returns is abstracted to the versions of the two stores   *)
(* it has read; a key is the tuple (top_k, q), which the text              *)
(* "memory-search:{user}:{top_k}:{q}" determines as long as user ids hold  *)
(* no colon.  The invalidation's pattern "memory-search:{user}:*" is a     *)
(* Redis glob with the user id as it came: an id such as team[1] is not    *)
(* matched by itself, nor is one with a backslash, so Matched says which   *)
(* of the keys the pattern matches.  An id with * or ? matches the keys of *)
(* other users too: theirs then go early, as they do when they expire.     *)
(***************************************************************************)
EXTENDS Naturals, FiniteSets, Functions

CONSTANTS Searchers,     \* search requests in flight
          Mutators,      \* add and delete requests in flight
          Keys,          \* (top_k, q) pairs
          Matched,       \* those whose text the user's pattern matches
          MaxMutations,  \* bound on the mutations ever started
          AllowFaults    \* Redis goes away, requests die

ASSUME MatchedAssumption == Matched \subseteq Keys
ASSUME AllowFaultsAssumption == AllowFaults \in BOOLEAN
ASSUME MaxMutationsAssumption == MaxMutations \in Nat

VARIABLES
    pg,        \* version of the user's rows in Postgres: commits so far
    graph,     \* version of the user's edges in Neo4j: writes so far
    cache,     \* the keys present in Redis and what they hold
    redisUp,   \* whether Redis answers
    spc,       \* the await a search is at
    key,       \* the key it was asked for
    seen,      \* the versions it has read
    mpc,       \* the await a mutation is at
    todo,      \* the keys its scan is bound to return and has not deleted yet
    started,   \* mutations started
    faulty     \* history: Redis has been away, or a request has died

stores == <<pg, graph>>
redis == <<cache, redisUp>>
searchVars == <<spc, key, seen>>
mutationVars == <<mpc, todo, started>>
vars == <<stores, redis, searchVars, mutationVars, faulty>>

Versions == 0 .. 2 * MaxMutations
Results == [pg : Versions, graph : Versions]
Entries == [pg : Versions, graph : Versions, raced : BOOLEAN]
None == "none"
Nothing == [pg |-> 0, graph |-> 0]

TypeOK ==
    /\ pg \in Versions /\ graph \in Versions
    /\ DOMAIN cache \subseteq Keys
    /\ \A k \in DOMAIN cache : cache[k] \in Entries
    /\ redisUp \in BOOLEAN
    /\ spc \in [Searchers -> {"idle", "rows", "graph", "set"}]
    /\ key \in [Searchers -> Keys \cup {None}]
    /\ seen \in [Searchers -> Results]
    /\ mpc \in [Mutators -> {"idle", "close", "commit", "graph", "scan", "delete"}]
    /\ todo \in [Mutators -> SUBSET Keys]
    /\ started \in 0 .. MaxMutations
    /\ faulty \in BOOLEAN

Init ==
    /\ pg = 0 /\ graph = 0
    /\ cache = [k \in {} |-> Nothing]
    /\ redisUp = TRUE
    /\ spc = [s \in Searchers |-> "idle"]
    /\ key = [s \in Searchers |-> None]
    /\ seen = [s \in Searchers |-> Nothing]
    /\ mpc = [m \in Mutators |-> "idle"]
    /\ todo = [m \in Mutators |-> {}]
    /\ started = 0
    /\ faulty = FALSE

-----------------------------------------------------------------------------
(* Redis.                                                                  *)

\* A removed key may come back before a scan is over, and SCAN promises to
\* return only what was there from its start to its end.
Remove(k) ==
    /\ cache' = Restrict(cache, DOMAIN cache \ {k})
    /\ todo' = [m \in Mutators |-> todo[m] \ {k}]

\* mutant: set without the expiry.
NeverExpire(k) == FALSE /\ UNCHANGED vars

\* setex(key, 60, ...): 60 seconds after it was written.
Expire(k) ==
    /\ k \in DOMAIN cache
    /\ Remove(k)
    /\ UNCHANGED <<stores, redisUp, searchVars, mpc, started, faulty>>

RedisDown ==
    /\ AllowFaults /\ redisUp
    /\ redisUp' = FALSE
    /\ faulty' = TRUE
    /\ UNCHANGED <<stores, cache, searchVars, mutationVars>>

RedisBack ==
    /\ ~redisUp
    /\ redisUp' = TRUE
    /\ UNCHANGED <<stores, cache, searchVars, mutationVars, faulty>>

-----------------------------------------------------------------------------
(* GET /v1/memories/search                                                 *)

SearchHit(s, k) ==
    /\ spc[s] = "idle"
    /\ redisUp /\ k \in DOMAIN cache
    /\ UNCHANGED <<stores, redis, searchVars, mutationVars, faulty>>

\* _cache_get returns None: no such key, or no Redis.
SearchMiss(s, k) ==
    /\ spc[s] = "idle"
    /\ ~redisUp \/ k \notin DOMAIN cache
    /\ spc' = [spc EXCEPT ![s] = "rows"]
    /\ key' = [key EXCEPT ![s] = k]
    /\ UNCHANGED <<stores, redis, seen, mutationVars, faulty>>

\* backend.search: the active rows, then the graph's memory ids.
ReadRows(s) ==
    /\ spc[s] = "rows"
    /\ seen' = [seen EXCEPT ![s].pg = pg]
    /\ spc' = [spc EXCEPT ![s] = "graph"]
    /\ UNCHANGED <<stores, redis, key, mutationVars, faulty>>

ReadGraph(s) ==
    /\ spc[s] = "graph"
    /\ seen' = [seen EXCEPT ![s].graph = graph]
    /\ spc' = [spc EXCEPT ![s] = "set"]
    /\ UNCHANGED <<stores, redis, key, mutationVars, faulty>>

SearchDone(s) ==
    /\ spc' = [spc EXCEPT ![s] = "idle"]
    /\ key' = [key EXCEPT ![s] = None]
    /\ seen' = [seen EXCEPT ![s] = Nothing]

\* Whether the stores have moved on since the search read them.
Outrun(s) == seen[s].pg # pg \/ seen[s].graph # graph

\* mutant: the key is taken from the search after it is done.
CacheSetUnkeyed(s) ==
    /\ spc[s] = "set"
    /\ cache' = [k \in DOMAIN cache \cup {None} |->
                   [pg |-> seen[s].pg, graph |-> seen[s].graph, raced |-> Outrun(s)]]
    /\ SearchDone(s)
    /\ UNCHANGED <<stores, redisUp, mutationVars, faulty>>

\* _cache_set, whatever has happened to the stores or the key meanwhile; a
\* Redis that does not answer is ignored.
CacheSet(s) ==
    /\ spc[s] = "set"
    /\ \/ /\ redisUp
          /\ cache' = [k \in DOMAIN cache \cup {key[s]} |->
                         IF k = key[s]
                         THEN [pg |-> seen[s].pg, graph |-> seen[s].graph,
                               raced |-> Outrun(s)]
                         ELSE cache[k]]
       \/ /\ ~redisUp
          /\ UNCHANGED cache
    /\ SearchDone(s)
    /\ UNCHANGED <<stores, redisUp, mutationVars, faulty>>

SearchDies(s) ==
    /\ AllowFaults
    /\ spc[s] # "idle"
    /\ SearchDone(s)
    /\ faulty' = TRUE
    /\ UNCHANGED <<stores, redis, mutationVars>>

-----------------------------------------------------------------------------
(* POST /v1/memories and DELETE /v1/memories/{memory_id}                   *)

MutationDone(m) ==
    /\ mpc' = [mpc EXCEPT ![m] = "idle"]
    /\ todo' = [todo EXCEPT ![m] = {}]

\* An update closes the old edge before it commits; an add of something new
\* and a delete commit first; an add that stores nothing only invalidates.
MutationStart(m) ==
    /\ mpc[m] = "idle"
    /\ started < MaxMutations
    /\ started' = started + 1
    /\ \E first \in {"close", "commit", "scan"} : mpc' = [mpc EXCEPT ![m] = first]
    /\ UNCHANGED <<stores, redis, searchVars, todo, faulty>>

CloseOld(m) ==
    /\ mpc[m] = "close"
    /\ graph' = graph + 1
    /\ mpc' = [mpc EXCEPT ![m] = "commit"]
    /\ UNCHANGED <<pg, redis, searchVars, todo, started, faulty>>

Commit(m) ==
    /\ mpc[m] = "commit"
    /\ pg' = pg + 1
    /\ mpc' = [mpc EXCEPT ![m] = "graph"]
    /\ UNCHANGED <<graph, redis, searchVars, todo, started, faulty>>

\* The upsert of an add, the close of a delete.
GraphWrite(m) ==
    /\ mpc[m] = "graph"
    /\ graph' = graph + 1
    /\ mpc' = [mpc EXCEPT ![m] = "scan"]
    /\ UNCHANGED <<pg, redis, searchVars, todo, started, faulty>>

\* mutant: the pattern matches the keys of no user.
MatchingNone == {}

\* What SCAN MATCH memory-search:{user}:* is bound to return.
Matching == DOMAIN cache \cap Matched

\* _cache_delete_user starts its scan.
StartScan(m) ==
    /\ mpc[m] = "scan"
    /\ redisUp
    /\ todo' = [todo EXCEPT ![m] = Matching]
    /\ mpc' = [mpc EXCEPT ![m] = "delete"]
    /\ UNCHANGED <<stores, redis, searchVars, started, faulty>>

\* It deletes a key it is bound to see, or one that has come up meanwhile.
DeleteKey(m, k) ==
    /\ mpc[m] = "delete"
    /\ redisUp
    /\ k \in DOMAIN cache \cap Matched
    /\ Remove(k)
    /\ UNCHANGED <<stores, redisUp, searchVars, mpc, started, faulty>>

\* The scan is over, or Redis has gone away under it: the client is told.
FinishScan(m) ==
    /\ mpc[m] \in {"scan", "delete"}
    /\ ~redisUp \/ (mpc[m] = "delete" /\ todo[m] = {})
    /\ MutationDone(m)
    /\ UNCHANGED <<stores, redis, searchVars, started, faulty>>

\* The backend raises, or the process dies: nothing is invalidated.
MutationDies(m) ==
    /\ AllowFaults
    /\ mpc[m] # "idle"
    /\ MutationDone(m)
    /\ faulty' = TRUE
    /\ UNCHANGED <<stores, redis, searchVars, started>>

-----------------------------------------------------------------------------
SearchStep(s) == ReadRows(s) \/ ReadGraph(s) \/ CacheSet(s)

MutationStep(m) ==
    \/ CloseOld(m)
    \/ Commit(m)
    \/ GraphWrite(m)
    \/ StartScan(m)
    \/ \E k \in todo[m] : DeleteKey(m, k)
    \/ FinishScan(m)

Next ==
    \/ \E s \in Searchers, k \in Keys : SearchHit(s, k) \/ SearchMiss(s, k)
    \/ \E s \in Searchers : SearchStep(s) \/ SearchDies(s)
    \/ \E m \in Mutators : MutationStart(m) \/ MutationStep(m) \/ MutationDies(m)
    \/ \E m \in Mutators, k \in Matched : DeleteKey(m, k)
    \/ \E k \in Keys : Expire(k)
    \/ RedisDown
    \/ RedisBack

Spec == Init /\ [][Next]_vars

\* Requests that have started run on, and Redis expires what it was told to
\* expire.  Nobody needs to search or mutate, and Redis need not come back.
FairSpec ==
    /\ Spec
    /\ \A s \in Searchers : WF_vars(SearchStep(s))
    /\ \A m \in Mutators : WF_vars(MutationStep(m))
    /\ \A k \in Keys : WF_vars(Expire(k))

-----------------------------------------------------------------------------
\* The cache holds an answer the stores would no longer give.
Stale(k) == k \in DOMAIN cache /\ (cache[k].pg # pg \/ cache[k].graph # graph)

\* A mutation that has changed a store and may still delete key k.
Invalidating(m, k) ==
    \/ mpc[m] \in {"commit", "graph", "scan"}
    \/ mpc[m] = "delete" /\ k \in todo[m]

\* Of the keys its pattern matches, invalidation misses nothing but one race:
\* while Redis answers and nobody dies, a stale entry is about to be deleted
\* by the mutation that made it stale, or was written by a search that the
\* stores had outrun.
StaleIsExplained ==
    ~faulty => \A k \in Matched :
        Stale(k) => cache[k].raced \/ \E m \in Mutators : Invalidating(m, k)

\* Whatever fails, and however searches and mutations interleave, the cache
\* stops serving old answers once mutations stop.
CacheConverges == <>[](\A k \in Keys : ~Stale(k))

\* A search after a mutation's answer does not return what the mutation took
\* away (tests/test_api_memories.py): once every mutation has answered, a hit
\* returns the rows that Postgres holds.
HitsAreCurrent ==
    ~faulty /\ (\A m \in Mutators : mpc[m] = "idle")
        => \A k \in DOMAIN cache : cache[k].pg = pg
=============================================================================
