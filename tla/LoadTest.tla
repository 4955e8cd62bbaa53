------------------------------ MODULE LoadTest ------------------------------
(***************************************************************************)
(* The load driver (scripts/loadtest.py) and as much of the API as it      *)
(* measures: the search cache, the connection pool of each API process     *)
(* (app/db/session.py) and the search histogram that /metrics exposes.     *)
(*                                                                         *)
(* A sweep is a ladder of levels.  A level has a deadline, reads the       *)
(* histogram, runs its workers in a closed loop until the deadline has     *)
(* passed, waits for all of them and reads the histogram again.  A search  *)
(* for "{term} {nonce}" is known by its nonce, since the term follows from *)
(* it.  A request the client gives up on stays with the server, in a slot  *)
(* of its own, and is carried out later.                                   *)
(*                                                                         *)
(* A definition marked "mutant" is no part of the model: see MemoryStore.  *)
(***************************************************************************)
EXTENDS Naturals, FiniteSets, Sequences

CONSTANTS Sweep,        \* the concurrency of each level, in order
          Stride,       \* 1_000_000: the distance between two workers' nonces
          Cycle,        \* 100: a share of each so many nonces are writes
          WriteShares,  \* the shares a sweep may be run with; 0 is no writes
          PoolSize,     \* pool_size + max_overflow of the API process
          MaxRequests,  \* bound on the requests of a level
          MaxGiveUps,   \* bound on the requests given up in a sweep
          AllowFaults   \* whether requests fail

ASSUME SweepAssumption == Sweep \in Seq(Nat \ {0}) /\ Sweep # <<>>
ASSUME NoncesAssumption ==
    /\ Cycle \in Nat \ {0}
    /\ Stride \in Nat \ {0}
    /\ Stride % Cycle = 0
    /\ WriteShares \subseteq 0 .. Cycle
ASSUME BoundsAssumption ==
    /\ PoolSize \in Nat \ {0}
    /\ MaxRequests \in 0 .. Stride
    /\ MaxGiveUps \in Nat
ASSUME AllowFaultsAssumption == AllowFaults \in BOOLEAN

Levels == 1 .. Len(Sweep)
Concurrency(l) == 0 .. Sweep[l] - 1
Workers == UNION {Concurrency(l) : l \in Levels}
GivenUp == [giveUp : 1 .. MaxGiveUps]
Slots == [worker : Workers] \cup GivenUp
Slot(w) == [worker |-> w]
Nonces == {w * Stride + i : w \in Workers, i \in 0 .. MaxRequests - 1}

Calls == [stage : {"arrived", "pool", "query"}, nonce : Nonces]
NoCall == [stage |-> "none"]
Results == [requests : Nat, errors : Nat, latencies : Nat, averaged : Nat]
NoResult == [requests |-> 0, errors |-> 0, latencies |-> 0, averaged |-> 0]

VARIABLES
    share,     \* write_ratio * 100
    phase,     \* where main and _run_level are
    level,     \* the level of the sweep
    n,         \* counter["n"]
    expired,   \* the level's deadline has passed
    left,      \* workers that have left their loop
    result,    \* the level's LevelResult; averaged is count1 - count0
    before,    \* count0
    call,      \* the request a slot has in the API
    cached,    \* the searches the cache may hold an answer to
    inUse,     \* connections checked out of the pool
    searches,  \* the histogram's count of searches
    sent,      \* history: nonces sent in this level
    seen,      \* history: nonces sent before this level
    hits,      \* history: searches of this level answered from the cache
    answered,  \* history: searches of this level that were answered
    abandoned, \* history: requests given up in this sweep, and in this level
    scraped    \* history: both reads of this level's histogram were answered

driverVars == <<phase, level, n, expired, left, result, before>>
apiVars == <<call, cached, inUse, searches>>
historyVars == <<sent, seen, hits, answered, abandoned, scraped>>
vars == <<share, driverVars, apiVars, historyVars>>

TypeOK ==
    /\ share \in WriteShares
    /\ phase \in {"seed", "start", "before", "load", "after", "summary", "done", "dead"}
    /\ level \in Levels
    /\ n \in 0 .. MaxRequests
    /\ expired \in BOOLEAN
    /\ left \subseteq Concurrency(level)
    /\ result \in Results
    /\ before \in Nat
    /\ call \in [Slots -> Calls \cup {NoCall}]
    /\ cached \cup sent \cup seen \cup hits \subseteq Nonces
    /\ inUse \in 0 .. PoolSize
    /\ searches \in Nat
    /\ answered \in Nat
    /\ abandoned \in [sweep : 0 .. MaxGiveUps, level : 0 .. MaxGiveUps]
    /\ scraped \in BOOLEAN

\* The answers of an earlier sweep have expired.
Init ==
    /\ share \in WriteShares
    /\ phase = "seed"
    /\ level = 1
    /\ n = 0
    /\ expired = FALSE
    /\ left = {}
    /\ result = NoResult
    /\ before = 0
    /\ call = [s \in Slots |-> NoCall]
    /\ cached = {}
    /\ inUse = 0
    /\ searches = 0
    /\ sent = {}
    /\ seen = {}
    /\ hits = {}
    /\ answered = 0
    /\ abandoned = [sweep |-> 0, level |-> 0]
    /\ scraped = TRUE

IsWrite(nonce) == nonce % Cycle < share

-----------------------------------------------------------------------------
(* The driver: main and _run_level.                                        *)

\* _seed: fifty adds, one after the other, of which any may be refused;
\* --no-seed leaves it out.
Seed ==
    /\ phase = "seed"
    /\ phase' = "start"
    /\ UNCHANGED <<share, level, n, expired, left, result, before, apiVars,
                   historyVars>>

\* An exception of _seed is not caught: the script ends with it.
SeedFails ==
    /\ AllowFaults
    /\ phase = "seed"
    /\ phase' = "dead"
    /\ UNCHANGED <<share, level, n, expired, left, result, before, apiVars,
                   historyVars>>

\* _run_level is called: a new result, deadline and counter.
StartLevel ==
    /\ phase = "start"
    /\ phase' = "before"
    /\ n' = 0
    /\ expired' = FALSE
    /\ left' = {}
    /\ result' = NoResult
    /\ sent' = {}
    /\ hits' = {}
    /\ answered' = 0
    /\ abandoned' = [abandoned EXCEPT !.level = 0]
    /\ scraped' = TRUE
    /\ UNCHANGED <<share, level, before, apiVars, seen>>

\* Time passes, and with it the level's deadline.
Deadline ==
    /\ phase \in {"before", "load"}
    /\ ~expired
    /\ expired' = TRUE
    /\ UNCHANGED <<share, phase, level, n, left, result, before, apiVars,
                   historyVars>>

\* _read_search_metric: (0, 0) if /metrics does not answer.
ReadMetric(answers) == IF answers THEN searches ELSE 0

ReadBefore(answers) ==
    /\ phase = "before"
    /\ answers \/ AllowFaults
    /\ phase' = "load"
    /\ before' = ReadMetric(answers)
    /\ scraped' = answers
    /\ UNCHANGED <<share, level, n, expired, left, result, apiVars, sent,
                   seen, hits, answered, abandoned>>

\* mutant: every worker counts for itself.
OwnNonces(w) == w + n

\* local + counter["n"]
Nonce(w) == w * Stride + n

\* One turn of a worker's loop: nothing is awaited between taking the nonce
\* and counting it.
Send(w) ==
    /\ phase = "load"
    /\ w \in Concurrency(level) \ left
    /\ call[Slot(w)] = NoCall
    /\ ~expired
    /\ n < MaxRequests
    /\ n' = n + 1
    /\ call' = [call EXCEPT ![Slot(w)] =
                  [stage |-> "arrived", nonce |-> Nonce(w)]]
    /\ sent' = sent \cup {Nonce(w)}
    /\ UNCHANGED <<share, phase, level, expired, left, result, before,
                   cached, inUse, searches, seen, hits, answered, abandoned,
                   scraped>>

\* mutant: a worker tries again until nothing has failed.
LeaveClean(w) ==
    /\ phase = "load"
    /\ w \in Concurrency(level) \ left
    /\ call[Slot(w)] = NoCall
    /\ expired
    /\ result.errors = 0
    /\ left' = left \cup {w}
    /\ UNCHANGED <<share, phase, level, n, expired, result, before, apiVars,
                   historyVars>>

Leave(w) ==
    /\ phase = "load"
    /\ w \in Concurrency(level) \ left
    /\ call[Slot(w)] = NoCall
    /\ expired
    /\ left' = left \cup {w}
    /\ UNCHANGED <<share, phase, level, n, expired, result, before, apiVars,
                   historyVars>>

\* httpx.HTTPError, no answer in time or at all: counted, without latency.
\* The server goes on with the request.
GiveUp(w, g) ==
    /\ AllowFaults
    /\ call[Slot(w)] # NoCall
    /\ call[g] = NoCall
    /\ abandoned.sweep < MaxGiveUps
    /\ call' = [call EXCEPT ![Slot(w)] = NoCall, ![g] = call[Slot(w)]]
    /\ result' = [result EXCEPT !.requests = @ + 1, !.errors = @ + 1]
    /\ abandoned' = [sweep |-> abandoned.sweep + 1, level |-> abandoned.level + 1]
    /\ UNCHANGED <<share, phase, level, n, expired, left, before, cached,
                   inUse, searches, sent, seen, hits, answered, scraped>>

\* mutant: the first worker to return ends the level.
GatherFirst ==
    /\ phase = "load"
    /\ left # {}
    /\ phase' = "after"
    /\ UNCHANGED <<share, level, n, expired, left, result, before, apiVars,
                   historyVars>>

\* asyncio.gather returns when every worker has.
Gather ==
    /\ phase = "load"
    /\ left = Concurrency(level)
    /\ phase' = "after"
    /\ UNCHANGED <<share, level, n, expired, left, result, before, apiVars,
                   historyVars>>

\* The window's mean is of count1 - count0 searches, if there are any.
ReadAfter(answers) ==
    /\ phase = "after"
    /\ answers \/ AllowFaults
    /\ phase' = "summary"
    /\ result' = [result EXCEPT !.averaged =
                    IF ReadMetric(answers) > before THEN searches - before ELSE 0]
    /\ scraped' = (scraped /\ answers)
    /\ seen' = seen \cup sent
    /\ UNCHANGED <<share, level, n, expired, left, before, apiVars, sent,
                   hits, answered, abandoned>>

\* The summary is printed; the next level, or the end of the sweep.
NextLevel ==
    /\ phase = "summary"
    /\ \/ /\ level < Len(Sweep)
          /\ level' = level + 1
          /\ phase' = "start"
          /\ left' = {}
       \/ /\ level = Len(Sweep)
          /\ phase' = "done"
          /\ UNCHANGED <<level, left>>
    /\ UNCHANGED <<share, n, expired, result, before, apiVars, historyVars>>
-----------------------------------------------------------------------------
(* The API, as far as a search or an add is measured by it.                *)

\* A response that arrives is a request with a latency.
Answered(s, ok) ==
    /\ call' = [call EXCEPT ![s] = NoCall]
    /\ result' = IF s \in GivenUp THEN result
                 ELSE [result EXCEPT !.requests = @ + 1, !.latencies = @ + 1,
                                     !.errors = IF ok THEN @ ELSE @ + 1]
    /\ answered' = IF s \in GivenUp \/ IsWrite(call[s].nonce)
                   THEN answered ELSE answered + 1

\* record_operation_latency("search"): hits and failures too, but no adds.
Recorded(s) ==
    IF IsWrite(call[s].nonce) THEN searches ELSE searches + 1

Moves(s, from, to) ==
    /\ call[s] # NoCall
    /\ call[s].stage = from
    /\ call' = [call EXCEPT ![s].stage = to]

\* mutant: a hit is not recorded.
HitUnrecorded(s) ==
    /\ call[s] # NoCall
    /\ call[s].stage = "arrived"
    /\ ~IsWrite(call[s].nonce)
    /\ call[s].nonce \in cached
    /\ Answered(s, TRUE)
    /\ hits' = IF s \in GivenUp THEN hits ELSE hits \cup {call[s].nonce}
    /\ UNCHANGED <<share, phase, level, n, expired, left, before, cached,
                   inUse, searches, sent, seen, abandoned, scraped>>

\* The cache holds an answer: no connection is needed.
Hit(s) ==
    /\ call[s] # NoCall
    /\ call[s].stage = "arrived"
    /\ ~IsWrite(call[s].nonce)
    /\ call[s].nonce \in cached
    /\ Answered(s, TRUE)
    /\ searches' = Recorded(s)
    /\ hits' = IF s \in GivenUp THEN hits ELSE hits \cup {call[s].nonce}
    /\ UNCHANGED <<share, phase, level, n, expired, left, before, cached,
                   inUse, sent, seen, abandoned, scraped>>

\* The cache holds none, any longer, or Redis does not answer; or an add.
Miss(s) ==
    /\ Moves(s, "arrived", "pool")
    /\ UNCHANGED <<share, driverVars, cached, inUse, searches, historyVars>>

\* mutant: max_overflow is counted from one.
ConnectionLate == inUse <= PoolSize

Connection == inUse < PoolSize

Checkout(s) ==
    /\ Moves(s, "pool", "query")
    /\ Connection
    /\ inUse' = inUse + 1
    /\ UNCHANGED <<share, driverVars, cached, searches, historyVars>>

\* Every connection stays in use for pool_timeout: a 500.
PoolTimeout(s) ==
    /\ call[s] # NoCall
    /\ call[s].stage = "pool"
    /\ ~Connection
    /\ Answered(s, FALSE)
    /\ searches' = Recorded(s)
    /\ UNCHANGED <<share, phase, level, n, expired, left, before, cached,
                   inUse, sent, seen, hits, abandoned, scraped>>

\* The stores have answered: the answer is cached, or after an add every
\* answer of the user forgotten, if Redis lets it.  Or the request fails.
\* The session is closed, and its connection is back, however it ends.
Finish(s, ok) ==
    /\ call[s] # NoCall
    /\ call[s].stage = "query"
    /\ ok \/ AllowFaults
    /\ \/ ~ok /\ UNCHANGED cached
       \/ ok /\ ~IsWrite(call[s].nonce) /\ cached' \in {cached, cached \cup {call[s].nonce}}
       \/ ok /\ IsWrite(call[s].nonce) /\ cached' \in {{}, cached}
    /\ inUse' = inUse - 1
    /\ Answered(s, ok)
    /\ searches' = Recorded(s)
    /\ UNCHANGED <<share, phase, level, n, expired, left, before, sent,
                   seen, hits, abandoned, scraped>>

-----------------------------------------------------------------------------
Drive ==
    \/ Seed
    \/ SeedFails
    \/ StartLevel
    \/ \E answers \in BOOLEAN : ReadBefore(answers) \/ ReadAfter(answers)
    \/ \E w \in Workers : Leave(w) \/ Send(w)
    \/ Gather
    \/ NextLevel

Serve(s) ==
    \/ Hit(s)
    \/ Miss(s)
    \/ Checkout(s)
    \/ PoolTimeout(s)
    \/ \E ok \in BOOLEAN : Finish(s, ok)

Next ==
    \/ Drive
    \/ Deadline
    \/ \E s \in Slots : Serve(s)
    \/ \E w \in Workers, g \in GivenUp : GiveUp(w, g)

Spec == Init /\ [][Next]_vars

\* The driver runs whatever is ready, time passes, and every request comes to
\* an answer: a wait for the pool ends, with a connection or after
\* pool_timeout, and so do the stores' answers.
FairSpec ==
    /\ Spec
    /\ WF_vars(Drive)
    /\ WF_vars(Deadline)
    /\ \A s \in Slots : WF_vars(Serve(s))

-----------------------------------------------------------------------------
\* "Appending a nonce forces a cache miss every request" (loadtest.py): no
\* search of a sweep is answered from the cache.
EverySearchMisses == hits = {}

\* What the nonces do achieve: within a level no search is repeated, so an
\* answer from the cache is one that an earlier level asked for; whatever is
\* given up, carried out late or interleaved.
HitsRepeatEarlierLevels == hits \subseteq seen

\* A summary counts every request that was sent once: with a latency if it
\* was answered, without if it was given up, and nothing is under way.
SummaryAddsUp ==
    phase = "summary" =>
        /\ result.requests = n
        /\ result.latencies + abandoned.level = n
        /\ result.errors >= abandoned.level
        /\ \A w \in Workers : call[Slot(w)] = NoCall

\* "the server-observed mean over the window" (loadtest.py): if both reads
\* were answered, the mean is of the searches the level was answered, hits and
\* failures included, and of no others but those the sweep had given up.
ServerMeanIsOfTheLevel ==
    phase = "summary" /\ scraped =>
        result.averaged \in answered .. answered + abandoned.sweep

\* A sweep comes to an end: a level's workers stop after the deadline, even
\* when the pool is exhausted by requests that were given up.
SweepEnds == <>(phase \in {"done", "dead"})
=============================================================================
