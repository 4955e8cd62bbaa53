# A verification of MemGauge in TLA+

TLA+ modules that model MemGauge's stateful core, TLC configurations that check
them on small instances, and theorems that TLAPS proves for every instance. All
line numbers are those of `src/`; `PROJECT.json` maps every definition to the
lines it models and lists runs, mutants, findings, hazards and theorems.

## The system

MemGauge stores facts ("Ada likes tea") for users, finds them again, and
measures how well a memory backend does that.

| Component | State it keeps | Operations | Talks to |
| --- | --- | --- | --- |
| Mock backend, `app/memory/mock_backend.py` | none of its own; one session and one graph client per request | `add`, `search`, `list`, `delete` | Postgres, Neo4j |
| Mem0 adapter, `app/memory/mem0_backend.py` | none; Mem0 has its own store | the same | Mem0, Postgres, Neo4j |
| Schema, `app/db/models.py` | `memories`, `memory_events`, `eval_runs`, `eval_case_results` | one transaction per commit | |
| Neo4j client, `app/graph/neo4j_client.py` | `RELATES_TO` edges, open while `valid_to IS NULL` | `run_read`, `run_write`, two attempts of 5 s each | |
| Memory routes, `app/routers/memories.py` | the search cache in Redis, 60 s | add, search, list, delete | a backend, Redis |
| Eval runner, `app/eval/*` | `eval_runs`, `data/baseline.json` | `run_eval` | a backend, all three stores |
| CI gate, `scripts/run_eval_ci.py` | `report.md` | `_main` | the runner |
| Report, `app/eval/report.py` | none | `GET /report`: the newest run beside the baseline there is by then | `eval_runs`, `data/baseline.json` |
| Rate limiter, `app/security.py` | a Redis counter per client and window, a dict per process | `allow` | Redis |
| Load driver, `scripts/loadtest.py` | one level's counter and result | a sweep of levels, each a closed loop of workers | the API, its connection pool and its search histogram |

Everything else (health and metrics routes, ranking and embeddings,
authentication, configuration, the other operational scripts) keeps no state of
its own or computes on floating point vectors; `PROJECT.json` lists it as not
modelled.

What is hard here:

* An `add` is five awaits over two stores that share no transaction. It looks
  for the fact it contradicts in Neo4j, and supersedes a row in Postgres; it
  closes the old edge *before* it commits, and opens the new one *after*.
  Requests interleave at every await, and each await may be the last.
* A graph write is tried twice. An attempt that timed out may have been carried
  out, may be carried out later, or never; the write that opens an edge is a
  `CREATE`.
* A search reads two stores and then writes a cache that mutations invalidate,
  in an order nobody controls; every Redis error is swallowed.
* Eval runs share the namespaces of the dataset and one baseline file.
* The limiter counts in Redis when it can, and in each process when it cannot.
* `baseline.json` is written in place, and read again by whoever makes a report.
* The load driver gives requests up that the API goes on with, and measures an
  API that still has them, and the answers of the level before, in its caches.

## Modules

| Module | What it is |
| --- | --- |
| `MemoryLedger` | What the backend promises about Postgres: whole, audited changes, no reactivation, supersession by later rows only. Abstract specification. |
| `MemoryStore` | The mock backend: the requests' awaits, both stores, the retry, late writes, dying requests. Implements `MemoryLedger`, which it takes by `INSTANCE MemoryLedger WITH rows <- rows, ...`. |
| `SearchCache` | The memory routes and their cache. |
| `EvalRun` | The eval runner, its classifier and scoring, the gate, the baseline file and its write in two halves, the CI report, the HTML report. |
| `Mem0Mirror` | The Mem0 backend: Mem0's store, the replay of its answers in Postgres and Neo4j, row locks and deadlocks. |
| `RateLimiter` | The rate limiter. |
| `LoadTest` | The load driver, with the cache, the connection pool and the histogram of the API it measures. |
| `MemoryStoreProofs`, `MemoryStoreGraphProofs`, `MemoryStoreSerialProofs`, `SearchCacheProofs`, `EvalRunProofs`, `Mem0MirrorProofs`, `RateLimiterProofs`, `LoadTestProofs` | Theorems about the module they are named after. |
| `MC*` | Instances for TLC. |

A definition marked "mutant" is not part of a model. It is a plausible bug in
the definition below it, and each property is shown to be violated when one such
bug is put in.

### MemoryStore

A request is a slot (`Requests`): `pc` names the await it is at, `want`, `mine`,
`victim` are `fact`, `memory.id` and `old_fact["memory_id"]`, `attempt` counts
`_with_retry`'s failures. The actions follow the code:

| Code (`mock_backend.py`) | Action |
| --- | --- |
| NOOP branch, 52-66 | `AddNoop` |
| `_find_active_fact`, 69 | `FindActiveFact` |
| `flush`, 71-83 | `Flush` |
| `_close_graph_fact(old)`, 90 | `CloseOld`, `CloseOldFails` |
| `commit`, 84-99 | `Commit` |
| `_upsert_graph_fact`, 103 | `Upsert`, `UpsertFails` |
| `delete`, 167-182 | `DeleteStart`, `DeleteMissing`, `CommitDelete`, `CloseDeleted`, `CloseDeletedFails` |
| a timed-out attempt carried out later | `Land` |
| exception, cancellation, crash: the session rolls back | `Die` |

Abstractions. A row id is its place in the order of `created_at`, which is what
the code orders by (`valid_from` is `created_at`); ids are given at the flush and
a rolled-back one is not given again. A subject is a `(user_id, entity,
predicate)`. `openEdges[m]` counts the open edges of a row; closed edges are
never looked at. The object a graph edge carries is that of its row.
`session.get` of the old row is taken together with the flush. Postgres is READ
COMMITTED, so `CommitDelete` and `Commit` write over what has been committed
since they read.

### SearchCache

What a search returns is abstracted to the versions of the two stores it read
(`pg`, `graph`), which is all that staleness depends on. A mutation is one of
three shapes: an update (close, commit, open), an add or delete (commit, then
graph), an add that stores nothing (invalidation only). `SCAN` returns every key
present from its start to its end and may return others (`todo`, `DeleteKey`).
The 60 seconds are an `Expire` that may come at any time and must come some time.

The invalidation scans for `memory-search:{user}:*`, and the user id is in that
pattern as it came. Redis reads it as a glob: an id such as `team[1]` or
`DOM\alice` does not match its own keys. `Matched` says which keys the pattern
matches, all or none of a user's in the code, and any in the theorems.
`StaleIsExplained` is about keys it matches, `CacheConverges` about all. An id with `*` or `?` also
matches other users' keys, which then go early. Ids hold no colon, so a key
belongs to one user and one query.

### EvalRun

A case has a namespace (`rows`, `active`, `edges`) that is fixed by the dataset.
The three sets of cases are the three kinds in `data/*.jsonl`: two facts about
different things (`Plain`), an old fact and its contradiction (`Contradicted`),
a fact flagged false (`Fabricated`). Uses are told apart: `"ci"` is one run at a
time on a backend that may have regressed (it may store nothing, and return any
of the rows it has), `"api"` is overlapping runs on the mock, an add at a time.
A committed run's result keeps what the metrics are made of; `faithful`,
`swept`, `found`, `lied` and `stored` are history that the properties are about.

Clearing a namespace is four steps: `SelectRows`, `DeleteRows`, and the two
graph writes `ClearNodes` and `ClearGraph`. The second deletes edges, and its
attempt may be cut off by the client's timeout (`ClearTimesOut`); it is sent
again, then the run fails, and what was cut off may be carried out at any time
after (`LandClear`): between two seeds of a run, too, where it takes away the
edge of the row that the second seed should supersede. Then both rows stay
active and the case is scored otherwise; `swept` remembers that. `ClearNodes`
deletes nodes that no lookup of the mock goes through, so when it lands makes
no difference. The writes of an add are whole here: one that lands late in a
cleared namespace opens an edge older than those of the seeds, which no lookup
prefers, of a row that is gone, and what it does to the edges of rows that are
there is in `MemoryStore`.

A database starts without runs, the file with no baseline or with the one that
comes with the repository (`Shipped`), whose run no database but its author's has.

`write_text` is two steps, `TruncateBaseline` and `FillBaseline`: in between,
and for good if the run dies there, the file is `Torn`. Every reader parses it
and raises, so a run after that ends in `JudgeFails` or before its first case,
also one that is told to set the baseline, since it reads the old one first: the
file has to be repaired by hand. The HTML report is what it shows of the two
gated metrics: `RecallRow` and `FalseFactRow` are a run's value and the value
`baseline.get(key, value) or value` puts beside it.

### Mem0Mirror

`client.add` has changed Mem0's store (`remote`) when it answers; the answer is a
list of items about different memories, each an ADD, UPDATE or DELETE. The loop
over them is `GetRow` (`session.get`), `FlushRow` (both flushes of
`_mirror_event`; the event's flush meets nobody), `GraphClose`, `GraphUpsert`,
`NextItem`, and `Commit` at its end. `tx` is what a request has flushed: the rows
it holds are locked, so another's statement on them waits (`Blockers`), an
`INSERT` of a row that has appeared since `session.get` fails (`FlushConflict`),
and a circle of waiting requests loses one (`AbortDeadlocked`).

Two habits of the ORM matter and are modelled. It leaves out of an UPDATE a
column that was assigned the value it had when read (`Turned`, `Worded`), so what
a late item does to `is_active` and to `content` depends on when the row was
read. (There is an UPDATE in any case: a vector is written even if it is equal.)
`reworded` remembers the rows that were given another text after a request had
read them that is to give them the text they had (`Repeats`). And it expires
`updated_at` after an UPDATE statement (`onupdate`), so that
`serialize_memory(memory)` of the first memory raises when that memory's row was
updated (`Unreadable`).

Abstractions. Memory ids are UUIDs, as Mem0's are; for another kind of id
`delete` would send Mem0 the UUID made of it. A text is a fact or plain. A graph
write is one step; its attempts and their late landing are in `MemoryStore`.
Events are kept as far as a row's latest event, the text of its latest ADD or
UPDATE, and whether it has a DELETE. What Mem0 decides is any choice its answer
format allows; deleting a memory it no longer has may succeed or raise.

### RateLimiter

One client, since no two share a counter. `asked` is the window in a request's
Redis key, chosen before `INCR`; `FallBack` is `_allow_memory`, with the Redis
command done or not. Redis keeps its counters while it is away.

### LoadTest

| Code (`loadtest.py`) | Action |
| --- | --- |
| `_seed` | `Seed`, `SeedFails` |
| `_run_level`: a new `LevelResult`, deadline and counter | `StartLevel` |
| `_read_search_metric`, twice | `ReadBefore`, `ReadAfter` |
| `worker`: a turn of the loop; its end | `Send`; `Leave` |
| `time.perf_counter() < deadline` | `expired`, set by `Deadline` |
| `except (httpx.HTTPError, TimeoutError)` | `GiveUp` |
| `asyncio.gather` | `Gather` |
| the loop over levels in `main` | `NextLevel` |
| the API: cache, session, stores, `record_operation_latency` | `Hit`, `Miss`, `Checkout`, `PoolTimeout`, `Finish` |

A worker's request is in the worker's slot; one that is given up moves to a slot
of `GivenUp` and goes on there, as the API does. `result` is the `LevelResult`:
requests, errors, the number of latencies, and the number of searches that the
server-observed mean is taken over (`count1 - count0`).

Abstractions. A query `"{term} {nonce}"` is known by its nonce, since the term
follows from it; the texts of adds are told apart by nothing here. One API
process, so every scrape reads the same histogram and every request the same
pool; a sum of the histogram goes with its count. The rate limiter is off, as
`docs/LOAD_TEST.md:21-25` says to run it. A request is given up with its
connection broken or its time run out; the API may not have begun it, be in the
middle, or wait for a connection. `PoolTimeout` needs a pool in use, not a pool
in use for all of `pool_timeout`. An add invalidates the user's answers or
Redis is away; an answer may be cached or not, and be gone at the next look.
What `/metrics` does besides (it refreshes two eval gauges, and swallows a
failure of that) does not change the count.

## Runs

| Run | Question | Bounds | States |
| --- | --- | --- | --- |
| `store` | What do the two stores and the audit trail agree on, is the ledger implemented, and does every request end? | three scopes: serial, 4 rows, 3 objects, 1 NOOP; concurrent, 2 requests, 3 rows; faults, 2 requests, 2 rows, 1 late write of a kind and row | 132 thousand |
| `store_contradiction` | Can contradicting facts both be active? | 3 rows, 1 request | violation |
| `store_orphan_edge` | Does the graph mirror the table when requests overlap? | 2 rows, 2 requests | violation |
| `cache` | What can be stale, and for how long? | two scopes, with faults: overlap, 2 searches, 2 mutations, 1 matched key; glob, 1 search, 2 mutations in turn, 2 keys, 1 of them matched | 677 thousand |
| `cache_race` | Is a hit current once the mutation has answered? | 1 of each | violation |
| `eval_gate` | What may the gate, the reports and the baseline be trusted with, and what does a run leave behind? | 2 runs, 2 cases; three scopes: gate, CI, no faults; leftover, CI, with faults; overlap, API, with faults | 1.3 million |
| `eval_vacuous_pass` | Does the gate catch every drop of recall? | 2 runs, 1 case | violation |
| `mem0_mirror` | When do the three stores agree, and what survives otherwise? | 2 requests, 3 calls, 2 items in an answer; two scopes: faults, 2 memories, 1 fault; rewrites, 3 memories, no faults | 418 thousand |
| `mem0_update` | Is every Mem0 operation mirrored? | 1 request, 3 calls, 1 item in an answer | violation |
| `rate_limiter` | Who is let through and who is throttled? | 4 requests, 2 workers, 2 windows, limit 1, with faults | 212 thousand |
| `load` | What are a level's figures made of, and does the sweep end? | levels of 1 and 2 workers, 2 requests a level, 2 given up, pool of 1, every second request a write or none | 405 thousand |
| `load_nonce` | Does the nonce force a cache miss every request? | the same levels, 1 request each, no faults | violation |

A run may explore several scopes, which its `MC` module defines: a scope bounds
what clients begin, what Mem0 or a regressed backend answers, and what fails; it
never stops a request or a run that has begun. The invariants of one request at
a time are named `Serial...` in `MCMemoryStore` and speak of that scope. In the
scopes `leftover` and `overlap` of `MCEvalRun` nothing goes wrong with a run
before its last case, one run overlaps another from that one's last case on, the
p95 check holds, and the file has no baseline or one shipped one.

Why the bounds are enough. Two requests are the least that interleave, and every
hazard listed is between two; three rows are the least for a restated and then
contradicted fact, four let another add follow; two rows under faults suffice
for one supersession with every failure around it. One subject: no action reads
or writes anything of another. One or two keys: keys meet only in the scan, which takes
them one at a time, and each is judged by itself. Two cases: a regular and a
fabricated one can make up for each other in the hit count, which is the one way
cases meet. `Plain` cases are in `eval_vacuous_pass`. With two cases the
tolerance of 0.05 is less than one case; the arithmetic is exact fractions, the
code's is floating point. Leftovers, late clears and overlaps meet in one
namespace, so it is enough that they do in the last case: the contradicted one,
in which the graph decides what is superseded. `eval_gate` takes runs as a
symmetric set (`AnyRun`), which is sound: it checks invariants, and runs are told
apart by what they do only. Limit 1 with four requests is past what Redis and two
workers may let through together, and two windows give one boundary to straddle.
Three calls: one to create two memories, and two that overlap on them, in either
order of the two; one fault in the first leaves memories without rows, which is
what a deadlock between two answers and a lost memory need. The scope
`rewrites` takes three memories: a row is rewritten under a request by an answer
that has the same memory second (one that begins with it is rolled back,
`mem0_update`), so each of the two answers has a new memory first, besides the
one they share. Two levels are the least
that can repeat each other's nonces, two workers in the second the least whose
nonces could meet (`Stride` is just past what a level sends); a pool of one is
exhausted by one given-up request, and a second one leaves its answer to a level
that did not ask.

`eval_*`, `mem0_*`, `rate_limiter` and `load*` do not check
deadlock: the runs, calls, requests or levels are bounded and the system
stops. `load` checks `SweepEnds` instead.
`mem0_mirror` checks `RequestsFinish` instead, which a deadlocked request would
violate.

### What the violations show

* `store_contradiction`: `LIMIT 1` supersedes one row, a restated fact has
  several. `SerialConflictNeedsRestatement` says that this is the only way, one
  request at a time.
* `store_orphan_edge`: a delete between an add's commit and its upsert leaves an
  open edge to an inactive row.
* `cache_race`: a search may cache what it read before a mutation after that
  mutation's invalidation. `StaleIsExplained` says that this is the only way
  while nothing fails, of keys that the pattern matches; `CacheConverges` that
  it passes.
* `eval_vacuous_pass`: an expected memory that was never stored is scored as
  nothing expected. `StoredRecallDropFails` is what the gate does catch.
* `mem0_update`: an answer whose first memory has a row that the answer changes
  is rolled back, after Mem0 and the graph have changed.
  `MirroredUnlessRolledBack` says that one at a time the stores agree otherwise.
* `load_nonce`: counter and worker ids begin anew with every level, within the
  60 seconds the answers of the level before are cached.
  `HitsRepeatEarlierLevels` says that within a level every search does miss.

Two more flaws are not shown by a run of their own, but by the exemption that a
property has to make. `StaleIsExplained` is false of keys that the pattern does
not match: with such a user id an answer cached before a mutation is served
after it, until it expires, although nothing overlapped or failed
(`memories.py:164`; the scope `glob` has such a key, and `CacheConverges` holds).
And `AuditExplainsRows` is false of a memory that was `reworded`: an answer that
gives a memory the text it had when read leaves `content` out of its UPDATE, so a
text committed in between stays in the row, under an event that says the other
and with the other's embedding (`mem0_backend.py:246`; the scope `rewrites` has
it). That each is the only exemption needed is what the properties say.

Known limits that are not findings: overlapping eval runs clear each other's
seeds (`LeftoversDoNotCount` is about runs one at a time), a clear of the graph
that was given up may land among the seeds of a later run and change its score
(`LeftoversDoNotCount` exempts what was `swept`), and overlapping
requests to the Mem0 backend may leave the stores disagreeing, by mirroring in
another order than Mem0 answered, a delete undone by a late update, or an edge
of an inactive row. `AuditExplainsRows`, `NothingLost` and
`OpenEdgesAccountedFor` are what is true of them. A baseline of zero made-up
facts is shown by the report as the run's own value, which `FailureIsShown` has
to except. A torn baseline stops every run, also the one that would replace it.
A mean of the load driver is of another population if a scrape failed, or if
several API processes answer `/metrics` in turn; nothing in the table says so.

### Fairness

`MemoryStore` and `SearchCache`: weak fairness of each request's own next step,
since every await returns (Postgres answers or raises, `wait_for` cuts a graph
attempt off, Redis has socket timeouts of a second) and the event loop runs what
is ready. No client need call, no late write need land, Redis need not come
back. `SearchCache` and `RateLimiter` also have Redis expire what it was told to
expire, and `RateLimiter` has time pass. `Mem0Mirror` assumes strong fairness of a
request's step, because a row lock may be taken again and again while it waits,
and Postgres grants locks in the order they were asked for; and that Postgres
breaks a deadlock, which it does after `deadlock_timeout`. `EvalRun` has no liveness property: a
run is a straight line. `LoadTest`: the driver runs what is ready, time passes,
and each request comes to an answer, since a wait for the pool ends with a
connection or with `pool_timeout` and the stores' calls are cut off. No request
need be given up and no cache entry need stay.

## Proofs

Every invariant that a passing run checks is a theorem, for every value of the
constants, with and without faults, from the named assumptions of the modules
only. These say: bounds and the limit are natural numbers and `AllowFaults` is
Boolean (all modules); the keys that the pattern matches are keys (`SearchCache`);
cases are finitely many numbers, and no run's id is one of the words that stand
for no baseline, a torn one or the shipped one (`EvalRun`); a text is no fact
and plain at once, and no text is `NoContent` (`Mem0Mirror`); there are finitely
many worker processes (`RateLimiter`, whose bound on failing open is a multiple
of their number); a level sends no more requests than lie between two workers'
nonces, of which the cycle of writes is a divisor (`LoadTest`: `1_000_000` and
`100` in the code); the slot of the serial scope is one of the slots
(`MCMemoryStore`). Two theorems have a hypothesis of their own, since a
cardinality is given a type in them: `TypeCorrect` of `RateLimiter` is for
finitely many requests, that of `EvalRun` for finitely many runs.

| Theorem | States |
| --- | --- |
| `MemoryStoreProofs!Invariance` | `Spec => []IInv` |
| `TypeCorrect` | `TypeOK` |
| `AuditTrailIsComplete` | `AuditExplainsState` |
| `SupersessionMovesForward` | `SupersededByNewer` |
| `GraphFollowsCommit` | `OpenEdgesCommitted` |
| `ImplementsLedger` | `LedgerSpec`: each step is one ledger step or a stutter |
| `MemoryStoreGraphProofs!ActiveRowsAreLinked` | `ActiveRowLinked` |
| `EdgesAreBounded` | `EdgesPerRow` |
| `MemoryStoreSerialProofs!GraphMirrorsTableSerially` | `SerialGraphMirrorsTable` |
| `ConflictsWereRestated` | `SerialConflictNeedsRestatement` |
| `UpdatesReplaceOne` | `SerialUpdateReplacesOne` |
| `SearchCacheProofs!OnlyOutrunSearchesStay` | `StaleIsExplained` |
| `TypeCorrect` | `TypeOK` |
| `EvalRunProofs!Invariance` | `Spec => []IInv` |
| `BaselineOfARun` | `BaselineIsCommitted` |
| `GateIsNotSkipped` | `GateSkippedOnlyBeforeBaseline` |
| `MadeUpFactsAreCaught` | `MadeUpFactsFail` |
| `RecallDropsAreCaught` | `StoredRecallDropFails` |
| `ReportTellsVerdict` | `ReportExplainsVerdict` |
| `FailuresAreShown` | `FailureIsShown` |
| `NothingIsLeftOver` | `Spec => [](IInv /\ LeftInv)` |
| `RunsAgree` | `LeftoversDoNotCount` |
| `TypeCorrect` | `TypeOK` |
| `Mem0MirrorProofs!MirrorIsGrounded` | `Spec => []IInv` |
| `RowsAreLocked` | `Spec => []Locked`: two requests never hold one row |
| `TextsGoTogether` | `Spec => []TextInv` |
| `RowsAreAudited` | `AuditExplainsRows` |
| `NoMemoryIsLost` | `NothingLost` |
| `NoEdgeWithoutWriter` | `OpenEdgesAccountedFor` |
| `AuditTrailReplays` | `AuditReplays` |
| `StoresAgree` | `MirroredUnlessRolledBack` |
| `TypeCorrect` | `TypeOK` |
| `RateLimiterProofs!Counted` | `Spec => []IInv` |
| `LimitIsShared` | `WindowShare` |
| `CountersAreBacked` | `Spec => []Charging` |
| `ThrottlingIsEarned` | `ThrottledOnlyAboveLimit` |
| `CountedByRedisOrLate` | `Spec => []FailingOpen` |
| `FailingOpenHasAPrice` | `FailOpenIsBounded` |
| `TypeCorrect` | `TypeOK` |
| `LoadTestProofs!NoncesAreOwned` | `Spec => []IInv` |
| `LevelsDoNotRepeatThemselves` | `HitsRepeatEarlierLevels` |
| `CountsAddUp` | `Spec => []Summing` |
| `SummariesAddUp` | `SummaryAddsUp` |
| `ServerMeansAreOfTheirLevels` | `ServerMeanIsOfTheLevel` |
| `TypeCorrect` | `TypeOK` |

Why the inductive invariants are what they are:

* `MemoryStore`. A commit supersedes a row that was chosen several awaits earlier
  from the other store. `LocalsOK` says what a request may still believe at each
  await: the row it found is committed and about the subject it wants (rows are
  never deleted and never change their fact), its own row is new and later than
  the one it found (`issued` only grows), and the row it is deleting is
  committed. `MineDistinct` says that no two adds hold the same uncommitted row,
  `RowsStateFacts` that committed rows were issued. The step from "Neo4j showed
  an open edge" to "Postgres has the row" is `OpenEdgesCommitted`, which has to
  speak of abandoned writes too, since one may land at any time. `LinkInv` adds
  that a committed delete has deactivated its row and that nothing is left behind
  while nothing has failed; `EdgeInv` that a row has one upsert, which has left
  no more edges than its failed attempts.
* `MemoryStore`, one request at a time (`SerialInv`, of the scope `serial` of
  `MCMemoryStore`; the theorems are about `MCSpec`, whose scope only keeps the
  other slots idle). The three properties hang together: an update replaces one
  row because the row it found is still active; it found the latest one because
  the graph mirrors the table; and the graph mirrors the table because the update
  closed the edge of just the row it replaced. So `GraphSide` says at each await
  which rows have an edge (`HasEdge`: the active ones, but for the one about to
  be superseded and the one about to be linked, and a deleted one until its edge
  is closed), that what was found is the latest active row still, and that the
  row flushed is later than all others.
* `SearchCache`. `StaleIsExplained` is nearly inductive; what is missing is that
  no invalidation is cut short while nothing has failed (`RedisAnswers`). The
  types bound the versions of the stores, which takes a count of the writes the
  mutations under way have still to make (`WritesCounted`).
* `EvalRun`. Three parts. `CaseInv` follows one run through its cases: whatever
  others do to the namespace, what a search returns of the run's own seeds was
  stored, and what is scored is what was returned. `GateInv` is about committed
  runs, verdicts and the baseline, and sees of a result only its two counts: a
  verdict is the gate's over the summary of a committed run, and in CI the
  baseline cannot move between the two reads. The theorems about recall and
  made-up facts join them by cardinality: hits are at most what was returned,
  plus the hits on cases that expect nothing. `LeftInv` is about runs one at a
  time: whatever a dead run or a lossy backend has left in the namespace, after
  `DeleteRows` and `ClearGraph` it is empty, and from there on it holds just what
  the seeds added so far come to (`Seeding`), in the table and in the graph, since
  the graph decides what the second seed supersedes. A clear that lands late
  does no harm to an empty graph, nor after the last seed, when only the table
  is read (`Seeded`); in between, the run is swept. A result of a backend that
  did as it should is then a function of the case (`AsItShould`), unless swept.
* `Mem0Mirror`. `Grounded` says what a flushed change tells of its row, whenever
  it was flushed: one that updates has a row to update, since rows are not
  deleted; one that inserts says something and turns the row on. `Hand` says what
  a request has in hand at each await: the item it has just flushed is among its
  changes, so an edge it opens has a writer that holds the row; a memory Mem0
  created stays in the answer or among the changes until the commit. A request
  that is rolled back is what `troubled` excuses, and the only thing.
* `Mem0Mirror`, texts. A change that leaves `content` out says what the row said
  when it was read. So if the row has not been reworded since, it still says it,
  from the read (`RepeatsHold`) to the flush and on to the commit
  (`FlushedHold`): nobody else can commit a change of it after the flush, since
  the row is locked (`Locked`, which needs what `Grounded` says of who writes
  rows), and whoever does so before the flush rewords it.
* `Mem0Mirror`, one request at a time. Nothing changes between the read of a row
  and the commit (`SeenIsCurrent`), so a change turns its row exactly if it has
  to (`TurnedAsNeeded`), and the audit trail replays; this survives any failure,
  since what is not committed is gone. That the three stores agree needs to know
  what is in the request's hands (`Work`): what is not is mirrored (`Untouched`),
  what is says what Mem0 says, and has come as far as `Progress` says. An answer
  names a memory once, or a later item would undo an earlier one.
* `Mem0Mirror`, types. Events that name no memory are counted: each is a NOOP,
  which takes a call, or mirrors the end of a memory in Mem0. A memory ends once
  and its end is in one request's hands (`EndsComeOnce`), so the events and the
  ends still to be mirrored are no more than the calls and the memories dropped
  (`EndsCounted`).
* `RateLimiter`. Admissions of a window are at most its count; the request
  between `INCR` and `EXPIRE` is the difficulty, counted but not admitted while
  others are. There is at most one, the first of its window, and its admission
  has to be reserved (`CountedAt`). For throttling it is the other way round:
  a counter says no more than the requests charged to its window (`Charging`), and
  a 429 came from a counter above the limit. The price of failing open counts
  places: whoever a window lets through was counted by Redis, or has one of the
  first `Limit` places in a worker's own counter (`Fallbacks`), and there are
  `Limit` times as many of these as workers.
* `LoadTest`. What a request may find in the cache depends on who else carries
  its nonce: `WorkersAlone` says nobody, unless an earlier level sent it. Nonces
  are apart because the counter is shared and stays below `Stride`. The counts
  add up only with what is under way: requests sent are those counted and those
  waited for (`RequestsAddUp`), and searches recorded are those answered and at
  most those given up that are not carried any longer (`HistogramMoves`). The
  pool's limit needs that each connection is held by a request (`ConnectionsAreHeld`).

Only model-checked: liveness (`RequestsFinish` of both backends,
`EventuallyLinked`, `CacheConverges`, `CountersExpire`, `SweepEnds`), which is
out of the prover's reach.

## Not modelled

* Ranking, embeddings and text: floating point and strings. The text-to-fact
  conversion is taken at its result, a subject and an object or no fact.
* The driver's session states in the backends: a request that cannot go on dies.
  The connection pool is in `LoadTest`. Lock waits are in `Mem0Mirror`; in
  `MemoryStore` a request locks one old row, in the commit itself.
* Session caching beyond what `Mem0Mirror` says of it: every read the handlers
  make is explicit.
* The candidates of a search beyond the newest 200 (`mock_backend.py`): a search
  is what it reads, not which of it.
* Floating point in the gate and a baseline of another dataset (both listed as
  hazards); the entries the limiter's fallback keeps of clients that have gone.
* The eval gauges of `/metrics`, which repeat the newest committed run.
* Health routes, application assembly, and the operational scripts other than
  the load driver: reads, wiring, and clients of the service.

## Plan

1. Done: `MemoryStore` with its ledger, `SearchCache`, `EvalRun` with the
   reports and the torn baseline, `Mem0Mirror`, `RateLimiter`, `LoadTest`; proofs
   about each.
2. Next: datasets in `EvalRun` (a baseline of another dataset), and the compound
   of `MemoryStore` and `EvalRun` for one case.
3. Next: ranking as a pure algorithm over scores that are small integers; the
   limiter's fallback with several clients.
4. Theorems wanted: none of the invariants checked now is without one. What is
   left is what steps may do: rows of the mock backend are never deleted and
   never change their fact, a committed eval run and its verdict never change.
