------------------------------ MODULE EvalRun -------------------------------
(***************************************************************************)
(* The eval runner and its regression gate (app/eval/runner.py, scoring.py *)
(* and classifier.py, scripts/run_eval_ci.py).  A run takes the cases one  *)
(* after the other.  A case has a user namespace that is its own but not   *)
(* the run's: clear it, add the seed memories, search, ask which memories  *)
(* are inactive, classify.  Then the run is scored, compared with          *)
(* data/baseline.json, committed, and may become the baseline.  Its report *)
(* (app/eval/report.py) shows it beside the baseline there is by then.     *)
(*                                                                         *)
(* Two uses are told apart.  "ci": one run at a time, of a backend that    *)
(* may have regressed; it may store nothing, and may return any of the     *)
(* rows.  "api": the route starts one run per request, and runs interleave *)
(* at every await; the backend is the mock, one whole call at a time       *)
(* (MemoryStore has the awaits inside an add).  Latency is a free choice:  *)
(* the p95 check holds or it does not.                                     *)
(*                                                                         *)
(* A write that clears edges may time out, be sent again, and land late.   *)
(* The writes of an add do so in MemoryStore and not here: an edge that    *)
(* lands late in a namespace that was cleared is older than those of the   *)
(* seeds, so no lookup prefers it, and its row is gone; a second edge of a *)
(* seed is closed with no other row than the first.                        *)
(*                                                                         *)
(* A definition marked "mutant" is no part of the model: see MemoryStore.  *)
(***************************************************************************)
EXTENDS Naturals, FiniteSets, Sequences, SequencesExt

CONSTANTS Runs,         \* calls of run_eval
          Plain,        \* cases: two facts about two things; one is asked for
          Contradicted, \* cases: an old fact, then what is true now; ask the latter
          Fabricated,   \* cases: one fact flagged false; nothing is expected
          Uses,         \* which uses a behaviour may be of
          AllowFaults   \* whether a run may die

\* A case is a number: its place in the dataset.
ASSUME CasesAssumption ==
    LET cases == Plain \cup Contradicted \cup Fabricated
    IN cases \subseteq Nat \ {0} /\ IsFiniteSet(cases)
\* No run's id is one of the words that stand for something else.
ASSUME RunsAssumption == Runs \cap {"none", "torn", "shipped"} = {}
ASSUME UsesAssumption == Uses \subseteq {"ci", "api"}
ASSUME AllowFaultsAssumption == AllowFaults \in BOOLEAN

Cases == Plain \cup Contradicted \cup Fabricated
Labels == {"other", "expected", "fabrication"}
Ids == [run : Runs, label : Labels]
Seeds(c) == IF c \in Fabricated THEN <<"fabrication">> ELSE <<"other", "expected">>
Modes == {"none", "retrieval_miss", "stale_fact", "false_fact"}
NoOne == "none"
NoCase == 0
NoBaseline == [hits |-> 0, falseFacts |-> 0, run |-> NoOne]

\* The file has been truncated and not been written: it is no JSON.
Torn == [hits |-> 0, falseFacts |-> 0, run |-> "torn"]

\* The file that comes with the repository: the summary of a run that no
\* database but its author's has.
Shipped == [hits : 0 .. Cardinality(Cases), falseFacts : 0 .. Cardinality(Cases),
            run : {"shipped"}]

VARIABLES
    use,       \* "ci" or "api"
    rows,      \* the memories of each case's user
    active,    \* those with is_active = true
    edges,     \* their open edges, by valid_from
    late,      \* clears of them that were given up and may still land
    pc,        \* the await a run is at
    left,      \* the cases it still has to take
    case,      \* the one it is at
    doomed,    \* the rows it has selected to clear
    seeds,     \* the seeds it still has to add
    stored,    \* labels of the seeds that were stored: label_to_id
    retrieved, \* what the search returned
    swept,     \* history: a clear that was given up took edges of its seeds
               \* away while there were seeds to come
    result,    \* its finished cases
    shown,     \* the baseline run_eval_ci.py read before the run
    verdict,   \* the baseline the run was compared with, and the outcome
    evalRuns,  \* the committed eval_runs
    baseline   \* data/baseline.json

tables == <<rows, active, edges, late>>
caseVars == <<left, case, doomed, seeds, stored, retrieved, swept, result>>
vars == <<use, tables, pc, caseVars, shown, verdict, evalRuns, baseline>>

\* What is kept of a finished case: was the expected seed stored, was the
\* expected memory among those returned, what was scored, how many memories
\* were returned (precision depends on it), whether the backend stored and
\* returned everything it should have, and whether it was swept.
CaseResults == [stored : BOOLEAN, found : BOOLEAN, lied : BOOLEAN, hit : BOOLEAN,
                mode : Modes, size : 0 .. Cardinality(Ids), faithful : BOOLEAN,
                swept : BOOLEAN]
Baselines == [hits : 0 .. Cardinality(Cases), falseFacts : 0 .. Cardinality(Cases),
              run : Runs \cup {NoOne, Torn.run, "shipped"}]
Verdicts == [passed : BOOLEAN, fast : BOOLEAN, set : BOOLEAN, prior : Baselines]
NoVerdict == [passed |-> FALSE, fast |-> FALSE, set |-> FALSE, prior |-> NoBaseline]
Running == {"start", "ready", "clear", "delete", "clearNodes", "clearGraph", "clearAgain",
            "add", "inactive", "judge", "commit", "write", "fill"}

TypeOK ==
    /\ use \in Uses
    /\ rows \in [Cases -> SUBSET Ids]
    /\ \A c \in Cases : active[c] \subseteq rows[c] /\ ToSet(edges[c]) \subseteq Ids
    /\ late \in [Cases -> Nat]
    /\ pc \in [Runs -> Running \cup {"done", "dead"}]
    /\ left \in [Runs -> SUBSET Cases]
    /\ case \in [Runs -> Cases \cup {NoCase}]
    /\ doomed \in [Runs -> SUBSET Ids]
    /\ stored \in [Runs -> SUBSET Labels]
    /\ retrieved \in [Runs -> SUBSET Ids]
    /\ swept \in [Runs -> BOOLEAN]
    /\ \A r \in Runs : /\ ToSet(seeds[r]) \subseteq Labels
                       /\ DOMAIN result[r] \subseteq Cases \ left[r]
                       /\ \A c \in DOMAIN result[r] : result[r][c] \in CaseResults
    /\ shown \in [Runs -> Baselines]
    /\ verdict \in [Runs -> Verdicts]
    /\ evalRuns \subseteq Runs
    /\ baseline \in Baselines

Init ==
    /\ use \in Uses
    /\ rows = [c \in Cases |-> {}]
    /\ active = [c \in Cases |-> {}]
    /\ edges = [c \in Cases |-> <<>>]
    /\ late = [c \in Cases |-> 0]
    /\ pc = [r \in Runs |-> "start"]
    /\ left = [r \in Runs |-> Cases]
    /\ case = [r \in Runs |-> NoCase]
    /\ doomed = [r \in Runs |-> {}]
    /\ seeds = [r \in Runs |-> <<>>]
    /\ stored = [r \in Runs |-> {}]
    /\ retrieved = [r \in Runs |-> {}]
    /\ swept = [r \in Runs |-> FALSE]
    /\ result = [r \in Runs |-> <<>>]
    /\ shown = [r \in Runs |-> NoBaseline]
    /\ verdict = [r \in Runs |-> NoVerdict]
    /\ evalRuns = {}
    /\ baseline \in {NoBaseline} \cup Shipped

Goto(r, l) == pc' = [pc EXCEPT ![r] = l]

-----------------------------------------------------------------------------
(* One case: _run_case.                                                    *)

\* mutant: a file that cannot be read is no baseline.
ReadTornAsNone == IF baseline = Torn THEN NoBaseline ELSE baseline

\* _read_baseline, and read_baseline of the CI script and of the report: none
\* if there is no file.  Whoever reads a torn one raises.
ReadBaseline == baseline

\* run_eval is called.  In CI the script reads the baseline for its report
\* first, and no other run is under way.
StartRun(r) ==
    /\ pc[r] = "start"
    /\ use = "ci" => \A q \in Runs : pc[q] \in {"start", "done", "dead"}
    /\ shown' = [shown EXCEPT ![r] = ReadBaseline]
    /\ Goto(r, IF use = "ci" /\ ReadBaseline = Torn THEN "dead" ELSE "ready")
    /\ UNCHANGED <<use, tables, caseVars, verdict, evalRuns, baseline>>

\* The cases are taken in the order of the files: the least one left.
TakeCase(r) ==
    /\ pc[r] = "ready"
    /\ \E c \in left[r] :
        /\ \A d \in left[r] : c <= d
        /\ case' = [case EXCEPT ![r] = c]
        /\ left' = [left EXCEPT ![r] = @ \ {c}]
        /\ seeds' = [seeds EXCEPT ![r] = Seeds(c)]
    /\ stored' = [stored EXCEPT ![r] = {}]
    /\ retrieved' = [retrieved EXCEPT ![r] = {}]
    /\ swept' = [swept EXCEPT ![r] = FALSE]
    /\ Goto(r, "clear")
    /\ UNCHANGED <<use, tables, doomed, result, shown, verdict, evalRuns, baseline>>

\* mutant: the run clears what it has stored itself.
OwnRows(r) == {m \in rows[case[r]] : m.run = r}

\* What _clear_user_namespace selects: the user's rows, whichever run's.
UserRows(r) == rows[case[r]]

SelectRows(r) ==
    /\ pc[r] = "clear"
    /\ doomed' = [doomed EXCEPT ![r] = UserRows(r)]
    /\ Goto(r, "delete")
    /\ UNCHANGED <<use, tables, left, case, seeds, stored, retrieved, swept, result,
                   shown, verdict, evalRuns, baseline>>

\* The events and rows selected go for good, in one transaction.
DeleteRows(r) ==
    /\ pc[r] = "delete"
    /\ rows' = [rows EXCEPT ![case[r]] = @ \ doomed[r]]
    /\ active' = [active EXCEPT ![case[r]] = @ \ doomed[r]]
    /\ doomed' = [doomed EXCEPT ![r] = {}]
    /\ Goto(r, "clearNodes")
    /\ UNCHANGED <<use, edges, late, left, case, seeds, stored, retrieved, swept, result,
                   shown, verdict, evalRuns, baseline>>

\* The Neo4j half, two writes.  The first deletes the user's memory nodes,
\* which nothing here looks up.
ClearNodes(r) ==
    /\ pc[r] = "clearNodes"
    /\ Goto(r, "clearGraph")
    /\ UNCHANGED <<use, tables, caseVars, shown, verdict, evalRuns, baseline>>

\* The second deletes the user's edges, at once or when it is sent again.
ClearGraph(r) ==
    /\ pc[r] \in {"clearGraph", "clearAgain"}
    /\ edges' = [edges EXCEPT ![case[r]] = <<>>]
    /\ Goto(r, "add")
    /\ UNCHANGED <<use, rows, active, late, caseVars, shown, verdict, evalRuns, baseline>>

\* _with_retry: an attempt is cut off by its timeout and may land later.  The
\* write is sent once more, and then the run fails.
ClearTimesOut(r) ==
    /\ AllowFaults
    /\ pc[r] \in {"clearGraph", "clearAgain"}
    /\ late' = [late EXCEPT ![case[r]] = @ + 1]
    /\ Goto(r, IF pc[r] = "clearGraph" THEN "clearAgain" ELSE "dead")
    /\ UNCHANGED <<use, rows, active, edges, caseVars, shown, verdict, evalRuns, baseline>>

\* A run has edges of a case's user, and seeds to come that may meet them.
Midway(r, c) == pc[r] = "add" /\ case[r] = c /\ edges[c] # <<>> /\ seeds[r] # <<>>

\* A clear that was given up takes away what edges there are by now.
LandClear(c) ==
    /\ late[c] > 0
    /\ late' = [late EXCEPT ![c] = @ - 1]
    /\ edges' = [edges EXCEPT ![c] = <<>>]
    /\ swept' = [r \in Runs |-> swept[r] \/ Midway(r, c)]
    /\ UNCHANGED <<use, rows, active, pc, left, case, doomed, seeds, stored, retrieved,
                   result, shown, verdict, evalRuns, baseline>>

\* What seed a label is about: two facts of a plain case do not meet.
Topic(c, label) == IF c \in Plain THEN label ELSE "topic"

\* The edge of the row a seed supersedes, by its place: the latest open one
\* of its topic, unless that says the same.  0 if there is none.
Superseded(c, label) ==
    LET latest == SelectLastInSeq(edges[c], LAMBDA e : Topic(c, e.label) = Topic(c, label))
    IN IF latest # 0 /\ edges[c][latest].label # label THEN latest ELSE 0

\* backend.add of one seed.
AddSeed(r) ==
    /\ pc[r] = "add"
    /\ seeds[r] # <<>>
    /\ LET c == case[r]
           label == Head(seeds[r])
           id == [run |-> r, label |-> label]
           at == Superseded(c, label)
           old == {edges[c][i] : i \in {at} \ {0}}
       IN \/ /\ rows' = [rows EXCEPT ![c] = @ \cup {id}]
             /\ active' = [active EXCEPT ![c] = (@ \cup {id}) \ old]
             /\ edges' = [edges EXCEPT ![c] = Append(RemoveAt(@, at), id)]
             /\ stored' = [stored EXCEPT ![r] = @ \cup {label}]
             /\ late' = late
          \/ /\ use = "ci"
             /\ UNCHANGED <<tables, stored>>
    /\ seeds' = [seeds EXCEPT ![r] = Tail(@)]
    /\ UNCHANGED <<use, pc, left, case, doomed, retrieved, swept, result, shown, verdict,
                   evalRuns, baseline>>

\* backend.search: the active memories of the user.
Search(r) ==
    /\ pc[r] = "add"
    /\ seeds[r] = <<>>
    /\ \E found \in SUBSET rows[case[r]] :
        /\ found = active[case[r]] \/ use = "ci"
        /\ retrieved' = [retrieved EXCEPT ![r] = found]
    /\ Goto(r, "inactive")
    /\ UNCHANGED <<use, tables, left, case, doomed, seeds, stored, swept, result, shown,
                   verdict, evalRuns, baseline>>

\* label_to_id.get(expected_label): nothing when no label is expected, and
\* nothing when the expected seed was not stored.
ExpectedIds(r) == {[run |-> r, label |-> l] : l \in stored[r] \cap {"expected"}}

\* sarcastic_ids: the run's own fabrications that were stored.
FabricatedIds(r) == {[run |-> r, label |-> l] : l \in stored[r] \cap {"fabrication"}}

\* recall_at_k, one case: a hit is the expected memory returned, or nothing
\* expected and nothing returned.
RecallHit(r) ==
    IF ExpectedIds(r) = {} THEN retrieved[r] = {}
    ELSE ExpectedIds(r) \subseteq retrieved[r]

\* mutant: what is expected is looked up before what is wrong.
ClassifyMissFirst(r, inactive) ==
    IF ExpectedIds(r) \subseteq retrieved[r] THEN "none" ELSE "retrieval_miss"

\* classify_case, most severe first.
Classify(r, inactive) ==
    IF retrieved[r] \cap FabricatedIds(r) # {} THEN "false_fact"
    ELSE IF retrieved[r] \cap inactive # {} THEN "stale_fact"
    ELSE IF ExpectedIds(r) \subseteq retrieved[r] THEN "none"
    ELSE "retrieval_miss"

\* _inactive_memory_ids, read after the search, and the case's result.
FinishCase(r) ==
    /\ pc[r] = "inactive"
    /\ LET c == case[r]
           ours == [l \in Labels |-> [run |-> r, label |-> l]]
           mode == Classify(r, rows[c] \ active[c])
       IN result' = [result EXCEPT ![r] = [d \in DOMAIN @ \cup {c} |->
            IF d # c THEN @[d]
            ELSE [stored |-> "expected" \in stored[r],
                  found |-> ours["expected"] \in retrieved[r],
                  lied |-> ours["fabrication"] \in retrieved[r],
                  hit |-> RecallHit(r),
                  mode |-> mode,
                  size |-> Cardinality(retrieved[r]),
                  faithful |-> /\ stored[r] = ToSet(Seeds(c))
                               /\ retrieved[r] = active[c],
                  swept |-> swept[r]]]]
    /\ Goto(r, IF left[r] = {} THEN "judge" ELSE "ready")
    /\ UNCHANGED <<use, tables, left, case, doomed, seeds, stored, retrieved, swept, shown,
                   verdict, evalRuns, baseline>>

-----------------------------------------------------------------------------
(* The verdict: the end of run_eval.                                       *)

Total == Cardinality(Cases)

\* mutant: in a case that is a hit, every memory returned is counted.
HitsPerMemory(r) ==
    Cardinality({x \in (DOMAIN result[r]) \X (0 .. Cardinality(Ids)) :
                    /\ result[r][x[1]].hit
                    /\ x[2] = 0 \/ x[2] < result[r][x[1]].size})

Hits(r) == Cardinality({c \in DOMAIN result[r] : result[r][c].hit})
FalseFacts(r) == Cardinality({c \in DOMAIN result[r] : result[r][c].mode = "false_fact"})

\* recall_at_5 >= baseline - 0.05, both fractions of the same number of cases.
WithinTolerance(n, base) == 20 * n + Total >= 20 * base

\* mutant: a check is left out.
GateWithoutRecall(r, prior, fast) == fast /\ FalseFacts(r) <= prior.falseFacts

\* _compare_to_baseline, against a baseline that exists.
Gate(r, prior, fast) ==
    /\ WithinTolerance(Hits(r), prior.hits)
    /\ fast
    /\ FalseFacts(r) <= prior.falseFacts

\* mutant: the report leaves a check out.
ChecksWithoutFalseFacts(r, prior, fast) == fast /\ WithinTolerance(Hits(r), prior.hits)

\* _gate_checks: what the CI report says of a run and a baseline.
Checks(r, prior, fast) ==
    /\ WithinTolerance(Hits(r), prior.hits)
    /\ fast
    /\ FalseFacts(r) <= prior.falseFacts

Summary(r) == [hits |-> Hits(r), falseFacts |-> FalseFacts(r), run |-> r]

\* mutant: the baseline is written with the verdict, ahead of the commit.
JudgeAndWrite(r, setBaseline, fast) ==
    /\ pc[r] = "judge"
    /\ baseline' = IF setBaseline \/ baseline = NoBaseline THEN Summary(r) ELSE baseline
    /\ verdict' = [verdict EXCEPT ![r] =
         [passed |-> TRUE, fast |-> fast, set |-> setBaseline, prior |-> baseline]]
    /\ Goto(r, "commit")
    /\ UNCHANGED <<use, tables, caseVars, shown, evalRuns>>

\* _read_baseline and _compare_to_baseline: a run that finds no baseline, or
\* is told to set it, passes.
Judge(r, setBaseline, fast) ==
    /\ pc[r] = "judge"
    /\ ReadBaseline # Torn
    /\ LET prior == ReadBaseline
       IN verdict' = [verdict EXCEPT ![r] =
            [passed |-> prior = NoBaseline \/ setBaseline \/ Gate(r, prior, fast),
             fast |-> fast, set |-> setBaseline, prior |-> prior]]
    /\ Goto(r, "commit")
    /\ UNCHANGED <<use, tables, caseVars, shown, evalRuns, baseline>>

\* json.loads raises, for want of a baseline that nobody asked to compare with
\* too: nothing of the run has been committed.
JudgeFails(r) ==
    /\ pc[r] = "judge"
    /\ ReadBaseline = Torn
    /\ Goto(r, "dead")
    /\ UNCHANGED <<use, tables, caseVars, shown, verdict, evalRuns, baseline>>

\* The EvalRun row and its case results, in one transaction.
CommitRun(r) ==
    /\ pc[r] = "commit"
    /\ evalRuns' = evalRuns \cup {r}
    /\ Goto(r, IF verdict[r].set \/ verdict[r].prior = NoBaseline THEN "write" ELSE "done")
    /\ UNCHANGED <<use, tables, caseVars, shown, verdict, baseline>>

\* _write_baseline: the run found no baseline when it was judged, or was told
\* to set it; whatever the file holds by now.  write_text truncates it first.
TruncateBaseline(r) ==
    /\ pc[r] = "write"
    /\ baseline' = Torn
    /\ Goto(r, "fill")
    /\ UNCHANGED <<use, tables, caseVars, shown, verdict, evalRuns>>

FillBaseline(r) ==
    /\ pc[r] = "fill"
    /\ baseline' = Summary(r)
    /\ Goto(r, "done")
    /\ UNCHANGED <<use, tables, caseVars, shown, verdict, evalRuns>>

\* A run dies: Postgres, Neo4j or its process fails, or another run has
\* cleared a row it was about to supersede.
RunDies(r) ==
    /\ AllowFaults
    /\ pc[r] \in Running \ {"start"}
    /\ Goto(r, "dead")
    /\ UNCHANGED <<use, tables, caseVars, shown, verdict, evalRuns, baseline>>

-----------------------------------------------------------------------------
(* The report of a committed run: build_report and metric_rows.            *)

\* mutant: a value that is there is shown as its own baseline.
BaseOfRun(value, base) == value

\* baseline.get(key, value) or value: a baseline of 0 is shown as the value.
ShownBase(value, base) == IF base # 0 THEN base ELSE value

\* The rows of the metrics the gate looks at, but for the latency: the run's
\* value and the value of the baseline that there is by now.
RecallRow(r) ==
    [value |-> Hits(r), base |-> ShownBase(Hits(r), ReadBaseline.hits)]
FalseFactRow(r) ==
    [value |-> FalseFacts(r), base |-> ShownBase(FalseFacts(r), ReadBaseline.falseFacts)]

-----------------------------------------------------------------------------
Step(r) ==
    \/ StartRun(r)
    \/ TakeCase(r)
    \/ SelectRows(r)
    \/ DeleteRows(r)
    \/ ClearNodes(r)
    \/ ClearGraph(r)
    \/ ClearTimesOut(r)
    \/ AddSeed(r)
    \/ Search(r)
    \/ FinishCase(r)
    \/ \E setBaseline, fast \in BOOLEAN : Judge(r, setBaseline, fast)
    \/ CommitRun(r)
    \/ JudgeFails(r)
    \/ TruncateBaseline(r)
    \/ FillBaseline(r)

Next ==
    \/ \E r \in Runs : Step(r) \/ RunDies(r)
    \/ \E c \in Cases : LandClear(c)

Spec == Init /\ [][Next]_vars

-----------------------------------------------------------------------------
Judged(r) == pc[r] \in {"commit", "write", "fill", "done"}

\* The run whose summary r was compared with, if it was compared.
Compared(r, b) ==
    Judged(r) /\ verdict[r].passed /\ ~verdict[r].set /\ verdict[r].prior.run = b

\* How many of the expected memories a run's searches returned, in how many
\* cases it returned what it should never have stored, and in how many cases
\* without an expected memory it was given a hit.
Returned(r) == Cardinality({c \in DOMAIN result[r] : result[r][c].found})
Lies(r) == Cardinality({c \in DOMAIN result[r] : result[r][c].lied})
HitsOnFabricated(r) == Cardinality({c \in DOMAIN result[r] \cap Fabricated : result[r][c].hit})

\* "fails CI when recall drops" (README): a run that passes returns no fewer
\* of the expected memories than the run behind the baseline did, up to the
\* tolerance, unless it makes up for it on the cases that expect nothing.
RecallDropFails ==
    use = "ci" => \A r, b \in Runs :
        Compared(r, b) /\ HitsOnFabricated(r) <= HitsOnFabricated(b)
            => WithinTolerance(Returned(r), Returned(b))

\* What the gate does catch, whatever baseline it was given and whatever
\* earlier runs left behind: the drop of recall of a backend that still
\* stored every expected memory.
StoredRecallDropFails ==
    use = "ci" => \A r, b \in Runs :
        (/\ Compared(r, b)
         /\ HitsOnFabricated(r) <= HitsOnFabricated(b)
         /\ \A c \in Cases \ Fabricated : result[r][c].stored)
            => WithinTolerance(Returned(r), Returned(b))

\* "or the backend starts returning made-up facts" (README): a run that
\* passes returns fabrications in no more cases than the baseline's run did.
MadeUpFactsFail ==
    use = "ci" => \A r, b \in Runs : Compared(r, b) => Lies(r) <= Lies(b)

\* The CI report, made from the baseline read before the run, explains the
\* verdict, made from the baseline read after it: the checks it shows all hold
\* exactly if a run that is not told to set the baseline passed.
ReportExplainsVerdict ==
    use = "ci" => \A r \in Runs :
        Judged(r) /\ ~verdict[r].set /\ shown[r] # NoBaseline =>
            verdict[r].passed = Checks(r, shown[r], verdict[r].fast)

\* The report of a failed run shows why it failed, as long as the baseline is
\* the one it was compared with: a gated metric that is worse than the
\* baseline beside it.  Except for one thing: made-up facts where the baseline
\* had none, of which the report makes a baseline that had as many.
FailureIsShown ==
    \A r \in evalRuns :
        ~verdict[r].passed /\ verdict[r].fast /\ verdict[r].prior = ReadBaseline
            => \/ RecallRow(r).value < RecallRow(r).base
               \/ FalseFactRow(r).value > FalseFactRow(r).base
               \/ ReadBaseline.falseFacts = 0 /\ FalseFacts(r) > 0

\* The summary in baseline.json, once the one that was shipped is gone, is
\* that of a committed run, with the results it was committed with, whatever
\* runs overlap and wherever they die.
BaselineIsCommitted ==
    baseline \notin {NoBaseline, Torn} \cup Shipped =>
        /\ baseline.run \in evalRuns
        /\ baseline = Summary(baseline.run)

\* Only the runs before the first baseline pass without a comparison: once
\* one has been begun to be written, a later run is compared, is told to set
\* it, or fails; also when the one before it died with the file half written.
GateSkippedOnlyBeforeBaseline ==
    use = "ci" => \A r \in Runs :
        pc[r] = "commit" /\ verdict[r].prior = NoBaseline => baseline = NoBaseline

\* Two runs agree on a case: what is scored, and what precision is made of.
Agree(p, q, c) ==
    LET a == result[p][c]
        b == result[q][c]
    IN a.hit = b.hit /\ a.mode = b.mode /\ a.size = b.size

\* One run at a time, two runs agree on every case in which the backend did
\* as it should: a namespace is as good as new once it has been cleared,
\* whatever a run that died, a backend that lost something, or a clear that
\* was given up and landed before the seeds or after the last, left in the two
\* stores.  Such a clear between two seeds counts: the older fact it took the
\* edge of is never superseded.
LeftoversDoNotCount ==
    use = "ci" =>
        \A p, q \in Runs : \A c \in DOMAIN result[p] \cap DOMAIN result[q] :
            (/\ result[p][c].faithful /\ ~result[p][c].swept
             /\ result[q][c].faithful /\ ~result[q][c].swept) => Agree(p, q, c)
=============================================================================
