---------------------------- MODULE EvalRunProofs ---------------------------
(***************************************************************************)
(* What the regression gate, the report and baseline.json may be trusted   *)
(* with, for any dataset, any number of runs, any backend that has         *)
(* regressed and any deaths.  The argument has three parts.  CaseInv is    *)
(* about one run's way through its cases: what of its own seeds a search   *)
(* can return, and what is made of it.  GateInv is about committed runs,   *)
(* verdicts and the baseline, and sees of a result only its two counts.    *)
(* LeftInv is about runs that come one at a time: what a run finds in a    *)
(* namespace it has cleared is what it has put there itself.               *)
(***************************************************************************)
EXTENDS EvalRun, FiniteSetTheorems, SequenceTheorems, WellFoundedInduction, TLAPS

InCase == {"clear", "delete", "clearNodes", "clearGraph", "clearAgain", "add", "inactive"}
Busy == InCase \cup {"ready", "judge"}
Idle == {"start", "done", "dead"}

CaseTyped ==
    /\ rows \in [Cases -> SUBSET Ids]
    /\ pc \in [Runs -> Running \cup {"done", "dead"}]
    /\ left \in [Runs -> SUBSET Cases]
    /\ case \in [Runs -> Cases \cup {NoCase}]
    /\ seeds \in [Runs -> Seq(Labels)]
    /\ stored \in [Runs -> SUBSET Labels]
    /\ retrieved \in [Runs -> SUBSET Ids]
    /\ result = [r \in Runs |-> result[r]]
    /\ \A r \in Runs : DOMAIN result[r] \subseteq Cases

\* A case under way is a case of the dataset that has been taken.
CaseIsTaken == \A r \in Runs : pc[r] \in InCase => case[r] \in Cases \ left[r]

\* A run's rows are in the namespaces of cases it has taken, and those in the
\* namespace of the case it is at are its seeds that were stored.
OwnRowsWereStored ==
    \A r \in Runs, c \in Cases : \A m \in rows[c] :
        m.run = r => c \notin left[r] /\ (c = case[r] => m.label \in stored[r])

OwnReturnedWereStored ==
    \A r \in Runs : \A m \in retrieved[r] : m.run = r => m.label \in stored[r]

\* Of a fabricated case nothing but the fabrication is stored.
FabricationsOnly ==
    \A r \in Runs : case[r] \in Fabricated =>
        stored[r] \subseteq {"fabrication"} /\ seeds[r] \in {<<>>, <<"fabrication">>}

\* What a finished case was scored, against what happened in it.
ScoredRight(x, c) ==
    /\ x.lied <=> x.mode = "false_fact"
    /\ x.found => x.stored
    /\ x.stored => (x.hit <=> x.found)
    /\ c \in Fabricated => ~x.stored

Scored == \A r \in Runs : \A c \in DOMAIN result[r] : ScoredRight(result[r][c], c)

CaseInv ==
    /\ CaseTyped
    /\ CaseIsTaken
    /\ OwnRowsWereStored
    /\ OwnReturnedWereStored
    /\ FabricationsOnly
    /\ Scored

-----------------------------------------------------------------------------
LEMMA CaseInit == Init => CaseInv
<1> SUFFICES ASSUME Init PROVE CaseInv
  OBVIOUS
<1> USE DEF Init
<1>1. CaseTyped
  BY DEF CaseTyped, Running
<1>2. CaseIsTaken
  BY DEF CaseIsTaken, InCase
<1>3. OwnRowsWereStored /\ OwnReturnedWereStored
  BY DEF OwnRowsWereStored, OwnReturnedWereStored
<1>4. FabricationsOnly
  BY DEF FabricationsOnly
<1>5. Scored
  BY DEF Scored
<1>6. QED BY <1>1, <1>2, <1>3, <1>4, <1>5 DEF CaseInv

\* Steps that are not about a case leave all of this alone.
LEMMA OtherStepCase ==
    ASSUME CaseInv, NEW r \in Runs, NEW l \in (Running \cup {"done", "dead"}) \ InCase,
           Goto(r, l), UNCHANGED <<rows, caseVars>>
    PROVE  CaseInv'
<1>1. pc' = [pc EXCEPT ![r] = l] /\ l \notin InCase /\ l \in Running \cup {"done", "dead"}
  BY DEF Goto
<1>2. UNCHANGED <<rows, left, case, seeds, stored, retrieved, result>>
  BY DEF caseVars
<1>3. CaseTyped'
  BY <1>1, <1>2 DEF CaseInv, CaseTyped
<1>4. CaseIsTaken'
  BY <1>1, <1>2 DEF CaseInv, CaseTyped, CaseIsTaken
<1>5. QED BY <1>2, <1>3, <1>4
       DEF CaseInv, OwnRowsWereStored, OwnReturnedWereStored, FabricationsOnly, Scored

LEMMA TakeCaseCase ==
    ASSUME CaseInv, NEW r \in Runs, TakeCase(r)
    PROVE  CaseInv'
<1>1. PICK c \in left[r] :
        /\ case' = [case EXCEPT ![r] = c]
        /\ left' = [left EXCEPT ![r] = @ \ {c}]
        /\ seeds' = [seeds EXCEPT ![r] = Seeds(c)]
  BY DEF TakeCase
<1>2. /\ stored' = [stored EXCEPT ![r] = {}]
      /\ retrieved' = [retrieved EXCEPT ![r] = {}]
      /\ pc' = [pc EXCEPT ![r] = "clear"]
      /\ UNCHANGED <<rows, result>>
  BY DEF TakeCase, Goto, tables
<1>3. c \in Cases
  BY DEF CaseInv, CaseTyped
<1>4. CaseTyped'
  <2>1. Seeds(c) \in Seq(Labels)
    <3>1. <<"fabrication">> \in Seq(Labels)
      BY DEF Labels
    <3>2. <<"other", "expected">> \in Seq(Labels)
      BY DEF Labels
    <3>3. QED BY <3>1, <3>2 DEF Seeds
  <2>2. seeds' \in [Runs -> Seq(Labels)]
    BY <1>1, <2>1 DEF CaseInv, CaseTyped
  <2>3. left' \in [Runs -> SUBSET Cases]
    BY <1>1 DEF CaseInv, CaseTyped
  <2>4. case' \in [Runs -> Cases \cup {NoCase}]
    BY <1>1, <1>3 DEF CaseInv, CaseTyped
  <2>5. /\ stored' \in [Runs -> SUBSET Labels]
        /\ retrieved' \in [Runs -> SUBSET Ids]
        /\ pc' \in [Runs -> Running \cup {"done", "dead"}]
    BY <1>2 DEF CaseInv, CaseTyped, Running
  <2>6. QED BY <1>2, <2>2, <2>3, <2>4, <2>5 DEF CaseInv, CaseTyped
<1>5. \A q \in Runs : IF q = r THEN /\ case'[q] = c /\ left'[q] = left[q] \ {c}
                                    /\ seeds'[q] = Seeds(c) /\ stored'[q] = {}
                                    /\ retrieved'[q] = {} /\ pc'[q] = "clear"
                               ELSE /\ case'[q] = case[q] /\ left'[q] = left[q]
                                    /\ seeds'[q] = seeds[q] /\ stored'[q] = stored[q]
                                    /\ retrieved'[q] = retrieved[q] /\ pc'[q] = pc[q]
  BY <1>1, <1>2 DEF CaseInv, CaseTyped
<1>6. CaseIsTaken'
  BY <1>3, <1>5 DEF CaseInv, CaseIsTaken
<1>7. OwnRowsWereStored'
  BY <1>2, <1>3, <1>5 DEF CaseInv, OwnRowsWereStored
<1>8. OwnReturnedWereStored'
  BY <1>5 DEF CaseInv, OwnReturnedWereStored
<1>9. FabricationsOnly'
  BY <1>5 DEF CaseInv, FabricationsOnly, Seeds
<1>10. Scored'
  BY <1>2 DEF CaseInv, Scored
<1>11. QED BY <1>4, <1>6, <1>7, <1>8, <1>9, <1>10 DEF CaseInv

\* Clearing a namespace takes rows away and forgets no seed.
LEMMA ClearingCase ==
    ASSUME CaseInv, NEW r \in Runs,
           \/ SelectRows(r) \/ DeleteRows(r) \/ ClearNodes(r) \/ ClearGraph(r)
           \/ ClearTimesOut(r)
    PROVE  CaseInv'
<1>1. PICK l \in InCase \cup {"dead"} : pc' = [pc EXCEPT ![r] = l]
  BY DEF SelectRows, DeleteRows, ClearNodes, ClearGraph, ClearTimesOut, Goto, InCase
<1>2. /\ pc[r] \in InCase
      /\ UNCHANGED <<left, case, seeds, stored, retrieved, result>>
  BY DEF SelectRows, DeleteRows, ClearNodes, ClearGraph, ClearTimesOut, InCase, caseVars
<1>3. /\ rows' \in [Cases -> SUBSET Ids]
      /\ \A c \in Cases : rows'[c] \subseteq rows[c]
  <2>1. CASE DeleteRows(r)
    <3>1. case[r] \in Cases
      BY <2>1 DEF DeleteRows, CaseInv, CaseIsTaken, InCase
    <3>2. rows' = [rows EXCEPT ![case[r]] = rows[case[r]] \ doomed[r]]
      BY <2>1 DEF DeleteRows
    <3>3. rows[case[r]] \ doomed[r] \in SUBSET Ids
      BY <3>1 DEF CaseInv, CaseTyped
    <3>4. QED BY <3>1, <3>2, <3>3 DEF CaseInv, CaseTyped
  <2>2. CASE SelectRows(r) \/ ClearNodes(r) \/ ClearGraph(r) \/ ClearTimesOut(r)
    <3>1. rows' = rows
      BY <2>2 DEF SelectRows, ClearNodes, ClearGraph, ClearTimesOut, tables
    <3>2. QED BY <3>1 DEF CaseInv, CaseTyped
  <2>3. QED BY <2>1, <2>2
<1>4. CaseTyped'
  BY <1>1, <1>2, <1>3 DEF CaseInv, CaseTyped, InCase, Running
<1>5. CaseIsTaken'
  BY <1>1, <1>2 DEF CaseInv, CaseIsTaken, CaseTyped
<1>6. OwnRowsWereStored'
  BY <1>2, <1>3 DEF CaseInv, OwnRowsWereStored
<1>7. QED BY <1>2, <1>4, <1>5, <1>6
       DEF CaseInv, OwnReturnedWereStored, FabricationsOnly, Scored

LEMMA AddSeedCase ==
    ASSUME CaseInv, NEW r \in Runs, AddSeed(r)
    PROVE  CaseInv'
<1> DEFINE c == case[r]
           label == Head(seeds[r])
           id == [run |-> r, label |-> label]
<1>1. /\ pc[r] = "add" /\ seeds[r] # <<>>
      /\ seeds' = [seeds EXCEPT ![r] = Tail(@)]
      /\ UNCHANGED <<pc, left, case, retrieved, result>>
  BY DEF AddSeed
<1>2. \/ /\ rows' = [rows EXCEPT ![c] = @ \cup {id}]
         /\ stored' = [stored EXCEPT ![r] = @ \cup {label}]
      \/ UNCHANGED <<rows, stored>>
  BY DEF AddSeed, tables
<1>3. c \in Cases /\ seeds[r] \in Seq(Labels) /\ label \in Labels /\ Tail(seeds[r]) \in Seq(Labels)
  BY <1>1 DEF CaseInv, CaseIsTaken, CaseTyped, InCase
<1>4. id \in Ids /\ id.run = r /\ id.label = label
  BY <1>3 DEF Ids
<1>5. /\ rows' \in [Cases -> SUBSET Ids]
      /\ stored' \in [Runs -> SUBSET Labels]
  <2>1. CASE UNCHANGED <<rows, stored>>
    BY <2>1 DEF CaseInv, CaseTyped
  <2>2. CASE /\ rows' = [rows EXCEPT ![c] = @ \cup {id}]
             /\ stored' = [stored EXCEPT ![r] = @ \cup {label}]
    <3>1. rows[c] \cup {id} \in SUBSET Ids
      BY <1>3, <1>4 DEF CaseInv, CaseTyped
    <3>2. stored[r] \cup {label} \in SUBSET Labels
      BY <1>3 DEF CaseInv, CaseTyped
    <3>3. rows' \in [Cases -> SUBSET Ids]
      BY <1>3, <2>2, <3>1 DEF CaseInv, CaseTyped
    <3>4. stored' \in [Runs -> SUBSET Labels]
      BY <2>2, <3>2 DEF CaseInv, CaseTyped
    <3>5. QED BY <3>3, <3>4
  <2>3. QED BY <1>2, <2>1, <2>2
<1>6. CaseTyped'
  BY <1>1, <1>3, <1>5 DEF CaseInv, CaseTyped
<1>7. CaseIsTaken'
  BY <1>1 DEF CaseInv, CaseIsTaken
<1>8. \A q \in Runs : stored[q] \subseteq stored'[q]
  <2>1. CASE stored' = [stored EXCEPT ![r] = @ \cup {label}]
    BY <2>1 DEF CaseInv, CaseTyped
  <2>2. QED BY <1>2, <2>1
<1>9. OwnRowsWereStored'
  <2> SUFFICES ASSUME NEW q \in Runs, NEW d \in Cases, NEW m \in rows'[d], m.run = q
               PROVE  d \notin left[q] /\ (d = case[q] => m.label \in stored'[q])
    BY <1>1 DEF OwnRowsWereStored
  <2>1. CASE m \in rows[d]
    BY <1>8, <2>1 DEF CaseInv, OwnRowsWereStored
  <2>2. CASE m \notin rows[d]
    <3>1. d = c /\ m = id /\ label \in stored'[r]
      BY <1>2, <1>3, <2>2 DEF CaseInv, CaseTyped
    <3>2. c \notin left[r]
      BY <1>1 DEF CaseInv, CaseIsTaken, InCase
    <3>3. QED BY <1>4, <3>1, <3>2
  <2>3. QED BY <2>1, <2>2
<1>10. OwnReturnedWereStored'
  BY <1>1, <1>8 DEF CaseInv, OwnReturnedWereStored
<1>11. FabricationsOnly'
  <2> SUFFICES ASSUME NEW q \in Runs, case[q] \in Fabricated
               PROVE  /\ stored'[q] \subseteq {"fabrication"}
                      /\ seeds'[q] \in {<<>>, <<"fabrication">>}
    BY <1>1 DEF FabricationsOnly
  <2>1. CASE q # r
    <3>1. stored'[q] = stored[q] /\ seeds'[q] = seeds[q]
      BY <1>1, <1>2, <2>1 DEF CaseInv, CaseTyped
    <3>2. QED BY <3>1 DEF CaseInv, FabricationsOnly
  <2>2. CASE q = r
    <3>1. seeds[r] = <<"fabrication">> /\ stored[r] \subseteq {"fabrication"}
      BY <1>1, <2>2 DEF CaseInv, FabricationsOnly
    <3>2. label = "fabrication" /\ Tail(seeds[r]) = <<>>
      BY <3>1
    <3>3. stored'[r] \subseteq {"fabrication"}
      BY <1>2, <3>1, <3>2 DEF CaseInv, CaseTyped
    <3>4. seeds'[r] = <<>>
      BY <1>1, <3>2 DEF CaseInv, CaseTyped
    <3>5. QED BY <2>2, <3>3, <3>4
  <2>3. QED BY <2>1, <2>2
<1>12. QED BY <1>1, <1>6, <1>7, <1>9, <1>10, <1>11 DEF CaseInv, Scored

LEMMA SearchCase ==
    ASSUME CaseInv, NEW r \in Runs, Search(r)
    PROVE  CaseInv'
<1>1. PICK found \in SUBSET rows[case[r]] : retrieved' = [retrieved EXCEPT ![r] = found]
  BY DEF Search
<1>2. /\ pc[r] = "add" /\ pc' = [pc EXCEPT ![r] = "inactive"]
      /\ UNCHANGED <<rows, left, case, seeds, stored, result>>
  BY DEF Search, Goto, tables
<1>3. case[r] \in Cases
  BY <1>2 DEF CaseInv, CaseIsTaken, InCase
<1>4. found \in SUBSET Ids
  BY <1>3 DEF CaseInv, CaseTyped
<1>5. CaseTyped'
  BY <1>1, <1>2, <1>4 DEF CaseInv, CaseTyped, Running
<1>6. CaseIsTaken'
  BY <1>2 DEF CaseInv, CaseIsTaken, CaseTyped, InCase
<1>7. OwnReturnedWereStored'
  <2> SUFFICES ASSUME NEW q \in Runs, NEW m \in retrieved'[q], m.run = q
               PROVE  m.label \in stored[q]
    BY <1>2 DEF OwnReturnedWereStored
  <2>1. CASE q = r
    <3>1. m \in rows[case[r]]
      BY <1>1, <2>1 DEF CaseInv, CaseTyped
    <3>2. QED BY <1>3, <2>1, <3>1 DEF CaseInv, OwnRowsWereStored
  <2>2. CASE q # r
    BY <1>1, <2>2 DEF CaseInv, CaseTyped, OwnReturnedWereStored
  <2>3. QED BY <2>1, <2>2
<1>8. QED BY <1>2, <1>5, <1>6, <1>7
       DEF CaseInv, OwnRowsWereStored, FabricationsOnly, Scored

\* How a case is scored: the heart of the matter.
LEMMA FinishCaseCase ==
    ASSUME CaseInv, NEW r \in Runs, FinishCase(r)
    PROVE  CaseInv'
<1> DEFINE c == case[r]
           mode == Classify(r, rows[c] \ active[c])
           Own(l) == [run |-> r, label |-> l]
           faithful == stored[r] = ToSet(Seeds(c)) /\ retrieved[r] = active[c]
           x == [stored |-> "expected" \in stored[r],
                 found |-> Own("expected") \in retrieved[r],
                 lied |-> Own("fabrication") \in retrieved[r],
                 hit |-> RecallHit(r),
                 mode |-> mode,
                 size |-> Cardinality(retrieved[r]),
                 faithful |-> faithful,
                 swept |-> swept[r]]
<1>1. /\ pc[r] = "inactive"
      /\ pc' = [pc EXCEPT ![r] = IF left[r] = {} THEN "judge" ELSE "ready"]
      /\ UNCHANGED <<rows, left, case, seeds, stored, retrieved>>
  BY DEF FinishCase, Goto, tables
<1>2. result' = [result EXCEPT ![r] = [d \in DOMAIN @ \cup {c} |->
                    IF d # c THEN @[d] ELSE x]]
  BY DEF FinishCase, Labels
<1>3. c \in Cases
  BY <1>1 DEF CaseInv, CaseIsTaken, InCase
<1>4. /\ result' = [q \in Runs |-> result'[q]]
      /\ \A q \in Runs : q # r => result'[q] = result[q]
      /\ DOMAIN result'[r] = DOMAIN result[r] \cup {c}
      /\ \A d \in DOMAIN result[r] : d # c => result'[r][d] = result[r][d]
      /\ result'[r][c] = x
  BY <1>2 DEF CaseInv, CaseTyped
<1>5. CaseTyped'
  <2>1. ASSUME NEW q \in Runs PROVE DOMAIN result'[q] \subseteq Cases
    <3>1. DOMAIN result[q] \subseteq Cases
      BY DEF CaseInv, CaseTyped
    <3>2. DOMAIN result'[q] \subseteq DOMAIN result[q] \cup {c}
      BY <1>4
    <3>3. QED BY <1>3, <3>1, <3>2
  <2>2. pc' \in [Runs -> Running \cup {"done", "dead"}]
    BY <1>1 DEF CaseInv, CaseTyped, Running
  <2>3. QED BY <1>1, <1>4, <2>1, <2>2 DEF CaseInv, CaseTyped
<1>6. CaseIsTaken'
  BY <1>1 DEF CaseInv, CaseIsTaken, CaseTyped, InCase
<1>7. ScoredRight(x, c)
  <2>1. \A l \in Labels : Own(l) \in retrieved[r] => l \in stored[r]
    BY DEF CaseInv, OwnReturnedWereStored
  <2>2. x.lied <=> x.mode = "false_fact"
    <3>1. retrieved[r] \cap FabricatedIds(r) # {} <=>
             "fabrication" \in stored[r] /\ Own("fabrication") \in retrieved[r]
      BY DEF FabricatedIds
    <3>2. mode = "false_fact" <=> retrieved[r] \cap FabricatedIds(r) # {}
      BY DEF Classify
    <3>3. QED BY <2>1, <3>1, <3>2 DEF Labels
  <2>3. x.found => x.stored
    BY <2>1 DEF Labels
  <2>4. x.stored => (x.hit <=> x.found)
    <3>1. SUFFICES ASSUME "expected" \in stored[r]
                   PROVE  RecallHit(r) <=> Own("expected") \in retrieved[r]
      OBVIOUS
    <3>2. ExpectedIds(r) = {Own("expected")}
      BY <3>1 DEF ExpectedIds
    <3>3. QED BY <3>2 DEF RecallHit
  <2>5. c \in Fabricated => ~x.stored
    BY DEF CaseInv, FabricationsOnly
  <2>6. QED BY <2>2, <2>3, <2>4, <2>5 DEF ScoredRight
<1>8. Scored'
  <2> SUFFICES ASSUME NEW q \in Runs, NEW d \in DOMAIN result'[q]
               PROVE  ScoredRight(result'[q][d], d)
    BY DEF Scored, ScoredRight
  <2>1. CASE q = r /\ d = c
    BY <1>4, <1>7, <2>1
  <2>2. CASE ~(q = r /\ d = c)
    <3>1. d \in DOMAIN result[q] /\ result'[q][d] = result[q][d]
      BY <1>4, <2>2
    <3>2. QED BY <3>1 DEF CaseInv, Scored
  <2>3. QED BY <2>1, <2>2
<1>9. QED BY <1>1, <1>5, <1>6, <1>8
       DEF CaseInv, OwnRowsWereStored, OwnReturnedWereStored, FabricationsOnly

LEMMA CaseNext == CaseInv /\ [Next]_vars => CaseInv'
<1> SUFFICES ASSUME CaseInv, [Next]_vars PROVE CaseInv'
  OBVIOUS
<1>1. CASE UNCHANGED vars
  BY <1>1 DEF vars, tables, caseVars, CaseInv, CaseTyped, CaseIsTaken,
     OwnRowsWereStored, OwnReturnedWereStored, FabricationsOnly, Scored
<1>2. ASSUME NEW r \in Runs, Step(r) \/ RunDies(r) PROVE CaseInv'
  <2> DEFINE Outside == (Running \cup {"done", "dead"}) \ InCase
  <2>1. CASE StartRun(r) \/ JudgeFails(r) \/ CommitRun(r) \/ TruncateBaseline(r)
             \/ FillBaseline(r) \/ RunDies(r)
             \/ \E setBaseline, fast \in BOOLEAN : Judge(r, setBaseline, fast)
    <3>1. /\ \E l \in Outside : Goto(r, l)
          /\ UNCHANGED <<rows, caseVars>>
      BY <2>1 DEF StartRun, JudgeFails, CommitRun, TruncateBaseline, FillBaseline,
                  RunDies, Judge, Running, InCase, tables
    <3>2. QED BY <3>1, OtherStepCase
  <2>2. QED BY <1>2, <2>1, TakeCaseCase, ClearingCase, AddSeedCase, SearchCase,
               FinishCaseCase DEF Step
<1>3. ASSUME NEW c \in Cases, LandClear(c) PROVE CaseInv'
  BY <1>3 DEF LandClear, CaseInv, CaseTyped, CaseIsTaken, OwnRowsWereStored,
     OwnReturnedWereStored, FabricationsOnly, Scored
<1>4. QED BY <1>1, <1>2, <1>3 DEF Next
-----------------------------------------------------------------------------
(* The second half: verdicts, committed runs, the baseline.                *)

GateTyped ==
    /\ pc \in [Runs -> Running \cup {"done", "dead"}]
    /\ shown \in [Runs -> Baselines]
    /\ verdict \in [Runs -> Verdicts]
    /\ evalRuns \subseteq Runs
    /\ baseline \in Baselines

\* A run is in eval_runs exactly from its commit on.
CommittedRuns ==
    \A r \in Runs : /\ pc[r] \in {"write", "fill", "done"} => r \in evalRuns
                    /\ r \in evalRuns => pc[r] \in {"write", "fill", "done", "dead"}

\* A run with a verdict that counts.
Decided(r) == pc[r] = "commit" \/ r \in evalRuns

\* A verdict is the gate's, over the summary that was shipped or that of a
\* committed run.
VerdictOf(r) ==
    /\ verdict[r].passed <=>
            \/ verdict[r].prior = NoBaseline
            \/ verdict[r].set
            \/ Gate(r, verdict[r].prior, verdict[r].fast)
    /\ verdict[r].prior \notin {NoBaseline} \cup Shipped =>
            /\ verdict[r].prior.run \in evalRuns
            /\ verdict[r].prior = Summary(verdict[r].prior.run)

Verdicted == \A r \in Runs : Decided(r) => VerdictOf(r)

\* In CI one run is under way at a time, and so nobody else changes the
\* baseline that the script has read, and the run is compared with.
OneAtATime ==
    use = "ci" => \A q, r \in Runs : pc[q] \notin Idle /\ pc[r] \notin Idle => q = r

SameBaseline ==
    use = "ci" => \A r \in Runs :
        /\ pc[r] \in Busy => shown[r] = baseline
        /\ pc[r] = "commit" => verdict[r].prior = baseline
        /\ Judged(r) => shown[r] = verdict[r].prior

GateInv ==
    /\ GateTyped
    /\ CommittedRuns
    /\ BaselineIsCommitted
    /\ Verdicted
    /\ OneAtATime
    /\ SameBaseline

IInv == CaseInv /\ GateInv

-----------------------------------------------------------------------------
LEMMA CasesAreFinite == IsFiniteSet(Cases) /\ Total \in Nat
BY CasesAssumption, FS_CardinalityType DEF Cases, Total

LEMMA CountsBounded ==
    ASSUME CaseInv, NEW r \in Runs
    PROVE  Hits(r) \in 0 .. Total /\ FalseFacts(r) \in 0 .. Total
<1>1. DOMAIN result[r] \subseteq Cases
  BY DEF CaseInv, CaseTyped
<1>2. ASSUME NEW S \in SUBSET Cases
      PROVE  Cardinality(S) \in 0 .. Total
  BY CasesAreFinite, FS_Subset, FS_CardinalityType DEF Total
<1>3. QED BY <1>1, <1>2 DEF Hits, FalseFacts

\* What is not about a case sees of a result its counts only.
LEMMA CountsKept ==
    ASSUME NEW r \in Runs, result'[r] = result[r]
    PROVE  /\ Hits(r)' = Hits(r) /\ FalseFacts(r)' = FalseFacts(r)
           /\ Summary(r)' = Summary(r)
BY DEF Hits, FalseFacts, Summary

LEMMA NoBaselineType == NoBaseline \in Baselines
BY CasesAreFinite DEF NoBaseline, Baselines, NoOne, Total

LEMMA ShippedType == Shipped \subseteq Baselines
BY DEF Shipped, Baselines

LEMMA GateInit == Init => GateInv
<1> SUFFICES ASSUME Init PROVE GateInv
  OBVIOUS
<1> USE DEF Init
<1>1. NoVerdict \in Verdicts
  BY NoBaselineType DEF NoVerdict, Verdicts
<1>2. GateTyped
  BY <1>1, NoBaselineType, ShippedType DEF GateTyped, Running
<1>3. CommittedRuns
  BY DEF CommittedRuns
<1>4. BaselineIsCommitted
  BY DEF BaselineIsCommitted
<1>5. Verdicted
  BY DEF Verdicted, Decided
<1>6. OneAtATime
  BY DEF OneAtATime, Idle
<1>7. SameBaseline
  BY NoBaselineType DEF SameBaseline, Busy, InCase, Judged
<1>8. QED BY <1>2, <1>3, <1>4, <1>5, <1>6, <1>7 DEF GateInv

\* Whoever has a verdict keeps it, and what it is based on.
LEMMA VerdictsKept ==
    ASSUME GateInv, evalRuns' = evalRuns, verdict' = verdict,
           \A q \in Runs : Decided(q) => result'[q] = result[q],
           \A q \in Runs : Decided(q)' => Decided(q)
    PROVE  /\ Verdicted'
           /\ baseline' = baseline => BaselineIsCommitted'
<1>1. \A q \in evalRuns : q \in Runs /\ Decided(q) /\ Summary(q)' = Summary(q)
  BY CountsKept DEF GateInv, GateTyped, Decided
<1>2. baseline' = baseline => BaselineIsCommitted'
  BY <1>1 DEF GateInv, BaselineIsCommitted, NoBaseline, Torn, NoOne, Shipped, Cases
<1>3. ASSUME NEW r \in Runs, Decided(r)' PROVE VerdictOf(r)'
  <2>1. Decided(r) /\ VerdictOf(r)
    BY <1>3 DEF GateInv, Verdicted
  <2>2. Hits(r)' = Hits(r) /\ FalseFacts(r)' = FalseFacts(r)
    BY <2>1, CountsKept
  <2>3. Gate(r, verdict[r].prior, verdict[r].fast)' = Gate(r, verdict[r].prior, verdict[r].fast)
    BY <2>2 DEF Gate, WithinTolerance, Total, Cases
  <2>4. QED BY <1>1, <2>1, <2>3 DEF VerdictOf, NoBaseline, NoOne, Shipped, Cases
<1>4. QED BY <1>2, <1>3 DEF Verdicted

\* A run under way that has no verdict yet moves on, or any run dies.
LEMMA UndecidedGate ==
    ASSUME GateInv, NEW r \in Runs, NEW l \in Busy \cup {"dead"}, Goto(r, l),
           pc[r] \in Busy \/ (l = "dead" /\ pc[r] \in Running \ {"start"}),
           l # "dead" \/ result' = result,
           \A q \in Runs : q # r => result'[q] = result[q],
           UNCHANGED <<use, shown, verdict, evalRuns, baseline>>
    PROVE  GateInv'
<1>1. /\ pc' = [pc EXCEPT ![r] = l]
      /\ pc \in [Runs -> Running \cup {"done", "dead"}]
      /\ l \in Running \cup {"done", "dead"}
  BY DEF Goto, GateInv, GateTyped, Busy, InCase, Running
<1>2. pc'[r] = l /\ \A q \in Runs : q # r => pc'[q] = pc[q]
  BY <1>1
<1>3. GateTyped'
  BY <1>1 DEF GateInv, GateTyped
<1>4. CommittedRuns'
  BY <1>2 DEF GateInv, CommittedRuns, Busy, InCase
<1>5. \A q \in Runs : Decided(q)' => Decided(q)
  BY <1>2 DEF Decided, Busy, InCase
<1>6. \A q \in Runs : Decided(q) => result'[q] = result[q]
  BY DEF GateInv, CommittedRuns, Decided, Busy, InCase
<1>7. Verdicted' /\ BaselineIsCommitted'
  BY <1>5, <1>6, VerdictsKept
<1>8. OneAtATime'
  BY <1>2 DEF GateInv, OneAtATime, Idle, Busy, InCase, Running
<1>9. SameBaseline'
  BY <1>2 DEF GateInv, SameBaseline, Judged, Busy, InCase
<1>10. QED BY <1>3, <1>4, <1>7, <1>8, <1>9 DEF GateInv

LEMMA StartRunGate ==
    ASSUME GateInv, NEW r \in Runs, StartRun(r)
    PROVE  GateInv'
<1>1. PICK l \in {"ready", "dead"} : pc' = [pc EXCEPT ![r] = l]
  BY DEF StartRun, Goto
<1>2. /\ pc[r] = "start"
      /\ use = "ci" => \A q \in Runs : pc[q] \in Idle
      /\ shown' = [shown EXCEPT ![r] = baseline]
      /\ UNCHANGED <<use, result, verdict, evalRuns, baseline>>
  BY DEF StartRun, ReadBaseline, Idle, caseVars
<1>3. /\ pc'[r] = l /\ shown'[r] = baseline
      /\ \A q \in Runs : q # r => pc'[q] = pc[q] /\ shown'[q] = shown[q]
  BY <1>1, <1>2 DEF GateInv, GateTyped
<1>4. GateTyped'
  <2>1. pc' \in [Runs -> Running \cup {"done", "dead"}]
    BY <1>1 DEF GateInv, GateTyped, Running
  <2>2. shown' \in [Runs -> Baselines]
    BY <1>2 DEF GateInv, GateTyped
  <2>3. QED BY <1>2, <2>1, <2>2 DEF GateInv, GateTyped
<1>5. CommittedRuns'
  BY <1>2, <1>3 DEF GateInv, CommittedRuns
<1>6. \A q \in Runs : Decided(q)' => Decided(q)
  BY <1>2, <1>3 DEF Decided
<1>7. Verdicted' /\ BaselineIsCommitted'
  BY <1>2, <1>6, VerdictsKept
<1>8. OneAtATime'
  BY <1>2, <1>3 DEF GateInv, OneAtATime, Idle
<1>9. SameBaseline'
  BY <1>2, <1>3 DEF GateInv, SameBaseline, Judged, Busy, InCase
<1>10. QED BY <1>4, <1>5, <1>7, <1>8, <1>9 DEF GateInv

LEMMA JudgeGate ==
    ASSUME IInv, NEW r \in Runs, NEW setBaseline \in BOOLEAN, NEW fast \in BOOLEAN,
           Judge(r, setBaseline, fast)
    PROVE  GateInv'
<1> DEFINE v == [passed |-> baseline = NoBaseline \/ setBaseline \/ Gate(r, baseline, fast),
                 fast |-> fast, set |-> setBaseline, prior |-> baseline]
<1>1. /\ pc[r] = "judge" /\ baseline # Torn
      /\ verdict' = [verdict EXCEPT ![r] = v]
      /\ pc' = [pc EXCEPT ![r] = "commit"]
      /\ UNCHANGED <<use, result, shown, evalRuns, baseline>>
  BY DEF Judge, ReadBaseline, Goto, caseVars
<1>2. /\ pc'[r] = "commit" /\ verdict'[r] = v
      /\ \A q \in Runs : q # r => pc'[q] = pc[q] /\ verdict'[q] = verdict[q]
  BY <1>1 DEF IInv, GateInv, GateTyped
<1>3. v \in Verdicts
  BY DEF Verdicts, IInv, GateInv, GateTyped
<1>4. GateTyped'
  BY <1>1, <1>3 DEF IInv, GateInv, GateTyped, Running
<1>5. CommittedRuns'
  BY <1>1, <1>2 DEF IInv, GateInv, CommittedRuns
<1>6. \A q \in Runs : /\ Hits(q)' = Hits(q) /\ FalseFacts(q)' = FalseFacts(q)
                      /\ Summary(q)' = Summary(q)
  BY <1>1, CountsKept
<1>7. BaselineIsCommitted'
  BY <1>1, <1>6
     DEF IInv, GateInv, GateTyped, BaselineIsCommitted, NoBaseline, Torn, NoOne, Shipped, Cases
<1>8. Verdicted'
  <2> SUFFICES ASSUME NEW q \in Runs, Decided(q)' PROVE VerdictOf(q)'
    BY DEF Verdicted
  <2>1. \A b \in Baselines, f \in BOOLEAN : Gate(q, b, f)' = Gate(q, b, f)
    BY <1>6 DEF Gate, WithinTolerance, Total, Cases
  <2>2. CASE q # r
    <3>1. Decided(q) /\ VerdictOf(q)
      BY <1>1, <1>2, <2>2 DEF IInv, GateInv, Verdicted, Decided
    <3>2. verdict[q].prior \in Baselines /\ verdict[q].fast \in BOOLEAN
      BY DEF IInv, GateInv, GateTyped, Verdicts
    <3>3. QED BY <1>1, <1>2, <1>6, <2>1, <2>2, <3>1, <3>2
          DEF VerdictOf, NoBaseline, NoOne, Shipped, Cases, IInv, GateInv, GateTyped
  <2>3. CASE q = r
    <3>1. baseline \in Baselines
      BY DEF IInv, GateInv, GateTyped
    <3>2. baseline \notin {NoBaseline} \cup Shipped => /\ baseline.run \in evalRuns
                                                     /\ baseline = Summary(baseline.run)
      BY <1>1 DEF IInv, GateInv, BaselineIsCommitted
    <3>3. QED BY <1>1, <1>2, <1>6, <2>1, <2>3, <3>1, <3>2
          DEF VerdictOf, NoBaseline, NoOne, Shipped, Cases, IInv, GateInv, GateTyped
  <2>4. QED BY <2>2, <2>3
<1>9. OneAtATime'
  BY <1>1, <1>2 DEF IInv, GateInv, OneAtATime, Idle
<1>10. SameBaseline'
  BY <1>1, <1>2 DEF IInv, GateInv, SameBaseline, Judged, Busy, InCase
<1>11. QED BY <1>4, <1>5, <1>7, <1>8, <1>9, <1>10 DEF GateInv

LEMMA CommitRunGate ==
    ASSUME GateInv, NEW r \in Runs, CommitRun(r)
    PROVE  GateInv'
<1>1. PICK l \in {"write", "done"} : pc' = [pc EXCEPT ![r] = l]
  BY DEF CommitRun, Goto
<1>2. /\ pc[r] = "commit"
      /\ evalRuns' = evalRuns \cup {r}
      /\ UNCHANGED <<use, result, shown, verdict, baseline>>
  BY DEF CommitRun, caseVars
<1>3. pc'[r] = l /\ \A q \in Runs : q # r => pc'[q] = pc[q]
  BY <1>1 DEF GateInv, GateTyped
<1>4. GateTyped'
  BY <1>1, <1>2 DEF GateInv, GateTyped, Running
<1>5. CommittedRuns'
  BY <1>2, <1>3 DEF GateInv, CommittedRuns
<1>6. \A q \in Runs : /\ Hits(q)' = Hits(q) /\ FalseFacts(q)' = FalseFacts(q)
                      /\ Summary(q)' = Summary(q)
  BY <1>2, CountsKept
<1>7. BaselineIsCommitted'
  BY <1>2, <1>6
     DEF GateInv, GateTyped, BaselineIsCommitted, NoBaseline, Torn, NoOne, Shipped, Cases
<1>8. Verdicted'
  <2> SUFFICES ASSUME NEW q \in Runs, Decided(q)' PROVE VerdictOf(q)'
    BY DEF Verdicted
  <2>1. Decided(q) /\ VerdictOf(q)
    BY <1>2, <1>3 DEF GateInv, Verdicted, Decided
  <2>2. Gate(q, verdict[q].prior, verdict[q].fast)' = Gate(q, verdict[q].prior, verdict[q].fast)
    BY <1>2, <1>6 DEF Gate, WithinTolerance, Total, Cases
  <2>3. QED BY <1>2, <1>6, <2>1, <2>2 
       DEF VerdictOf, NoBaseline, NoOne, Shipped, Cases, GateInv, GateTyped
<1>9. OneAtATime'
  BY <1>2, <1>3 DEF GateInv, OneAtATime, Idle
<1>10. SameBaseline'
  BY <1>2, <1>3 DEF GateInv, SameBaseline, Judged, Busy, InCase
<1>11. QED BY <1>4, <1>5, <1>7, <1>8, <1>9, <1>10 DEF GateInv

\* The baseline is overwritten, in two steps, by a run that has committed.
LEMMA WriteGate ==
    ASSUME IInv, NEW r \in Runs, TruncateBaseline(r) \/ FillBaseline(r)
    PROVE  GateInv'
<1>1. PICK l \in {"fill", "done"} : pc' = [pc EXCEPT ![r] = l]
  BY DEF TruncateBaseline, FillBaseline, Goto
<1>2. /\ pc[r] \in {"write", "fill"}
      /\ baseline' \in {Torn, Summary(r)}
      /\ UNCHANGED <<use, result, shown, verdict, evalRuns>>
  BY DEF TruncateBaseline, FillBaseline, caseVars
<1>3. pc'[r] = l /\ \A q \in Runs : q # r => pc'[q] = pc[q]
  BY <1>1 DEF IInv, GateInv, GateTyped
<1>4. r \in evalRuns
  BY <1>2 DEF IInv, GateInv, CommittedRuns
<1>5. baseline' \in Baselines
  <2>1. Torn \in Baselines
    BY CasesAreFinite DEF Torn, Baselines, Total
  <2>2. Summary(r) \in Baselines
    BY CountsBounded DEF IInv, Summary, Baselines, Total
  <2>3. QED BY <1>2, <2>1, <2>2
<1>6. GateTyped'
  BY <1>1, <1>2, <1>5 DEF IInv, GateInv, GateTyped, Running
<1>7. CommittedRuns'
  BY <1>2, <1>3 DEF IInv, GateInv, CommittedRuns
<1>8. \A q \in Runs : Decided(q)' => Decided(q)
  BY <1>2, <1>3 DEF Decided
<1>9. Verdicted'
  BY <1>2, <1>8, VerdictsKept DEF IInv
<1>10. BaselineIsCommitted'
  <2>1. Summary(r).run = r /\ Summary(r)' = Summary(r)
    BY <1>2, CountsKept DEF Summary
  <2>2. QED BY <1>2, <1>4, <2>1 DEF BaselineIsCommitted, Torn
<1>11. OneAtATime'
  BY <1>2, <1>3 DEF IInv, GateInv, OneAtATime, Idle
<1>12. SameBaseline'
  BY <1>2, <1>3 DEF IInv, GateInv, OneAtATime, SameBaseline, Judged, Busy, InCase, Idle
<1>13. QED BY <1>6, <1>7, <1>9, <1>10, <1>11, <1>12 DEF GateInv

LEMMA GateNext == IInv /\ [Next]_vars => GateInv'
<1> SUFFICES ASSUME IInv, [Next]_vars PROVE GateInv'
  OBVIOUS
<1>1. CASE UNCHANGED vars
  <2>1. UNCHANGED <<use, pc, result, shown, verdict, evalRuns, baseline>>
    BY <1>1 DEF vars, caseVars
  <2>2. Verdicted' /\ BaselineIsCommitted'
    BY <2>1, VerdictsKept DEF IInv, Decided
  <2>3. QED BY <2>1, <2>2 DEF IInv, GateInv, GateTyped, CommittedRuns, OneAtATime,
                             SameBaseline, Judged
<1>2. ASSUME NEW r \in Runs, Step(r) \/ RunDies(r) PROVE GateInv'
  <2>1. CASE \/ TakeCase(r) \/ SelectRows(r) \/ DeleteRows(r)
             \/ ClearNodes(r) \/ ClearGraph(r) \/ ClearTimesOut(r)
             \/ AddSeed(r) \/ Search(r) \/ FinishCase(r) \/ JudgeFails(r) \/ RunDies(r)
    <3>1. CASE FinishCase(r)
      <4>1. /\ \E l \in Busy : Goto(r, l)
            /\ pc[r] \in Busy
            /\ \A q \in Runs : q # r => result'[q] = result[q]
            /\ UNCHANGED <<use, shown, verdict, evalRuns, baseline>>
        BY <3>1 DEF FinishCase, Busy, InCase, IInv, CaseInv, CaseTyped
      <4>2. \A l \in Busy : l # "dead"
        BY DEF Busy, InCase
      <4>3. QED BY <4>1, <4>2, UndecidedGate DEF IInv
    <3>2. CASE AddSeed(r)
      <4>1. Goto(r, "add")
        BY <3>2 DEF AddSeed, Goto, IInv, CaseInv, CaseTyped
      <4>2. /\ "add" \in Busy /\ pc[r] \in Busy
            /\ UNCHANGED <<use, result, shown, verdict, evalRuns, baseline>>
        BY <3>2 DEF AddSeed, Busy, InCase
      <4>3. QED BY <4>1, <4>2, UndecidedGate DEF IInv
    <3>3. CASE JudgeFails(r) \/ RunDies(r)
      <4>1. /\ Goto(r, "dead") /\ pc[r] \in Running \ {"start"}
            /\ UNCHANGED <<use, result, shown, verdict, evalRuns, baseline>>
        BY <3>3 DEF JudgeFails, RunDies, Running, caseVars
      <4>2. QED BY <4>1, UndecidedGate DEF IInv
    <3>4. CASE \/ TakeCase(r) \/ SelectRows(r) \/ DeleteRows(r)
               \/ ClearNodes(r) \/ ClearGraph(r) \/ ClearTimesOut(r) \/ Search(r)
      <4>1. /\ \E l \in Busy \cup {"dead"} : Goto(r, l)
            /\ pc[r] \in Busy
            /\ UNCHANGED <<use, result, shown, verdict, evalRuns, baseline>>
        BY <3>4 DEF TakeCase, SelectRows, DeleteRows, ClearNodes, ClearGraph, ClearTimesOut,
                    Search, Busy, InCase, caseVars
      <4>2. QED BY <4>1, UndecidedGate DEF IInv
    <3>5. QED BY <2>1, <3>1, <3>2, <3>3, <3>4
  <2>2. QED BY <1>2, <2>1, StartRunGate, JudgeGate, CommitRunGate, WriteGate DEF Step, IInv
<1>3. ASSUME NEW c \in Cases, LandClear(c) PROVE GateInv'
  <2>1. UNCHANGED <<use, pc, result, shown, verdict, evalRuns, baseline>>
    BY <1>3 DEF LandClear
  <2>2. Verdicted' /\ BaselineIsCommitted'
    BY <2>1, VerdictsKept DEF IInv, Decided
  <2>3. QED BY <2>1, <2>2 DEF IInv, GateInv, GateTyped, CommittedRuns, OneAtATime,
                             SameBaseline, Judged
<1>4. QED BY <1>1, <1>2, <1>3 DEF Next

-----------------------------------------------------------------------------
\* The inductive invariant.
THEOREM Invariance == Spec => []IInv
<1>1. Init => IInv
  BY CaseInit, GateInit DEF IInv
<1>2. IInv /\ [Next]_vars => IInv'
  BY CaseNext, GateNext DEF IInv
<1>3. QED BY <1>1, <1>2, PTL DEF Spec

\* baseline.json, once the one that was shipped is gone, is the summary of a
\* committed run, whatever overlaps or dies.
THEOREM BaselineOfARun == Spec => []BaselineIsCommitted
<1>1. IInv => BaselineIsCommitted
  BY DEF IInv, GateInv
<1>2. QED BY <1>1, Invariance, PTL

\* Runs pass without a comparison only before the first baseline.
THEOREM GateIsNotSkipped == Spec => []GateSkippedOnlyBeforeBaseline
<1>1. IInv => GateSkippedOnlyBeforeBaseline
  BY DEF IInv, GateInv, SameBaseline, GateSkippedOnlyBeforeBaseline
<1>2. QED BY <1>1, Invariance, PTL

\* A run that passed a comparison passed the gate over the baseline's run.
LEMMA ComparedRuns ==
    ASSUME IInv, NEW r \in Runs, NEW b \in Runs, Compared(r, b)
    PROVE  /\ WithinTolerance(Hits(r), Hits(b))
           /\ FalseFacts(r) <= FalseFacts(b)
<1>1. Decided(r) /\ verdict[r].passed /\ ~verdict[r].set /\ verdict[r].prior.run = b
  BY DEF Compared, Judged, Decided, IInv, GateInv, CommittedRuns
<1>2. VerdictOf(r)
  BY <1>1 DEF IInv, GateInv, Verdicted
<1>3. verdict[r].prior \notin {NoBaseline} \cup Shipped
  BY <1>1, RunsAssumption DEF NoBaseline, NoOne, Shipped
<1>4. Gate(r, Summary(b), verdict[r].fast)
  BY <1>1, <1>2, <1>3 DEF VerdictOf
<1>5. QED BY <1>4 DEF Gate, Summary

\* A run that passes returns fabrications in no more cases than the run that
\* is the baseline.
THEOREM MadeUpFactsAreCaught == Spec => []MadeUpFactsFail
<1>1. IInv => MadeUpFactsFail
  <2> SUFFICES ASSUME IInv, NEW r \in Runs, NEW b \in Runs, Compared(r, b)
               PROVE  Lies(r) <= Lies(b)
    BY DEF MadeUpFactsFail
  <2>1. ASSUME NEW q \in Runs PROVE FalseFacts(q) = Lies(q)
    <3>1. \A c \in DOMAIN result[q] :
            result[q][c].lied <=> result[q][c].mode = "false_fact"
      BY DEF IInv, CaseInv, Scored, ScoredRight
    <3>2. {c \in DOMAIN result[q] : result[q][c].mode = "false_fact"} =
             {c \in DOMAIN result[q] : result[q][c].lied}
      BY <3>1
    <3>3. QED BY <3>2 DEF FalseFacts, Lies
  <2>2. QED BY <2>1, ComparedRuns
<1>2. QED BY <1>1, Invariance, PTL

\* The checks that the CI report shows all hold exactly if the run passed.
THEOREM ReportTellsVerdict == Spec => []ReportExplainsVerdict
<1>1. IInv => ReportExplainsVerdict
  <2> SUFFICES ASSUME IInv, use = "ci", NEW r \in Runs, Judged(r),
                      ~verdict[r].set, shown[r] # NoBaseline
               PROVE  verdict[r].passed = Checks(r, shown[r], verdict[r].fast)
    BY DEF ReportExplainsVerdict
  <2>1. shown[r] = verdict[r].prior
    BY DEF IInv, GateInv, SameBaseline
  <2>2. VerdictOf(r)
    BY DEF Judged, Decided, IInv, GateInv, CommittedRuns, Verdicted
  <2>3. verdict[r].passed \in BOOLEAN
    BY DEF IInv, GateInv, GateTyped, Verdicts
  <2>4. verdict[r].passed <=> Gate(r, shown[r], verdict[r].fast)
    BY <2>1, <2>2 DEF VerdictOf
  <2>5. QED BY <2>3, <2>4 DEF Gate, Checks
<1>2. QED BY <1>1, Invariance, PTL

\* What the gate does catch: a drop of recall of a backend that stored every
\* expected memory.  A hit on such a case is a memory returned, and no run,
\* the baseline's neither, returns an expected memory without a hit.
THEOREM RecallDropsAreCaught == Spec => []StoredRecallDropFails
<1> DEFINE Regular(q) == {c \in DOMAIN result[q] : c \notin Fabricated /\ result[q][c].hit}
           Fooled(q) == {c \in DOMAIN result[q] \cap Fabricated : result[q][c].hit}
           Found(q) == {c \in DOMAIN result[q] : result[q][c].found}
<1>1. ASSUME IInv, NEW q \in Runs
      PROVE  /\ Hits(q) = Cardinality(Regular(q)) + Cardinality(Fooled(q))
             /\ Cardinality(Regular(q)) \in Nat /\ Cardinality(Fooled(q)) \in Nat
             /\ Cardinality(Found(q)) \in Nat
             /\ Cardinality(Found(q)) <= Cardinality(Regular(q))
             /\ (\A c \in Cases \ Fabricated : result[q][c].stored)
                    => Cardinality(Found(q)) = Cardinality(Regular(q))
  <2>1. DOMAIN result[q] \subseteq Cases
    BY <1>1 DEF IInv, CaseInv, CaseTyped
  <2>2. \A c \in DOMAIN result[q] : ScoredRight(result[q][c], c)
    BY <1>1 DEF IInv, CaseInv, Scored
  <2>3. /\ IsFiniteSet(Regular(q)) /\ IsFiniteSet(Fooled(q)) /\ IsFiniteSet(Found(q))
        /\ Cardinality(Regular(q)) \in Nat /\ Cardinality(Fooled(q)) \in Nat
        /\ Cardinality(Found(q)) \in Nat
    <3>1. Regular(q) \in SUBSET Cases /\ Fooled(q) \in SUBSET Cases /\ Found(q) \in SUBSET Cases
      BY <2>1
    <3>2. \A S \in SUBSET Cases : IsFiniteSet(S) /\ Cardinality(S) \in Nat
      BY CasesAreFinite, FS_Subset, FS_CardinalityType
    <3>3. QED BY <3>1, <3>2
  <2>4. Hits(q) = Cardinality(Regular(q)) + Cardinality(Fooled(q))
    <3>1. {c \in DOMAIN result[q] : result[q][c].hit} = Regular(q) \cup Fooled(q)
      OBVIOUS
    <3>2. Regular(q) \cap Fooled(q) = {}
      OBVIOUS
    <3>3. Cardinality(Regular(q) \cup Fooled(q)) =
            Cardinality(Regular(q)) + Cardinality(Fooled(q)) - Cardinality({})
      BY <2>3, <3>2, FS_Union
    <3>4. Hits(q) = Cardinality(Regular(q) \cup Fooled(q))
      BY <3>1 DEF Hits
    <3> HIDE DEF Regular, Fooled
    <3>5. QED BY <2>3, <3>3, <3>4, FS_EmptySet
  <2>5. Found(q) \subseteq Regular(q)
    BY <2>2 DEF ScoredRight
  <2>6. Cardinality(Found(q)) <= Cardinality(Regular(q))
    BY <2>3, <2>5, FS_Subset
  <2>7. ASSUME \A c \in Cases \ Fabricated : result[q][c].stored
        PROVE  Found(q) = Regular(q)
    BY <2>1, <2>2, <2>5, <2>7 DEF ScoredRight
  <2>8. QED BY <2>3, <2>4, <2>6, <2>7
<1>2. IInv => StoredRecallDropFails
  <2> SUFFICES ASSUME IInv, NEW r \in Runs, NEW b \in Runs, Compared(r, b),
                      HitsOnFabricated(r) <= HitsOnFabricated(b),
                      \A c \in Cases \ Fabricated : result[r][c].stored
               PROVE  WithinTolerance(Returned(r), Returned(b))
    BY DEF StoredRecallDropFails
  <2>1. 20 * Hits(r) + Total >= 20 * Hits(b)
    BY ComparedRuns DEF WithinTolerance
  <2>2. Cardinality(Fooled(r)) <= Cardinality(Fooled(b))
    BY DEF HitsOnFabricated
  <2>3. 20 * Cardinality(Found(r)) + Total >= 20 * Cardinality(Found(b))
    <3> HIDE DEF Regular, Fooled, Found
    <3>1. Cardinality(Found(r)) = Cardinality(Regular(r))
      BY <1>1
    <3>2. QED BY <1>1, <2>1, <2>2, <3>1, CasesAreFinite
  <2>4. QED BY <2>3 DEF WithinTolerance, Returned
<1>3. QED BY <1>2, Invariance, PTL

\* The report of a run that failed shows a metric that is worse than the
\* baseline beside it, but for made-up facts over a baseline without any.
THEOREM FailuresAreShown == Spec => []FailureIsShown
<1>1. IInv => FailureIsShown
  <2> SUFFICES ASSUME IInv, NEW r \in evalRuns,
                      ~verdict[r].passed, verdict[r].fast, verdict[r].prior = ReadBaseline
               PROVE  \/ RecallRow(r).value < RecallRow(r).base
                      \/ FalseFactRow(r).value > FalseFactRow(r).base
                      \/ ReadBaseline.falseFacts = 0 /\ FalseFacts(r) > 0
    BY DEF FailureIsShown
  <2>1. r \in Runs /\ Decided(r)
    BY DEF IInv, GateInv, GateTyped, Decided
  <2>2. ~Gate(r, ReadBaseline, verdict[r].fast)
    BY <2>1 DEF IInv, GateInv, Verdicted, VerdictOf
  <2>3. \/ ~WithinTolerance(Hits(r), ReadBaseline.hits)
        \/ ~(FalseFacts(r) <= ReadBaseline.falseFacts)
    BY <2>2 DEF Gate
  <2>4. /\ Hits(r) \in Nat /\ FalseFacts(r) \in Nat /\ Total \in Nat
        /\ ReadBaseline.hits \in Nat /\ ReadBaseline.falseFacts \in Nat
    <3>1. /\ ReadBaseline.hits \in 0 .. Total /\ ReadBaseline.falseFacts \in 0 .. Total
      BY DEF IInv, GateInv, GateTyped, Baselines, ReadBaseline, Total
    <3>2. QED BY <2>1, <3>1, CountsBounded, CasesAreFinite DEF IInv
  <2>5. CASE ~WithinTolerance(Hits(r), ReadBaseline.hits)
    BY <2>4, <2>5 DEF WithinTolerance, RecallRow, ShownBase
  <2>6. CASE ~(FalseFacts(r) <= ReadBaseline.falseFacts)
    BY <2>4, <2>6 DEF FalseFactRow, ShownBase
  <2>7. QED BY <2>3, <2>5, <2>6
<1>2. QED BY <1>1, Invariance, PTL

-----------------------------------------------------------------------------
(* Leftovers.  One run at a time, what the two stores hold of a case's     *)
(* user from its clearing to its search is the run's own doing, unless a   *)
(* clear that was given up has swept it between two seeds.                 *)

TablesTyped ==
    /\ active \in [Cases -> SUBSET Ids]
    /\ \A c \in Cases : active[c] \subseteq rows[c]
    /\ edges \in [Cases -> Seq(Ids)]
    /\ late \in [Cases -> Nat]
    /\ doomed \in [Runs -> SUBSET Ids]
    /\ swept \in [Runs -> BOOLEAN]

\* The rows of a run's seeds that have these labels.
RowsOf(r, labels) == {[run |-> r, label |-> l] : l \in labels}

\* A case's labels, and those whose seeds are active once all are stored.
LabelsOf(c) == IF c \in Fabricated THEN {"fabrication"} ELSE {"other", "expected"}
KeptOf(c) == IF c \in Plain \cup Fabricated THEN LabelsOf(c) ELSE {"expected"}

Seeded(r, c) ==
    stored[r] = LabelsOf(c) => rows[c] = RowsOf(r, LabelsOf(c)) /\ active[c] = RowsOf(r, KeptOf(c))

\* While seeds are added: none has been, the first has, or all have.
Seeding(r, c) ==
    \/ seeds[r] = Seeds(c) /\ stored[r] = {} /\ rows[c] = {} /\ edges[c] = <<>>
    \/ /\ seeds[r] = <<"expected">> /\ c \notin Fabricated
       /\ \/ stored[r] = {}
          \/ LET first == [run |-> r, label |-> "other"]
             IN /\ stored[r] = {"other"}
                /\ rows[c] = {first} /\ active[c] = {first} /\ edges[c] = <<first>>
    \/ seeds[r] = <<>> /\ Seeded(r, c)

ClearingGraph == {"clearNodes", "clearGraph", "clearAgain"}

Undisturbed(r, c) ==
    /\ pc[r] \in {"clear", "delete"} \cup ClearingGraph => stored[r] = {} /\ seeds[r] = Seeds(c)
    /\ pc[r] = "delete" => doomed[r] = rows[c]
    /\ pc[r] \in ClearingGraph => rows[c] = {}
    /\ pc[r] = "add" => swept[r] \/ Seeding(r, c)
    /\ pc[r] = "inactive" => swept[r] \/ Seeded(r, c)

AllUndisturbed == use = "ci" => \A r \in Runs : pc[r] \in InCase => Undisturbed(r, case[r])

\* What a case comes to if the backend does as it should.
AsItShould(x, c) ==
    /\ x.hit = (c \notin Fabricated)
    /\ x.mode = IF c \in Fabricated THEN "false_fact" ELSE "none"
    /\ x.size = Cardinality(KeptOf(c))

FaithfulAsItShould ==
    use = "ci" => \A r \in Runs : \A c \in DOMAIN result[r] :
        result[r][c].faithful /\ ~result[r][c].swept => AsItShould(result[r][c], c)

LeftInv == TablesTyped /\ AllUndisturbed /\ FaithfulAsItShould

-----------------------------------------------------------------------------
LEMMA SeedsOfCase ==
    ASSUME NEW c \in Cases
    PROVE  /\ ToSet(Seeds(c)) = LabelsOf(c)
           /\ Seeds(c) # <<>>
           /\ LabelsOf(c) \subseteq Labels
           /\ KeptOf(c) \subseteq LabelsOf(c)
<1>1. ToSet(<<"fabrication">>) = {"fabrication"}
  BY DEF ToSet
<1>2. ToSet(<<"other", "expected">>) = {"other", "expected"}
  BY DEF ToSet
<1>3. QED BY <1>1, <1>2 DEF Seeds, LabelsOf, KeptOf, Labels

\* A set of numbers that is not empty has a least one.
LEMMA Least ==
    ASSUME NEW T \in SUBSET Nat, T # {}
    PROVE  \E x \in T : \A y \in T : x <= y
<1> DEFINE R == OpToRel(<, Nat)
<1>1. IsWellFoundedOn(R, Nat)
  BY NatLessThanWellFounded
<1>2. PICK x \in T : \A y \in T : <<y, x>> \notin R
  <2> HIDE DEF R
  <2>1. QED BY <1>1, WFMin
<1>3. \A y \in T : ~ (y < x)
  BY <1>2 DEF OpToRel
<1>4. QED BY <1>3

\* One with an upper bound has a greatest one.
LEMMA Greatest ==
    ASSUME NEW n \in Nat, NEW S \in SUBSET (1 .. n), S # {}
    PROVE  Max(S) \in S
<1> DEFINE D == {n - i : i \in S}
<1>0. \A i \in S : i \in 1 .. n
  OBVIOUS
<1>1. D \in SUBSET Nat /\ D # {}
  <2>1. \A i \in S : n - i \in Nat
    BY <1>0
  <2>2. QED BY <2>1
<1>2. PICK d \in D : \A e \in D : d <= e
  <2> HIDE DEF D
  <2>1. QED BY <1>1, Least
<1>3. PICK m \in S : d = n - m
  BY <1>2
<1>4. \A i \in S : m >= i
  <2> SUFFICES ASSUME NEW i \in S PROVE m >= i
    OBVIOUS
  <2>1. n - m <= n - i
    BY <1>2, <1>3
  <2>2. QED BY <1>0, <2>1
<1>5. QED BY <1>4 DEF Max

LEMMA SupersededPlace ==
    ASSUME NEW c \in Cases, edges[c] \in Seq(Ids), NEW label
    PROVE  Superseded(c, label) \in 0 .. Len(edges[c])
<1> DEFINE I == {i \in 1 .. Len(edges[c]) : Topic(c, edges[c][i].label) = Topic(c, label)}
           latest == IF I # {} THEN Max(I) ELSE 0
<1>1. Len(edges[c]) \in Nat /\ I \in SUBSET (1 .. Len(edges[c]))
  OBVIOUS
<1>2. I # {} => Max(I) \in I
  BY <1>1, Greatest
<1>3. latest \in 0 .. Len(edges[c])
  BY <1>1, <1>2
<1>4. Superseded(c, label) \in {latest, 0}
  BY DEF Superseded, SelectLastInSeq
<1> HIDE DEF latest
<1>5. QED BY <1>1, <1>3, <1>4

LEMMA RemovedType ==
    ASSUME NEW S, NEW s \in Seq(S), NEW i \in 0 .. Len(s)
    PROVE  RemoveAt(s, i) \in Seq(S)
<1>1. SubSeq(s, 1, i - 1) \in Seq(S)
  BY SubSeqProperties
<1>2. SubSeq(s, i + 1, Len(s)) \in Seq(S)
  BY SubSeqProperties
<1>3. QED BY <1>1, <1>2 DEF RemoveAt

LEMMA TablesInit == Init => TablesTyped
BY DEF Init, TablesTyped

LEMMA TablesNext == CaseInv /\ TablesTyped /\ [Next]_vars => TablesTyped'
<1> SUFFICES ASSUME CaseInv, TablesTyped, [Next]_vars PROVE TablesTyped'
  OBVIOUS
<1>1. CASE UNCHANGED <<tables, doomed, swept>>
  BY <1>1 DEF tables, TablesTyped
<1>2. ASSUME NEW r \in Runs, SelectRows(r) PROVE TablesTyped'
  <2>1. doomed' = [doomed EXCEPT ![r] = rows[case[r]]] /\ UNCHANGED <<tables, swept>>
    BY <1>2 DEF SelectRows, UserRows
  <2>2. rows[case[r]] \in SUBSET Ids
    BY <1>2 DEF SelectRows, CaseInv, CaseTyped, CaseIsTaken, InCase
  <2>3. QED BY <2>1, <2>2 DEF TablesTyped, tables
<1>3. ASSUME NEW r \in Runs, DeleteRows(r) PROVE TablesTyped'
  <2> DEFINE c == case[r]
  <2>1. /\ rows' = [rows EXCEPT ![c] = @ \ doomed[r]]
        /\ active' = [active EXCEPT ![c] = @ \ doomed[r]]
        /\ doomed' = [doomed EXCEPT ![r] = {}]
        /\ UNCHANGED <<edges, late, swept>>
    BY <1>3 DEF DeleteRows
  <2>2. c \in Cases
    BY <1>3 DEF DeleteRows, CaseInv, CaseIsTaken, InCase
  <2>3. active[c] \ doomed[r] \in SUBSET Ids
    BY <2>2 DEF TablesTyped
  <2>4. active' \in [Cases -> SUBSET Ids] /\ doomed' \in [Runs -> SUBSET Ids]
    BY <2>1, <2>3 DEF TablesTyped
  <2>5. \A d \in Cases : active'[d] \subseteq rows'[d]
    BY <2>1, <2>2 DEF TablesTyped, CaseInv, CaseTyped
  <2>6. QED BY <2>1, <2>4, <2>5 DEF TablesTyped
<1>4. ASSUME NEW r \in Runs, ClearGraph(r) PROVE TablesTyped'
  <2>1. edges' = [edges EXCEPT ![case[r]] = <<>>] /\ UNCHANGED <<rows, active, late, doomed, swept>>
    BY <1>4 DEF ClearGraph, caseVars
  <2>2. <<>> \in Seq(Ids)
    OBVIOUS
  <2>3. QED BY <2>1, <2>2 DEF TablesTyped
<1>5. ASSUME NEW r \in Runs, AddSeed(r) PROVE TablesTyped'
  <2> DEFINE c == case[r]
             label == Head(seeds[r])
             id == [run |-> r, label |-> label]
             at == Superseded(c, label)
             old == {edges[c][i] : i \in {at} \ {0}}
  <2>1. UNCHANGED <<doomed, late, swept>>
    BY <1>5 DEF AddSeed, tables
  <2>2. CASE UNCHANGED tables
    BY <2>1, <2>2, <1>1
  <2>3. CASE /\ rows' = [rows EXCEPT ![c] = @ \cup {id}]
             /\ active' = [active EXCEPT ![c] = (@ \cup {id}) \ old]
             /\ edges' = [edges EXCEPT ![c] = Append(RemoveAt(@, at), id)]
    <3>1. c \in Cases /\ label \in Labels
      BY <1>5 DEF AddSeed, CaseInv, CaseIsTaken, CaseTyped, InCase
    <3>2. id \in Ids
      BY <3>1 DEF Ids
    <3>3. edges[c] \in Seq(Ids)
      BY <3>1 DEF TablesTyped
    <3>4. RemoveAt(edges[c], at) \in Seq(Ids)
      BY <3>1, <3>3, SupersededPlace, RemovedType
    <3>5. Append(RemoveAt(edges[c], at), id) \in Seq(Ids)
      BY <3>2, <3>4
    <3>6. (active[c] \cup {id}) \ old \in SUBSET Ids
      BY <3>1, <3>2 DEF TablesTyped
    <3> HIDE DEF id, at, old
    <3>7. edges' \in [Cases -> Seq(Ids)]
      BY <2>3, <3>5 DEF TablesTyped
    <3>8. active' \in [Cases -> SUBSET Ids]
      BY <2>3, <3>6 DEF TablesTyped
    <3>9. \A d \in Cases : active'[d] \subseteq rows'[d]
      BY <2>3, <3>1 DEF TablesTyped, CaseInv, CaseTyped
    <3>10. QED BY <2>1, <3>7, <3>8, <3>9 DEF TablesTyped
  <2>4. QED BY <1>5, <2>2, <2>3 DEF AddSeed
<1>6. ASSUME NEW r \in Runs, ClearTimesOut(r) PROVE TablesTyped'
  <2>1. /\ late' = [late EXCEPT ![case[r]] = @ + 1]
        /\ UNCHANGED <<rows, active, edges, doomed, swept>>
    BY <1>6 DEF ClearTimesOut, caseVars
  <2>2. case[r] \in Cases
    BY <1>6 DEF ClearTimesOut, CaseInv, CaseIsTaken, InCase
  <2>3. late' \in [Cases -> Nat]
    BY <2>1, <2>2 DEF TablesTyped
  <2>4. QED BY <2>1, <2>3 DEF TablesTyped
<1>7. ASSUME NEW r \in Runs, TakeCase(r) PROVE TablesTyped'
  <2>1. swept' = [swept EXCEPT ![r] = FALSE] /\ UNCHANGED <<tables, doomed>>
    BY <1>7 DEF TakeCase
  <2>2. QED BY <2>1 DEF TablesTyped, tables
<1>8. ASSUME NEW c \in Cases, LandClear(c) PROVE TablesTyped'
  <2>1. /\ late[c] > 0
        /\ late' = [late EXCEPT ![c] = @ - 1]
        /\ edges' = [edges EXCEPT ![c] = <<>>]
        /\ swept' = [r \in Runs |-> swept[r] \/ Midway(r, c)]
        /\ UNCHANGED <<rows, active, doomed>>
    BY <1>8 DEF LandClear
  <2>2. late' \in [Cases -> Nat]
    BY <2>1 DEF TablesTyped
  <2>3. edges' \in [Cases -> Seq(Ids)]
    BY <2>1 DEF TablesTyped
  <2>4. swept' \in [Runs -> BOOLEAN]
    BY <2>1 DEF TablesTyped
  <2>5. QED BY <2>1, <2>2, <2>3, <2>4 DEF TablesTyped
<1>9. ASSUME NEW r \in Runs, Step(r) \/ RunDies(r),
             ~SelectRows(r), ~DeleteRows(r), ~ClearGraph(r), ~ClearTimesOut(r), ~AddSeed(r),
             ~TakeCase(r)
      PROVE  UNCHANGED <<tables, doomed, swept>>
  BY <1>9 DEF Step, StartRun, ClearNodes, Search, FinishCase, Judge, CommitRun, JudgeFails,
              TruncateBaseline, FillBaseline, RunDies, caseVars
<1>10. QED BY <1>1, <1>2, <1>3, <1>4, <1>5, <1>6, <1>7, <1>8, <1>9 DEF Next, vars, caseVars

-----------------------------------------------------------------------------
\* In CI nobody else is at a case when a run takes a step.
LEMMA OthersRest ==
    ASSUME IInv, use = "ci", NEW r \in Runs, Step(r) \/ RunDies(r),
           NEW q \in Runs, q # r
    PROVE  pc'[q] \notin InCase
<1>1. pc'[q] = pc[q]
  <2>1. \E l : pc' = [pc EXCEPT ![r] = l] \/ pc' = pc
    BY DEF Step, RunDies, StartRun, TakeCase, SelectRows, DeleteRows, ClearNodes, ClearGraph,
           ClearTimesOut, AddSeed, Search, FinishCase, Judge, CommitRun, JudgeFails,
           TruncateBaseline, FillBaseline, Goto
  <2>2. QED BY <2>1 DEF IInv, CaseInv, CaseTyped
<1>2. CASE StartRun(r)
  BY <1>1, <1>2 DEF StartRun, InCase
<1>3. CASE ~StartRun(r)
  <2>1. pc[r] \notin Idle
    BY <1>3 DEF Step, RunDies, TakeCase, SelectRows, DeleteRows, ClearNodes, ClearGraph,
           ClearTimesOut, AddSeed, Search, FinishCase, Judge, CommitRun, JudgeFails,
           TruncateBaseline, FillBaseline, Running, Idle
  <2>2. pc[q] \in Idle
    BY <2>1 DEF IInv, GateInv, OneAtATime
  <2>3. QED BY <1>1, <2>2 DEF Idle, InCase
<1>4. QED BY <1>2, <1>3

\* What adding a seed comes to while nobody interferes.
LEMMA SeedAdded ==
    ASSUME IInv, TablesTyped, NEW r \in Runs, AddSeed(r), Seeding(r, case[r])
    PROVE  Seeding(r, case[r])'
<1> DEFINE c == case[r]
           label == Head(seeds[r])
           id == [run |-> r, label |-> label]
           at == Superseded(c, label)
           old == {edges[c][i] : i \in {at} \ {0}}
           first == [run |-> r, label |-> "other"]
           lost == UNCHANGED <<tables, stored>>
           added == /\ rows' = [rows EXCEPT ![c] = @ \cup {id}]
                    /\ active' = [active EXCEPT ![c] = (@ \cup {id}) \ old]
                    /\ edges' = [edges EXCEPT ![c] = Append(RemoveAt(@, at), id)]
                    /\ stored' = [stored EXCEPT ![r] = @ \cup {label}]
<1>1. /\ seeds[r] # <<>>
      /\ seeds' = [seeds EXCEPT ![r] = Tail(@)]
      /\ case' = case
      /\ added \/ lost
  BY DEF AddSeed
<1>2. c \in Cases /\ seeds'[r] = Tail(seeds[r])
  <2>1. pc[r] \in InCase
    BY DEF AddSeed, InCase
  <2>2. QED BY <1>1, <2>1 DEF IInv, CaseInv, CaseIsTaken, CaseTyped
<1>3. added => /\ rows'[c] = rows[c] \cup {id}
               /\ active'[c] = (active[c] \cup {id}) \ old
               /\ edges'[c] = Append(RemoveAt(edges[c], at), id)
               /\ stored'[r] = stored[r] \cup {label}
  BY <1>2 DEF IInv, CaseInv, CaseTyped, TablesTyped
<1>4. lost => rows'[c] = rows[c] /\ active'[c] = active[c] /\ edges'[c] = edges[c] /\ stored'[r] = stored[r]
  BY DEF tables
<1> HIDE DEF added, lost
<1>5. CASE seeds[r] = Seeds(c) /\ stored[r] = {} /\ rows[c] = {} /\ edges[c] = <<>>
  <2>1. at = 0 /\ old = {} /\ RemoveAt(edges[c], at) = <<>>
    <3>1. at = 0
      BY <1>5 DEF Superseded, SelectLastInSeq
    <3>2. QED BY <1>5, <3>1 DEF RemoveAt
  <2>2. active[c] = {}
    BY <1>2, <1>5 DEF TablesTyped
  <2>3. CASE c \in Fabricated
    <3>1. label = "fabrication" /\ seeds'[r] = <<>>
      BY <1>2, <1>5, <2>3 DEF Seeds
    <3>2. CASE lost
      BY <1>1, <1>4, <1>5, <2>3, <3>1, <3>2 DEF Seeding, Seeded, LabelsOf
    <3>3. CASE added
      <4>1. rows'[c] = {id} /\ active'[c] = {id}
        BY <1>3, <1>5, <2>1, <2>2, <3>3
      <4>2. RowsOf(r, {"fabrication"}) = {id}
        BY <3>1 DEF RowsOf
      <4>3. LabelsOf(c) = {"fabrication"} /\ KeptOf(c) = {"fabrication"}
        BY <2>3 DEF LabelsOf, KeptOf
      <4>4. QED BY <1>1, <3>1, <4>1, <4>2, <4>3 DEF Seeding, Seeded, RowsOf, LabelsOf, KeptOf
    <3>4. QED BY <1>1, <3>2, <3>3
  <2>4. CASE c \notin Fabricated
    <3>1. label = "other" /\ seeds'[r] = <<"expected">>
      BY <1>2, <1>5, <2>4 DEF Seeds
    <3>2. CASE lost
      BY <1>1, <1>4, <1>5, <2>4, <3>1, <3>2 DEF Seeding
    <3>3. CASE added
      <4>1. /\ rows'[c] = {first} /\ active'[c] = {first}
            /\ edges'[c] = <<first>> /\ stored'[r] = {"other"}
        BY <1>3, <1>5, <2>1, <2>2, <3>1, <3>3
      <4>2. QED BY <1>1, <2>4, <3>1, <4>1 DEF Seeding
    <3>4. QED BY <1>1, <3>2, <3>3
  <2>5. QED BY <2>3, <2>4
<1>6. CASE /\ seeds[r] = <<"expected">> /\ c \notin Fabricated
           /\ \/ stored[r] = {}
              \/ /\ stored[r] = {"other"}
                 /\ rows[c] = {first} /\ active[c] = {first} /\ edges[c] = <<first>>
  <2>1. label = "expected" /\ seeds'[r] = <<>> /\ LabelsOf(c) = {"other", "expected"}
    BY <1>2, <1>6 DEF LabelsOf
  <2>2. CASE lost \/ stored[r] = {}
    <3>1. stored'[r] \in {{}, {"other"}, {"expected"}}
      <4>1. CASE lost
        BY <1>4, <1>6, <4>1
      <4>2. CASE added /\ stored[r] = {}
        BY <1>3, <2>1, <4>2
      <4>3. QED BY <1>1, <2>2, <4>1, <4>2
    <3>2. "other" \notin stored'[r] \/ "expected" \notin stored'[r]
      BY <3>1
    <3>3. stored'[r] # LabelsOf(c)
      BY <2>1, <3>2
    <3>4. QED BY <1>1, <2>1, <3>3 DEF Seeding, Seeded, LabelsOf
  <2>3. CASE added /\ stored[r] # {}
    <3>1. rows[c] = {first} /\ active[c] = {first} /\ edges[c] = <<first>>
      BY <1>6, <2>3
    <3>2. at = IF c \in Plain THEN 0 ELSE 1
      BY <2>1, <3>1 DEF Superseded, SelectLastInSeq, Max, Topic
    <3>3. old = IF c \in Plain THEN {} ELSE {first}
      BY <3>1, <3>2
    <3>4. RowsOf(r, LabelsOf(c)) = {first, id} /\ RowsOf(r, {"expected"}) = {id} /\ first # id
      BY <2>1 DEF RowsOf
    <3>5. rows'[c] = {first, id}
      BY <1>3, <2>3, <3>1
    <3>6. active'[c] = IF c \in Plain THEN {first, id} ELSE {id}
      BY <1>3, <2>3, <3>1, <3>3, <3>4
    <3>7. KeptOf(c) = IF c \in Plain THEN LabelsOf(c) ELSE {"expected"}
      BY <1>6 DEF KeptOf
    <3>8. rows'[c] = RowsOf(r, LabelsOf(c)) /\ active'[c] = RowsOf(r, KeptOf(c))
      BY <3>4, <3>5, <3>6, <3>7
    <3>9. QED BY <1>1, <2>1, <3>8 DEF Seeding, Seeded, RowsOf, LabelsOf, KeptOf
  <2>4. QED BY <1>1, <2>2, <2>3
<1>7. QED BY <1>1, <1>5, <1>6 DEF Seeding

\* The run that takes a step finds and leaves its case undisturbed.
LEMMA OwnStepUndisturbed ==
    ASSUME IInv, TablesTyped, NEW r \in Runs, Step(r) \/ RunDies(r),
           pc[r] \in InCase => Undisturbed(r, case[r]), pc'[r] \in InCase
    PROVE  Undisturbed(r, case[r])'
<1>0. pc[r] \in InCase => case[r] \in Cases
  BY DEF IInv, CaseInv, CaseIsTaken
<1>1. CASE TakeCase(r)
  <2>1. PICK d \in left[r] : /\ case' = [case EXCEPT ![r] = d]
                             /\ seeds' = [seeds EXCEPT ![r] = Seeds(d)]
    BY <1>1 DEF TakeCase
  <2>2. pc'[r] = "clear" /\ stored'[r] = {} /\ case'[r] = d /\ seeds'[r] = Seeds(d)
    BY <1>1, <2>1 DEF TakeCase, Goto, IInv, CaseInv, CaseTyped
  <2>3. QED BY <2>2 DEF Undisturbed, Seeds, ClearingGraph
<1>2. CASE SelectRows(r)
  <2>1. /\ pc[r] = "clear" /\ pc'[r] = "delete" /\ doomed'[r] = rows[case[r]]
        /\ UNCHANGED <<rows, case, seeds, stored>>
    BY <1>2 DEF SelectRows, Goto, UserRows, tables, IInv, CaseInv, CaseTyped, TablesTyped
  <2>2. QED BY <2>1 DEF Undisturbed, InCase, Seeds, ClearingGraph
<1>3. CASE DeleteRows(r)
  <2>1. /\ pc[r] = "delete" /\ pc'[r] = "clearNodes" /\ case[r] \in Cases
        /\ rows'[case[r]] = rows[case[r]] \ doomed[r]
        /\ UNCHANGED <<case, seeds, stored>>
    BY <1>0, <1>3 DEF DeleteRows, Goto, InCase, IInv, CaseInv, CaseTyped
  <2>2. rows'[case[r]] = {}
    BY <2>1 DEF Undisturbed, InCase
  <2>3. QED BY <2>1, <2>2 DEF Undisturbed, InCase, Seeds, ClearingGraph
<1>4. CASE ClearGraph(r)
  <2>1. /\ pc[r] \in ClearingGraph /\ pc'[r] = "add"
        /\ pc[r] \in InCase /\ case[r] \in Cases
        /\ edges' = [edges EXCEPT ![case[r]] = <<>>]
        /\ UNCHANGED <<rows, case, seeds, stored>>
    BY <1>0, <1>4 DEF ClearGraph, Goto, InCase, ClearingGraph, caseVars, IInv, CaseInv, CaseTyped
  <2>2. edges'[case[r]] = <<>>
    BY <2>1 DEF TablesTyped
  <2>3. seeds[r] = Seeds(case[r]) /\ stored[r] = {} /\ rows[case[r]] = {}
    BY <2>1 DEF Undisturbed
  <2>4. Seeding(r, case[r])'
    BY <2>1, <2>2, <2>3 DEF Seeding, Seeds
  <2>5. QED BY <2>1, <2>4 DEF Undisturbed, ClearingGraph
<1>5. CASE AddSeed(r)
  <2>1. pc[r] = "add" /\ pc' = pc /\ swept' = swept
    BY <1>5 DEF AddSeed
  <2>2. swept[r] \/ Seeding(r, case[r])'
    BY <1>5, <2>1, SeedAdded DEF Undisturbed, InCase
  <2>3. QED BY <2>1, <2>2 DEF Undisturbed, ClearingGraph
<1>6. CASE Search(r)
  <2>1. /\ pc[r] = "add" /\ seeds[r] = <<>> /\ pc'[r] = "inactive"
        /\ UNCHANGED <<rows, active, case, stored, swept>>
    BY <1>6 DEF Search, Goto, tables, IInv, CaseInv, CaseTyped
  <2>2. Seeds(case[r]) # <<>>
    BY <1>0, <2>1, SeedsOfCase DEF InCase
  <2>3. swept[r] \/ Seeded(r, case[r])
    BY <2>1, <2>2 DEF Undisturbed, InCase, Seeding
  <2>4. QED BY <2>1, <2>3 DEF Undisturbed, Seeded, LabelsOf, RowsOf, KeptOf, ClearingGraph
<1>7. CASE \/ StartRun(r) \/ FinishCase(r) \/ CommitRun(r) \/ JudgeFails(r) \/ RunDies(r)
           \/ TruncateBaseline(r) \/ FillBaseline(r)
           \/ \E setBaseline, fast \in BOOLEAN : Judge(r, setBaseline, fast)
  <2>1. \E l : l \notin InCase /\ pc' = [pc EXCEPT ![r] = l]
    BY <1>7 DEF StartRun, FinishCase, Judge, CommitRun, JudgeFails, TruncateBaseline,
           FillBaseline, RunDies, Goto, InCase
  <2>2. QED BY <2>1 DEF IInv, CaseInv, CaseTyped
<1>8. CASE ClearNodes(r) \/ ClearTimesOut(r)
  <2>1. /\ pc[r] \in ClearingGraph /\ pc[r] \in InCase
        /\ pc' = [pc EXCEPT ![r] = pc'[r]] /\ pc'[r] \in ClearingGraph \cup {"dead"}
        /\ UNCHANGED <<rows, case, seeds, stored>>
    BY <1>8 DEF ClearNodes, ClearTimesOut, Goto, InCase, ClearingGraph, caseVars, tables,
                IInv, CaseInv, CaseTyped
  <2>2. pc'[r] \in ClearingGraph
    BY <2>1 DEF InCase
  <2>3. QED BY <2>1, <2>2 DEF Undisturbed, ClearingGraph, Seeds
<1>9. QED BY <1>1, <1>2, <1>3, <1>4, <1>5, <1>6, <1>7, <1>8 DEF Step

\* A clear that lands sweeps a run midway, and changes nothing for others.
LEMMA LandedUndisturbed ==
    ASSUME IInv, TablesTyped, NEW c \in Cases, LandClear(c),
           NEW q \in Runs, pc[q] \in InCase, Undisturbed(q, case[q])
    PROVE  Undisturbed(q, case[q])'
<1> DEFINE d == case[q]
<1>1. /\ edges' = [edges EXCEPT ![c] = <<>>]
      /\ swept' = [r \in Runs |-> swept[r] \/ Midway(r, c)]
      /\ UNCHANGED <<rows, active, pc, case, doomed, seeds, stored>>
  BY DEF LandClear
<1>2. d \in Cases
  BY DEF IInv, CaseInv, CaseIsTaken
<1>3. edges'[d] = IF d = c THEN <<>> ELSE edges[d]
  BY <1>1, <1>2 DEF TablesTyped
<1>4. swept'[q] <=> swept[q] \/ Midway(q, c)
  BY <1>1
<1>5. Seeded(q, d)' <=> Seeded(q, d)
  BY <1>1 DEF Seeded, LabelsOf, RowsOf, KeptOf
<1>6. ASSUME pc[q] = "add" PROVE swept'[q] \/ Seeding(q, d)'
  <2>1. CASE swept[q] \/ Midway(q, c)
    BY <1>4, <2>1
  <2>2. CASE Seeding(q, d) /\ edges'[d] = edges[d]
    BY <1>1, <1>5, <2>2 DEF Seeding, Seeds
  <2>3. CASE Seeding(q, d) /\ seeds[q] = <<>>
    <3>1. seeds[q] # Seeds(d) /\ seeds[q] # <<"expected">>
      BY <1>2, <2>3, SeedsOfCase
    <3>2. Seeded(q, d)
      BY <2>3, <3>1 DEF Seeding
    <3>3. QED BY <1>1, <1>5, <2>3, <3>2 DEF Seeding
  <2>4. QED BY <1>3, <1>6, <2>1, <2>2, <2>3 DEF Undisturbed, Midway
<1>7. QED BY <1>1, <1>4, <1>5, <1>6 DEF Undisturbed, ClearingGraph, Seeds

LEMMA UndisturbedNext ==
    IInv /\ TablesTyped /\ AllUndisturbed /\ [Next]_vars => AllUndisturbed'
<1> SUFFICES ASSUME IInv, TablesTyped, AllUndisturbed, [Next]_vars, use' = "ci",
                    NEW q \in Runs, pc'[q] \in InCase
             PROVE  Undisturbed(q, case[q])'
  BY DEF AllUndisturbed
<1>1. CASE UNCHANGED vars
  BY <1>1 DEF vars, tables, caseVars, AllUndisturbed, Undisturbed, Seeding, Seeded,
     LabelsOf, RowsOf, KeptOf, Seeds, ClearingGraph
<1>2. ASSUME NEW r \in Runs, Step(r) \/ RunDies(r)
      PROVE  Undisturbed(q, case[q])'
  <2>1. use = "ci"
    BY <1>2 DEF Step, RunDies, StartRun, TakeCase, SelectRows, DeleteRows, ClearNodes, ClearGraph,
           ClearTimesOut, AddSeed, Search, FinishCase, Judge, CommitRun, JudgeFails,
           TruncateBaseline, FillBaseline
  <2>2. q = r
    BY <1>2, <2>1, OthersRest
  <2>3. QED BY <1>2, <2>1, <2>2, OwnStepUndisturbed DEF AllUndisturbed
<1>3. ASSUME NEW c \in Cases, LandClear(c)
      PROVE  Undisturbed(q, case[q])'
  <2>1. pc[q] \in InCase /\ use = "ci"
    BY <1>3 DEF LandClear
  <2>2. QED BY <1>3, <2>1, LandedUndisturbed DEF AllUndisturbed
<1>4. QED BY <1>1, <1>2, <1>3 DEF Next

LEMMA SizeOfTwo ==
    ASSUME NEW x, NEW y, x # y
    PROVE  Cardinality({x} \cup {y}) = 2
<1>1. IsFiniteSet({x}) /\ Cardinality({x}) = 1
  BY FS_Singleton
<1>2. Cardinality({x} \cup {y}) = Cardinality({x}) + 1
  BY <1>1, FS_AddElement
<1>3. QED BY <1>1, <1>2

\* What a case in which the backend did as it should comes to.
LEMMA CaseFinished ==
    ASSUME IInv, NEW r \in Runs, NEW c \in Cases, NEW inactive,
           stored[r] = LabelsOf(c), retrieved[r] = RowsOf(r, KeptOf(c)),
           inactive = RowsOf(r, LabelsOf(c)) \ RowsOf(r, KeptOf(c))
    PROVE  /\ RecallHit(r) = (c \notin Fabricated)
           /\ Classify(r, inactive) = IF c \in Fabricated THEN "false_fact" ELSE "none"
           /\ Cardinality(retrieved[r]) = Cardinality(KeptOf(c))
<1> DEFINE Seed(l) == [run |-> r, label |-> l]
<1>1. \A k, l : Seed(k) = Seed(l) <=> k = l
  OBVIOUS
<1>2. RowsOf(r, KeptOf(c)) = {Seed(l) : l \in KeptOf(c)} /\ inactive \cap retrieved[r] = {}
  BY DEF RowsOf
<1>3. Cardinality(retrieved[r]) = Cardinality(KeptOf(c))
  <2>1. KeptOf(c) \in {{"fabrication"}, {"other", "expected"}, {"expected"}}
    BY DEF KeptOf, LabelsOf
  <2>2. CASE KeptOf(c) = {"fabrication"}
    <3>1. retrieved[r] = {Seed("fabrication")}
      BY <1>2, <2>2
    <3>2. QED BY <2>2, <3>1, FS_Singleton
  <2>3. CASE KeptOf(c) = {"expected"}
    <3>1. retrieved[r] = {Seed("expected")}
      BY <1>2, <2>3
    <3>2. QED BY <2>3, <3>1, FS_Singleton
  <2>4. CASE KeptOf(c) = {"other", "expected"}
    <3>1. retrieved[r] = {Seed("other")} \cup {Seed("expected")}
      BY <1>2, <2>4
    <3>2. Seed("other") # Seed("expected")
      BY <1>1
    <3> HIDE DEF Seed
    <3>3. Cardinality({Seed("other")} \cup {Seed("expected")}) = 2
      BY <3>2, SizeOfTwo
    <3>4. Cardinality({"other"} \cup {"expected"}) = 2
      BY SizeOfTwo
    <3>5. KeptOf(c) = {"other"} \cup {"expected"}
      BY <2>4
    <3>6. QED BY <3>1, <3>3, <3>4, <3>5
  <2>5. QED BY <2>1, <2>2, <2>3, <2>4
<1>4. CASE c \in Fabricated
  <2>1. stored[r] = {"fabrication"} /\ retrieved[r] = {Seed("fabrication")}
    BY <1>2, <1>4 DEF LabelsOf, KeptOf
  <2>2. ExpectedIds(r) = {} /\ FabricatedIds(r) = {Seed("fabrication")}
    BY <2>1 DEF ExpectedIds, FabricatedIds
  <2>3. QED BY <1>3, <1>4, <2>1, <2>2 DEF RecallHit, Classify
<1>5. CASE c \notin Fabricated
  <2>1. stored[r] = {"other", "expected"} /\ Seed("expected") \in retrieved[r]
    BY <1>2, <1>5 DEF LabelsOf, KeptOf
  <2>2. ExpectedIds(r) = {Seed("expected")} /\ FabricatedIds(r) = {}
    BY <2>1 DEF ExpectedIds, FabricatedIds
  <2>3. QED BY <1>2, <1>3, <1>5, <2>1, <2>2 DEF RecallHit, Classify
<1>6. QED BY <1>4, <1>5

\* What FinishCase keeps of the case a run is at, and what it leaves of others.
ResultOf(r) ==
    [stored |-> "expected" \in stored[r],
     found |-> [run |-> r, label |-> "expected"] \in retrieved[r],
     lied |-> [run |-> r, label |-> "fabrication"] \in retrieved[r],
     hit |-> RecallHit(r),
     mode |-> Classify(r, rows[case[r]] \ active[case[r]]),
     size |-> Cardinality(retrieved[r]),
     faithful |-> stored[r] = ToSet(Seeds(case[r])) /\ retrieved[r] = active[case[r]],
     swept |-> swept[r]]

LEMMA ResultAdded ==
    ASSUME CaseInv, NEW r \in Runs, FinishCase(r)
    PROVE  /\ \A q \in Runs : q # r => result'[q] = result[q]
           /\ DOMAIN result'[r] = DOMAIN result[r] \cup {case[r]}
           /\ \A d \in DOMAIN result[r] : d # case[r] => result'[r][d] = result[r][d]
           /\ result'[r][case[r]] = ResultOf(r)
<1>1. result' = [result EXCEPT ![r] = [d \in DOMAIN @ \cup {case[r]} |->
                    IF d # case[r] THEN @[d] ELSE ResultOf(r)]]
  BY DEF FinishCase, Labels, ResultOf
<1>2. /\ \A q \in Runs : q # r => result'[q] = result[q]
      /\ result'[r] = [d \in DOMAIN result[r] \cup {case[r]} |->
                          IF d # case[r] THEN result[r][d] ELSE ResultOf(r)]
  BY <1>1 DEF CaseInv, CaseTyped
<1>3. QED BY <1>2

LEMMA ResultsKept ==
    ASSUME NEW r \in Runs, Step(r) \/ RunDies(r), ~FinishCase(r)
    PROVE  result' = result
BY DEF Step, RunDies, StartRun, TakeCase, SelectRows, DeleteRows, ClearNodes, ClearGraph,
       ClearTimesOut, AddSeed, Search, Judge, CommitRun, JudgeFails,
       TruncateBaseline, FillBaseline, caseVars

LEMMA FaithfulNext ==
    IInv /\ TablesTyped /\ AllUndisturbed /\ FaithfulAsItShould /\ [Next]_vars
        => FaithfulAsItShould'
<1> SUFFICES ASSUME IInv, TablesTyped, AllUndisturbed, FaithfulAsItShould, [Next]_vars
             PROVE  FaithfulAsItShould'
  OBVIOUS
<1>1. use' = use
  BY DEF Next, vars, Step, RunDies, StartRun, TakeCase, SelectRows, DeleteRows, ClearNodes,
         ClearGraph, ClearTimesOut, AddSeed, Search, FinishCase, Judge, CommitRun, JudgeFails,
         TruncateBaseline, FillBaseline, LandClear
<1>2. CASE result' = result
  BY <1>1, <1>2 DEF FaithfulAsItShould, AsItShould, KeptOf, LabelsOf
<1>3. ASSUME NEW r \in Runs, FinishCase(r) PROVE FaithfulAsItShould'
  <2> SUFFICES ASSUME use = "ci", NEW q \in Runs, NEW d \in DOMAIN result'[q],
                      result'[q][d].faithful, ~result'[q][d].swept
               PROVE  AsItShould(result'[q][d], d)
    BY <1>1 DEF FaithfulAsItShould, AsItShould, KeptOf, LabelsOf
  <2> DEFINE c == case[r]
  <2>0. /\ \A p \in Runs : p # r => result'[p] = result[p]
        /\ DOMAIN result'[r] = DOMAIN result[r] \cup {c}
        /\ \A e \in DOMAIN result[r] : e # c => result'[r][e] = result[r][e]
        /\ result'[r][c] = ResultOf(r)
    BY <1>3, ResultAdded DEF IInv
  <2>1. pc[r] = "inactive" /\ pc[r] \in InCase /\ c \in Cases
    BY <1>3 DEF FinishCase, InCase, IInv, CaseInv, CaseIsTaken
  <2>2. CASE q = r /\ d = c
    <3>1. /\ stored[r] = ToSet(Seeds(c)) /\ retrieved[r] = active[c] /\ ~swept[r]
          /\ result'[r][c].hit = RecallHit(r)
          /\ result'[r][c].mode = Classify(r, rows[c] \ active[c])
          /\ result'[r][c].size = Cardinality(retrieved[r])
      <4>1. result'[q][d] = ResultOf(r) /\ result'[r][c] = ResultOf(r)
        BY <2>0, <2>2
      <4>2. ResultOf(r).faithful /\ ~ResultOf(r).swept
        BY <4>1
      <4>3. stored[r] = ToSet(Seeds(c)) /\ retrieved[r] = active[c] /\ ~swept[r]
        BY <4>2 DEF ResultOf
      <4>4. /\ ResultOf(r).hit = RecallHit(r)
            /\ ResultOf(r).mode = Classify(r, rows[c] \ active[c])
            /\ ResultOf(r).size = Cardinality(retrieved[r])
        BY DEF ResultOf
      <4>5. QED BY <4>1, <4>3, <4>4
    <3>2. stored[r] = LabelsOf(c)
      BY <2>1, <3>1, SeedsOfCase
    <3>3. rows[c] = RowsOf(r, LabelsOf(c)) /\ active[c] = RowsOf(r, KeptOf(c))
      BY <2>1, <3>1, <3>2 DEF AllUndisturbed, Undisturbed, Seeded
    <3>4. /\ RecallHit(r) = (c \notin Fabricated)
          /\ Classify(r, rows[c] \ active[c]) =
                IF c \in Fabricated THEN "false_fact" ELSE "none"
          /\ Cardinality(retrieved[r]) = Cardinality(KeptOf(c))
      BY <2>1, <3>1, <3>2, <3>3, CaseFinished
    <3>5. QED BY <2>2, <3>1, <3>4 DEF AsItShould
  <2>3. CASE ~(q = r /\ d = c)
    <3>1. d \in DOMAIN result[q] /\ result'[q][d] = result[q][d]
      BY <2>0, <2>3
    <3>2. QED BY <3>1 DEF FaithfulAsItShould
  <2>4. QED BY <2>2, <2>3
<1>4. CASE UNCHANGED vars
  BY <1>2, <1>4 DEF vars, caseVars
<1>5. ASSUME NEW c \in Cases, LandClear(c) PROVE FaithfulAsItShould'
  BY <1>2, <1>5 DEF LandClear
<1>6. QED BY <1>2, <1>3, <1>4, <1>5, ResultsKept DEF Next

\* The inductive invariant: what is in a case's namespace while a run in CI is
\* at it, and what a case comes to in which the backend did as it should and
\* that no late clear swept.
THEOREM NothingIsLeftOver == Spec => [](IInv /\ LeftInv)
<1>1. Init => LeftInv
  BY TablesInit DEF Init, LeftInv, AllUndisturbed, FaithfulAsItShould, InCase
<1>2. IInv /\ LeftInv /\ [Next]_vars => LeftInv'
  BY TablesNext, UndisturbedNext, FaithfulNext DEF LeftInv, IInv
<1>3. QED BY <1>1, <1>2, Invariance, PTL DEF Spec

\* One run at a time, two runs agree on every case in which the backend did as
\* it should and that no late clear swept, whatever died or was lost before.
THEOREM RunsAgree == Spec => []LeftoversDoNotCount
<1>1. LeftInv => LeftoversDoNotCount
  <2> SUFFICES ASSUME LeftInv, use = "ci", NEW p \in Runs, NEW q \in Runs,
                      NEW c \in DOMAIN result[p] \cap DOMAIN result[q],
                      result[p][c].faithful, ~result[p][c].swept,
                      result[q][c].faithful, ~result[q][c].swept
               PROVE  Agree(p, q, c)
    BY DEF LeftoversDoNotCount
  <2>1. AsItShould(result[p][c], c) /\ AsItShould(result[q][c], c)
    BY DEF LeftInv, FaithfulAsItShould
  <2>2. QED BY <2>1 DEF AsItShould, Agree
<1>2. QED BY <1>1, NothingIsLeftOver, PTL

\* What is kept of a finished case has its type, if there are finitely many
\* runs.
ResultsTyped ==
    \A r \in Runs : /\ DOMAIN result[r] \subseteq Cases \ left[r]
                    /\ \A c \in DOMAIN result[r] : result[r][c] \in CaseResults

LEMMA IdsAreFinite ==
    ASSUME IsFiniteSet(Runs)
    PROVE  IsFiniteSet(Ids)
<1> DEFINE P == Runs \X Labels
           f == [p \in P |-> [run |-> p[1], label |-> p[2]]]
<1>1. IsFiniteSet({"other", "expected"} \cup {"fabrication"})
  <2>1. IsFiniteSet({"other"})
    BY FS_Singleton
  <2>2. IsFiniteSet({"other"} \cup {"expected"})
    BY <2>1, FS_AddElement
  <2>3. {"other"} \cup {"expected"} = {"other", "expected"}
    OBVIOUS
  <2>4. QED BY <2>2, <2>3, FS_AddElement
<1>2. IsFiniteSet(Labels)
  <2>1. Labels = {"other", "expected"} \cup {"fabrication"}
    BY DEF Labels
  <2>2. QED BY <1>1, <2>1
<1>3. IsFiniteSet(P)
  BY <1>2, FS_Product
<1>4. f \in Surjection(P, Ids)
  <2>1. f \in [P -> Ids]
    BY DEF Ids
  <2>2. ASSUME NEW m \in Ids PROVE \E p \in P : f[p] = m
    <3>1. <<m.run, m.label>> \in P /\ f[<<m.run, m.label>>] = m
      BY DEF Ids
    <3>2. QED BY <3>1
  <2>3. QED BY <2>1, <2>2 DEF Surjection
<1> HIDE DEF P, f
<1>5. QED BY <1>3, <1>4, FS_Surjection

LEMMA ResultType ==
    ASSUME CaseInv, TablesTyped, IsFiniteSet(Runs), NEW r \in Runs
    PROVE  ResultOf(r) \in CaseResults
<1>1. RecallHit(r) \in BOOLEAN
  BY DEF RecallHit
<1>2. Classify(r, rows[case[r]] \ active[case[r]]) \in Modes
  BY DEF Classify, Modes
<1>3. Cardinality(retrieved[r]) \in 0 .. Cardinality(Ids)
  <2>1. retrieved[r] \subseteq Ids /\ IsFiniteSet(Ids)
    BY IdsAreFinite DEF CaseInv, CaseTyped
  <2>2. /\ IsFiniteSet(retrieved[r])
        /\ Cardinality(retrieved[r]) <= Cardinality(Ids)
    BY <2>1, FS_Subset
  <2>3. Cardinality(retrieved[r]) \in Nat /\ Cardinality(Ids) \in Nat
    BY <2>1, <2>2, FS_CardinalityType
  <2>4. QED BY <2>2, <2>3
<1>4. swept[r] \in BOOLEAN
  BY DEF TablesTyped
<1>5. QED BY <1>1, <1>2, <1>3, <1>4 DEF ResultOf, CaseResults

LEMMA ResultsNext ==
    ASSUME CaseInv, TablesTyped, ResultsTyped, IsFiniteSet(Runs), [Next]_vars
    PROVE  ResultsTyped'
<1>1. ASSUME NEW r \in Runs, FinishCase(r) PROVE ResultsTyped'
  <2>1. case[r] \in Cases \ left[r] /\ left' = left
    BY <1>1 DEF FinishCase, CaseInv, CaseIsTaken, InCase
  <2>2. ResultOf(r) \in CaseResults
    BY ResultType
  <2> SUFFICES ASSUME NEW q \in Runs
               PROVE  /\ DOMAIN result'[q] \subseteq Cases \ left[q]
                      /\ \A c \in DOMAIN result'[q] : result'[q][c] \in CaseResults
    BY <2>1 DEF ResultsTyped, CaseResults, Ids, Labels, Modes
  <2>3. /\ DOMAIN result[q] \subseteq Cases \ left[q]
        /\ \A c \in DOMAIN result[q] : result[q][c] \in CaseResults
    BY DEF ResultsTyped
  <2>4. CASE q # r
    <3>1. result'[q] = result[q]
      BY <1>1, <2>4, ResultAdded
    <3>2. QED BY <2>3, <3>1
  <2>5. CASE q = r
    <3>1. /\ DOMAIN result'[r] = DOMAIN result[r] \cup {case[r]}
          /\ \A d \in DOMAIN result[r] : d # case[r] => result'[r][d] = result[r][d]
          /\ result'[r][case[r]] = ResultOf(r)
      BY <1>1, ResultAdded
    <3>2. QED BY <2>1, <2>2, <2>3, <2>5, <3>1
  <2>6. QED BY <2>4, <2>5
<1>2. ASSUME result' = result, \A q \in Runs : left'[q] \subseteq left[q]
      PROVE  ResultsTyped'
  BY <1>2 DEF ResultsTyped, CaseResults, Ids, Labels, Modes
<1>3. ASSUME NEW r \in Runs, Step(r) \/ RunDies(r)
      PROVE  \A q \in Runs : left'[q] \subseteq left[q]
  <2>1. CASE TakeCase(r)
    <3>1. \E c \in left[r] : left' = [left EXCEPT ![r] = @ \ {c}]
      BY <2>1 DEF TakeCase
    <3>2. QED BY <3>1 DEF CaseInv, CaseTyped
  <2>2. CASE ~TakeCase(r)
    BY <1>3, <2>2 DEF Step, RunDies, StartRun, SelectRows, DeleteRows, ClearNodes, ClearGraph,
       ClearTimesOut, AddSeed, Search, FinishCase, Judge, CommitRun, JudgeFails,
       TruncateBaseline, FillBaseline, caseVars
  <2>3. QED BY <2>1, <2>2
<1>4. CASE UNCHANGED vars
  BY <1>2, <1>4 DEF vars, caseVars
<1>5. ASSUME NEW c \in Cases, LandClear(c) PROVE ResultsTyped'
  BY <1>2, <1>5 DEF LandClear
<1>6. QED BY <1>1, <1>2, <1>3, <1>4, <1>5, ResultsKept DEF Next

\* Every variable keeps to its type, if there are finitely many runs.
THEOREM TypeCorrect ==
    ASSUME IsFiniteSet(Runs)
    PROVE  Spec => []TypeOK
<1>1. Init => ResultsTyped /\ use \in Uses
  BY DEF Init, ResultsTyped
<1>2. (IInv /\ LeftInv) /\ (ResultsTyped /\ use \in Uses) /\ [Next]_vars
        => (ResultsTyped /\ use \in Uses)'
  <2>1. [Next]_vars => use' = use
    BY DEF Next, vars, Step, RunDies, StartRun, TakeCase, SelectRows, DeleteRows, ClearNodes,
         ClearGraph, ClearTimesOut, AddSeed, Search, FinishCase, Judge, CommitRun, JudgeFails,
         TruncateBaseline, FillBaseline, LandClear
  <2>2. QED BY <2>1, ResultsNext DEF IInv, LeftInv
<1>3. (IInv /\ LeftInv) /\ (ResultsTyped /\ use \in Uses) => TypeOK
  <2> SUFFICES ASSUME IInv, LeftInv, ResultsTyped, use \in Uses PROVE TypeOK
    OBVIOUS
  <2>1. \A c \in Cases : active[c] \subseteq rows[c] /\ ToSet(edges[c]) \subseteq Ids
    BY DEF LeftInv, TablesTyped, ToSet
  <2>2. \A r \in Runs : ToSet(seeds[r]) \subseteq Labels
    BY DEF IInv, CaseInv, CaseTyped, ToSet
  <2>3. QED BY <2>1, <2>2
        DEF TypeOK, IInv, CaseInv, CaseTyped, GateInv, GateTyped, LeftInv, TablesTyped, ResultsTyped
<1>4. QED BY <1>1, <1>2, <1>3, NothingIsLeftOver, PTL DEF Spec
=============================================================================
