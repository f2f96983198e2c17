----------------------- MODULE ProjectEvaluationProofs -----------------------
(***************************************************************************)
(* Proofs about ProjectEvaluation, for any bounds, people, sets and        *)
(* submissions.  Every handler that the two properties of runs depend on   *)
(* is shown to do one of few things to a set (nothing when it is frozen)   *)
(* and to a run (insert it on an approved set, or move it forward).        *)
(***************************************************************************)
EXTENDS ProjectEvaluation, TLAPS

BootType == [at: {"idle", "refresh", "save", "work", "generate", "executing"},
             stage: Stages, task: Tasks \cup {NoTask},
             spec: Tasks \cup {NoTask}, scope: Tasks \cup {NoTask}, replacing: BOOLEAN]
SessionType == [op: {"idle", "run", "edit", "plan", "cases"},
                task: Tasks \cup {NoTask}, spec: Tasks \cup {NoTask}]
TextOK == task \in Tasks /\ spec \in Tasks \cup {NoTask} /\ stage \in {"underway", "results"}
SetsTyped == sets \in [SetIds -> SetRow \cup {NoRow}]
RunsTyped == runs \in [RunKeys -> RunRow \cup {NoRow}]
JobsTyped == waiting \in [HandRequests -> 0..MaxWaiting] /\ live \in [HandRequests -> Nat]

\* only sound cases are approved
VerdictOK == \A s \in SetIds : Exists(s) /\ sets[s].quality = "approved" => sets[s].cases = "sound"

\* what a handler loaded of the requirements is a text
SessionOK ==
    /\ session \in [Users -> SessionType]
    /\ \A u \in Users : session[u].op \in {"run", "plan"} => session[u].task \in Tasks

Scoped == {"cases", "validation", "evaluation", "execution"}
\* where the bootstrap is, and what it has by then
BootOK ==
    /\ boot \in BootType
    /\ boot.at = "save" => boot.task \in Tasks
    /\ boot.at = "work" /\ boot.stage \in {"plan", "evaluation"} => boot.task \in Tasks
    /\ boot.at # "idle" /\ boot.stage \in Scoped => boot.scope \in Tasks
    /\ boot.at = "generate" => boot.stage = "cases"
    /\ boot.at = "executing" => boot.stage = "execution"

\* the row of a run that a bootstrap executes, or a worker
BootRunOK ==
    /\ boot.at # "idle" /\ boot.stage = "execution" => runs[boot.scope] # NoRow
    /\ boot.at = "executing" => runs[boot.scope].status \in {"running", "expired"}

JobsOK ==
    /\ JobsTyped
    /\ \A k \in HandRequests : waiting[k] > 0 \/ live[k] > 0 => runs[k] # NoRow

RunsInv == RunsTyped /\ RunsStandOnApprovedCases /\ RunMeasuresItsRubric
IInv == /\ TextOK /\ SetsTyped /\ VerdictOK /\ RunsInv
        /\ SessionOK /\ BootOK /\ BootRunOK /\ JobsOK /\ OneWorker

LEMMA TypeParts == IInv => TypeOK
  BY DEF IInv, TypeOK, TextOK, SetsTyped, RunsInv, RunsTyped, SessionOK, SessionType, BootOK,
         BootType, JobsOK, JobsTyped

LEMMA Ids == Tasks \subseteq RunKeys /\ Tasks \subseteq SetIds /\ HandRequests \subseteq RunKeys
             /\ Tasks \cap HandRequests = {} /\ NoTask \notin Tasks /\ 1 \in Tasks
  BY IdsAreDistinct, BoundsAreNatural DEF Tasks, RunKeys, SetIds, NoTask

LEMMA InitInv == Init => IInv
<1> SUFFICES ASSUME Init PROVE IInv
  OBVIOUS
<1>1. NoBoot \in BootType /\ NoBoot.at = "idle" /\ NoBoot.stage = "plan"
  BY DEF NoBoot, BootType, Stages
<1>2. NoSession \in SessionType /\ NoSession.op = "idle"
  BY DEF NoSession, SessionType
<1>3. TextOK
  BY Ids DEF Init, TextOK
<1>4. SetsTyped /\ VerdictOK
  BY DEF Init, SetsTyped, VerdictOK, Exists
<1>5. RunsInv
  BY DEF Init, RunsInv, RunsTyped, RunsStandOnApprovedCases, RunMeasuresItsRubric, Runs
<1>6. SessionOK
  BY <1>2 DEF Init, SessionOK
<1>7. BootOK /\ BootRunOK
  BY <1>1 DEF Init, BootOK, BootRunOK
<1>8. JobsOK
  BY BoundsAreNatural DEF Init, JobsOK, JobsTyped
<1>9. OneWorker
  BY DEF Init, OneWorker
<1> QED
  BY <1>3, <1>4, <1>5, <1>6, <1>7, <1>8, <1>9 DEF IInv

----------------------------------------------------------------------------
(* What a step may do to sets and runs *)

FrozenKept == \A s \in SetIds : Exists(s) /\ sets[s].frozen => sets'[s] = sets[s]

Forward == {<<"pending", "running">>, <<"pending", "expired">>, <<"running", "expired">>}
Moves(k, x) ==
    /\ runs[k] # NoRow
    /\ runs'[k] = [runs[k] EXCEPT !.status = x]
    /\ \/ <<runs[k].status, x>> \in Forward
       \/ runs[k].status \in {"running", "expired"} /\ x \in Outcomes
Begins(k) ==
    /\ runs[k] = NoRow
    /\ runs'[k] \in RunRow
    /\ LET set == sets'[runs'[k].set] IN
           /\ set # NoRow /\ set.frozen /\ set.quality = "approved"
           /\ runs'[k].cases = "sound" /\ set.cases = "sound"
           /\ set.rubric \in {NoTask, runs'[k].task}
\* the runs are touched at all only by steps that keep their keys
RunStep == /\ DOMAIN runs' = RunKeys /\ runs' = [k \in RunKeys |-> runs'[k]]
           /\ \A k \in RunKeys : \/ runs'[k] = runs[k]
                                 \/ \E x \in {"running", "expired"} \cup Outcomes : Moves(k, x)
                                 \/ Begins(k)

LEMMA MovedRow ==
    ASSUME RunsTyped, NEW k \in RunKeys, NEW x \in {"running", "expired"} \cup Outcomes, Moves(k, x)
    PROVE  /\ runs'[k] \in RunRow /\ runs'[k].status = x
           /\ runs'[k].set = runs[k].set /\ runs'[k].cases = runs[k].cases
           /\ runs'[k].task = runs[k].task
  BY DEF RunsTyped, RunRow, Moves

LEMMA RunsKept ==
    ASSUME RunsInv, FrozenKept, RunStep
    PROVE  RunsInv'
<1>1. \A k \in RunKeys : runs'[k] \in RunRow \cup {NoRow}
  BY MovedRow DEF RunStep, RunsInv, RunsTyped, Begins
<1>2. RunsTyped'
  BY <1>1 DEF RunStep, RunsTyped
<1>3. ASSUME NEW k \in RunKeys, runs'[k] # NoRow
      PROVE  LET set == sets'[runs'[k].set] IN
                 /\ set # NoRow /\ set.frozen /\ set.quality = "approved"
                 /\ runs'[k].cases = "sound" /\ set.cases = "sound"
                 /\ set.rubric \in {NoTask, runs'[k].task}
  <2>1. CASE Begins(k)
    BY <2>1 DEF Begins
  <2>2. CASE ~Begins(k)
    <3>1. /\ runs[k] # NoRow
          /\ runs'[k].set = runs[k].set /\ runs'[k].cases = runs[k].cases
          /\ runs'[k].task = runs[k].task
      BY <1>3, <2>2, MovedRow DEF RunStep, RunsInv, Moves
    <3>2. runs[k].set \in SetIds
      BY <3>1 DEF RunsInv, RunsTyped, RunRow
    <3>3. LET set == sets[runs[k].set] IN
              /\ set # NoRow /\ set.frozen /\ set.quality = "approved"
              /\ runs[k].cases = "sound" /\ set.cases = "sound"
              /\ set.rubric \in {NoTask, runs[k].task}
      BY <3>1 DEF RunsInv, RunsStandOnApprovedCases, RunMeasuresItsRubric, Runs
    <3>4. sets'[runs[k].set] = sets[runs[k].set]
      BY <3>2, <3>3 DEF FrozenKept, Exists
    <3> QED
      BY <3>1, <3>3, <3>4
  <2> QED
    BY <2>1, <2>2
<1>4. RunsStandOnApprovedCases' /\ RunMeasuresItsRubric'
  BY <1>3 DEF RunsStandOnApprovedCases, RunMeasuresItsRubric, Runs
<1> QED
  BY <1>2, <1>4 DEF RunsInv

LEMMA SameRuns == ASSUME RunsTyped, runs' = runs PROVE RunStep
  BY DEF RunsTyped, RunStep

LEMMA ForwardOnly ==
    ASSUME RunsTyped, RunStep, NEW k \in RunKeys, runs[k] # NoRow, runs'[k] # runs[k]
    PROVE  /\ runs'[k] # NoRow
           /\ runs'[k] = [runs[k] EXCEPT !.status = runs'[k].status]
           /\ Rank(runs'[k].status) > Rank(runs[k].status)
<1>1. PICK x \in {"running", "expired"} \cup Outcomes : Moves(k, x)
  BY DEF RunStep, Begins
<1>2. runs'[k] \in RunRow /\ runs'[k].status = x
  BY <1>1, MovedRow
<1>3. Rank(x) > Rank(runs[k].status)
  BY <1>1, OutcomesAreFinal DEF Moves, Forward, Rank
<1> QED
  BY <1>1, <1>2, <1>3, NoRowIsNoRow DEF Moves

LEMMA RowsStay ==
    ASSUME RunsTyped, RunStep, NEW k \in RunKeys, runs[k] # NoRow
    PROVE  runs'[k] # NoRow
<1>1. CASE runs'[k] = runs[k]
  BY <1>1
<1>2. CASE runs'[k] # runs[k]
  BY <1>2, ForwardOnly
<1> QED
  BY <1>1, <1>2

\* what a step that leaves the memory of workers and bootstrap alone owes them
LEMMA JobsKept ==
    ASSUME RunsTyped, JobsOK, OneWorker, RunStep, UNCHANGED jobs,
           \A k \in HandRequests : live[k] > 0 /\ runs'[k] # runs[k] => runs'[k].status = "expired"
    PROVE  JobsOK' /\ OneWorker'
<1>1. \A k \in RunKeys : runs[k] # NoRow => runs'[k] # NoRow
  BY RowsStay
<1>2. JobsOK'
  BY <1>1, Ids DEF JobsOK, JobsTyped, jobs
<1>3. OneWorker'
  BY DEF OneWorker, jobs
<1> QED
  BY <1>2, <1>3

LEMMA BootRunKept ==
    ASSUME RunsTyped, BootOK, BootRunOK, RunStep, boot' = boot,
           \A k \in Tasks : runs'[k] = runs[k] \/ runs[k] = NoRow \/ runs'[k].status = "expired"
    PROVE  BootRunOK'
<1>1. boot.at # "idle" /\ boot.stage = "execution" => boot.scope \in Tasks
  BY DEF BootOK, Scoped
<1>2. \A k \in Tasks : runs[k] # NoRow => runs'[k] # NoRow
  BY RowsStay, Ids
<1>3. boot.at = "executing" => boot.stage = "execution"
  BY DEF BootOK
<1> QED
  BY <1>1, <1>2, <1>3 DEF BootRunOK

LEMMA Assemble ==
    ASSUME IInv, TextOK', SetsTyped', VerdictOK', FrozenKept, RunStep,
           SessionOK', BootOK', BootRunOK', JobsOK', OneWorker'
    PROVE  IInv' /\ RunStep
  BY RunsKept DEF IInv

----------------------------------------------------------------------------
(* Sets *)

LEMMA SetWrite ==
    ASSUME SetsTyped, VerdictOK, NEW s \in SetIds, Exists(s) => ~sets[s].frozen,
           NEW new \in SetRow \cup {NoRow},
           new # NoRow /\ new.quality = "approved" => new.cases = "sound",
           sets' = [sets EXCEPT ![s] = new]
    PROVE  SetsTyped' /\ VerdictOK' /\ FrozenKept
<1>1. SetsTyped'
  BY DEF SetsTyped
<1>2. \A x \in SetIds : sets'[x] = IF x = s THEN new ELSE sets[x]
  BY DEF SetsTyped
<1>3. VerdictOK' /\ FrozenKept
  BY <1>2 DEF VerdictOK, FrozenKept, Exists
<1> QED
  BY <1>1, <1>3

LEMMA SameSets == ASSUME SetsTyped, VerdictOK, sets' = sets PROVE SetsTyped' /\ VerdictOK' /\ FrozenKept
  BY DEF SetsTyped, VerdictOK, FrozenKept, Exists

LEMMA WrittenRow ==
    ASSUME NEW c \in Cases, NEW r \in Tasks \cup {NoTask}
    PROVE  /\ Written(c, r) \in SetRow /\ Written(c, r).quality = "none"
           /\ Written(c, r).rubric = r
  BY DEF Written, SetRow

LEMMA JudgedSets ==
    ASSUME SetsTyped, VerdictOK, NEW s \in SetIds, Exists(s), sets' = Judged(s)
    PROVE  SetsTyped' /\ VerdictOK' /\ FrozenKept
<1>1. CASE sets[s].frozen
  BY <1>1, SameSets DEF Judged
<1>2. CASE ~sets[s].frozen
  <2> DEFINE new == [sets[s] EXCEPT !.quality = Verdict(sets[s].cases)]
  <2>1. sets[s] \in SetRow
    BY DEF SetsTyped, Exists
  <2>2. Verdict(sets[s].cases) \in {"approved", "rejected"}
        /\ (Verdict(sets[s].cases) = "approved" => sets[s].cases = "sound")
    BY DEF Verdict
  <2>3. new \in SetRow /\ new.quality = Verdict(sets[s].cases) /\ new.cases = sets[s].cases
    BY <2>1, <2>2 DEF SetRow
  <2>4. sets' = [sets EXCEPT ![s] = new]
    BY <1>2 DEF Judged, SetsTyped
  <2> HIDE DEF new
  <2> QED
    BY <1>2, <2>2, <2>3, <2>4, SetWrite
<1> QED
  BY <1>1, <1>2

LEMMA SetStep == ASSUME IInv, SetHandler PROVE IInv' /\ RunStep
<1>1. UNCHANGED <<task, spec, stage, runs, jobs, boot, session>>
  BY DEF SetHandler, CreateSet, EditSet, JudgeSet, RemoveSet
<1>2. SetsTyped' /\ VerdictOK' /\ FrozenKept
  <2>1. SetsTyped /\ VerdictOK
    BY DEF IInv
  <2>2. ASSUME NEW s \in SetIds, NEW c \in Cases, CreateSet(s, c) PROVE SetsTyped' /\ VerdictOK' /\ FrozenKept
    <3>1. NoTask \in Tasks \cup {NoTask}
      OBVIOUS
    <3> QED
      BY <2>1, <2>2, <3>1, SetWrite, WrittenRow DEF CreateSet, Addable
  <2>3. ASSUME NEW s \in SetIds, NEW c \in Cases, EditSet(s, c) PROVE SetsTyped' /\ VerdictOK' /\ FrozenKept
    <3>1. sets[s].rubric \in Tasks \cup {NoTask} /\ ~sets[s].frozen
      BY <2>1, <2>3 DEF EditSet, Editable, Exists, SetsTyped, SetRow
    <3> QED
      BY <2>1, <2>3, <3>1, SetWrite, WrittenRow DEF EditSet
  <2>4. ASSUME NEW s \in SetIds, JudgeSet(s) PROVE SetsTyped' /\ VerdictOK' /\ FrozenKept
    BY <2>1, <2>4, JudgedSets DEF JudgeSet
  <2>5. ASSUME NEW s \in SetIds, RemoveSet(s) PROVE SetsTyped' /\ VerdictOK' /\ FrozenKept
    BY <2>1, <2>5, SetWrite DEF RemoveSet, Editable
  <2> QED
    BY <2>2, <2>3, <2>4, <2>5 DEF SetHandler
<1>3. RunStep
  BY <1>1, SameRuns DEF IInv, RunsInv
<1>4. TextOK' /\ SessionOK' /\ BootOK' /\ BootRunOK'
  BY <1>1 DEF IInv, TextOK, SessionOK, BootOK, BootRunOK
<1>5. JobsOK' /\ OneWorker'
  BY <1>1, <1>3, JobsKept DEF IInv, RunsInv
<1> QED
  BY <1>2, <1>3, <1>4, <1>5, Assemble

----------------------------------------------------------------------------
(* Runs *)

LEMMA ReconciledRuns ==
    ASSUME RunsTyped, NEW old \in SUBSET UnfinishedRuns, runs' = Reconciled(old)
    PROVE  /\ RunStep
           /\ \A k \in RunKeys : runs'[k] = runs[k] \/ (runs[k] # NoRow /\ runs'[k].status = "expired")
<1>1. ASSUME NEW k \in RunKeys, k \in old PROVE Moves(k, "expired") /\ runs'[k].status = "expired"
  <2>1. runs[k] \in RunRow /\ runs[k] # NoRow /\ runs[k].status \in {"pending", "running"}
    BY <1>1 DEF UnfinishedRuns, Unfinished, RunsTyped
  <2>2. runs'[k] = [runs[k] EXCEPT !.status = "expired"]
    BY <1>1 DEF Reconciled
  <2> QED
    BY <2>1, <2>2 DEF Moves, Forward, RunRow
<1>2. \A k \in RunKeys \ old : runs'[k] = runs[k]
  BY DEF Reconciled
<1>3. DOMAIN runs' = RunKeys /\ runs' = [k \in RunKeys |-> runs'[k]]
  BY DEF Reconciled
<1> QED
  BY <1>1, <1>2, <1>3 DEF RunStep, Moves

LEMMA InsertedRun ==
    ASSUME IInv, NEW k \in RunKeys, runs[k] = NoRow, NEW s \in SetIds, NEW read,
           read.task \in Tasks, Accepts(s, read),
           NEW old \in SUBSET UnfinishedRuns, Insert(k, s, read, old)
    PROVE  /\ SetsTyped' /\ VerdictOK' /\ FrozenKept /\ RunStep /\ runs'[k] # NoRow
           /\ runs'[k].status = "pending"
           /\ \A x \in RunKeys : \/ runs'[x] = runs[x] \/ runs[x] = NoRow
                                 \/ runs'[x].status = "expired"
<1>1. /\ sets[s] \in SetRow /\ sets[s] # NoRow /\ sets[s].quality = "approved"
      /\ sets[s].cases = "sound" /\ sets[s].rubric \in {NoTask, read.task}
  BY DEF Accepts, Exists, IInv, SetsTyped, VerdictOK
<1> DEFINE new == [sets[s] EXCEPT !.frozen = TRUE]
           row == [set |-> s, cases |-> sets[s].cases, task |-> read.task, status |-> "pending"]
<1>2. /\ new \in SetRow /\ new.frozen /\ new.quality = "approved" /\ new.cases = "sound"
      /\ new.rubric = sets[s].rubric
  BY <1>1 DEF SetRow
<1>3. \A x \in SetIds : sets'[x] = IF x = s THEN new ELSE sets[x]
  BY DEF Insert, IInv, SetsTyped
<1>4. sets' \in [SetIds -> SetRow \cup {NoRow}]
  BY <1>2 DEF Insert, IInv, SetsTyped
<1>5. sets[s].frozen => new = sets[s]
  BY <1>1 DEF SetRow
<1>6. row \in RunRow /\ row.status = "pending" /\ row.set = s
      /\ row.cases = "sound" /\ row.task = read.task
  BY <1>1 DEF RunRow, SetRow
<1>7. runs' = [Reconciled(old) EXCEPT ![k] = row]
  BY DEF Insert
<1> HIDE DEF new, row
<1>8. VerdictOK' /\ FrozenKept
  BY <1>2, <1>3, <1>5 DEF VerdictOK, FrozenKept, Exists, IInv
<1>9. runs'[k] = row /\ \A x \in RunKeys \ {k} : runs'[x] = Reconciled(old)[x]
  BY <1>7 DEF Reconciled
<1>10. Begins(k)
  BY <1>1, <1>2, <1>3, <1>6, <1>9, NoRowIsNoRow DEF Begins
<1>11. ASSUME NEW x \in RunKeys, x # k
       PROVE  runs'[x] = runs[x] \/ (Moves(x, "expired") /\ runs'[x].status = "expired")
  <2>1. CASE x \in old
    <3>1. runs[x] \in RunRow /\ runs[x] # NoRow /\ runs[x].status \in {"pending", "running"}
      BY <2>1 DEF UnfinishedRuns, Unfinished, IInv, RunsInv, RunsTyped
    <3>2. runs'[x] = [runs[x] EXCEPT !.status = "expired"]
      BY <1>9, <1>11, <2>1 DEF Reconciled
    <3> QED
      BY <3>1, <3>2 DEF Moves, Forward, RunRow
  <2>2. CASE x \notin old
    BY <1>9, <1>11, <2>2 DEF Reconciled
  <2> QED
    BY <2>1, <2>2
<1>12. RunStep
  <2>1. DOMAIN runs' = RunKeys /\ runs' = [x \in RunKeys |-> runs'[x]]
    BY <1>7 DEF Reconciled
  <2> QED
    BY <1>10, <1>11, <2>1 DEF RunStep
<1>13. SetsTyped'
  BY <1>4 DEF SetsTyped
<1> QED
  BY <1>6, <1>8, <1>9, <1>11, <1>12, <1>13, NoRowIsNoRow

LEMMA ClaimedRun ==
    ASSUME RunsTyped, NEW k \in RunKeys, runs[k] # NoRow,
           Claim(k) \/ (runs[k].status \in {"running", "expired"} /\ \E outcome \in Outcomes :
                            runs' = [runs EXCEPT ![k].status = outcome])
    PROVE  /\ RunStep
           /\ \A x \in RunKeys \ {k} : runs'[x] = runs[x]
           /\ Claim(k) => runs'[k].status = "running"
<1>1. runs[k] \in RunRow
  BY DEF RunsTyped
<1>2. PICK x \in {"running"} \cup Outcomes :
          /\ runs' = [runs EXCEPT ![k].status = x]
          /\ Claim(k) => x = "running"
          /\ \/ runs[k].status = "pending" /\ x = "running"
             \/ runs[k].status \in {"running", "expired"} /\ x \in Outcomes
  BY DEF Claim
<1>3. Moves(k, x) /\ runs'[k].status = x
  BY <1>1, <1>2 DEF Moves, Forward, RunsTyped, RunRow
<1>4. \A y \in RunKeys \ {k} : runs'[y] = runs[y]
  BY <1>2 DEF RunsTyped
<1>5. DOMAIN runs' = RunKeys /\ runs' = [y \in RunKeys |-> runs'[y]]
  BY <1>2 DEF RunsTyped
<1> QED
  BY <1>2, <1>3, <1>4, <1>5 DEF RunStep

LEMMA WorkerStep == ASSUME IInv, Worker PROVE IInv' /\ RunStep
<1> PICK k \in HandRequests : WorkerStart(k) \/ WorkerEnd(k)
  BY DEF Worker
<1>1. UNCHANGED <<task, spec, stage, sets, boot, session>>
  BY DEF WorkerStart, WorkerEnd
<1>2. /\ k \in RunKeys /\ runs[k] # NoRow /\ live[k] \in Nat /\ waiting[k] \in 0..MaxWaiting
      /\ live[k] > 0 => live[k] = 1 /\ runs[k].status \in {"running", "expired"}
  BY Ids DEF WorkerStart, WorkerEnd, IInv, JobsOK, JobsTyped, OneWorker
<1>3. RunStep /\ \A x \in RunKeys \ {k} : runs'[x] = runs[x]
  BY <1>2, ClaimedRun, SameRuns DEF WorkerStart, WorkerEnd, IInv, RunsInv
<1>4. SetsTyped' /\ VerdictOK' /\ FrozenKept
  BY <1>1, SameSets DEF IInv
<1>5. TextOK' /\ SessionOK' /\ BootOK'
  BY <1>1 DEF IInv, TextOK, SessionOK, BootOK
<1>6. BootRunOK'
  BY <1>1, <1>3, Ids, BootRunKept DEF IInv, RunsInv
<1>7. \A x \in HandRequests \ {k} : waiting'[x] = waiting[x] /\ live'[x] = live[x]
  BY DEF WorkerStart, WorkerEnd, IInv, JobsOK, JobsTyped
<1>8. JobsTyped'
  BY <1>2, BoundsAreNatural DEF WorkerStart, WorkerEnd, IInv, JobsOK, JobsTyped
<1>9. runs'[k] # NoRow
  BY <1>2, <1>3, RowsStay DEF IInv, RunsInv
<1>10. JobsOK'
  BY <1>3, <1>7, <1>8, <1>9, Ids DEF JobsOK, IInv
<1>11. live'[k] > 0 => live'[k] = 1 /\ runs'[k].status \in {"running", "expired"}
  <2>1. CASE WorkerStart(k) /\ Claim(k) /\ live' = [live EXCEPT ![k] = @ + 1]
    <3>1. runs[k].status = "pending"
      BY <2>1 DEF Claim
    <3>2. live[k] = 0
      BY <1>2, <3>1
    <3>3. runs'[k].status = "running"
      BY <1>2, <2>1, ClaimedRun DEF IInv, RunsInv
    <3> QED
      BY <2>1, <3>2, <3>3 DEF IInv, JobsOK, JobsTyped
  <2>2. CASE WorkerStart(k) /\ UNCHANGED <<runs, live>>
    BY <1>2, <2>2
  <2>3. CASE WorkerEnd(k)
    BY <1>2, <2>3 DEF WorkerEnd, IInv, JobsOK, JobsTyped
  <2> QED
    BY <2>1, <2>2, <2>3 DEF WorkerStart
<1>12. OneWorker'
  BY <1>3, <1>7, <1>11, Ids DEF OneWorker, IInv
<1> QED
  BY <1>3, <1>4, <1>5, <1>6, <1>10, <1>12, Assemble

----------------------------------------------------------------------------
(* Handlers that use what they loaded *)

LEMMA SessionStep ==
    ASSUME IInv, NEW u \in Users, NEW op \in {"run", "edit", "plan", "cases"}, Open(u, op) \/ Drop(u)
    PROVE  IInv' /\ RunStep
<1>1. UNCHANGED <<task, spec, stage, rows, jobs, boot>>
  BY DEF Open, Drop
<1>2. SessionOK'
  <2>1. CASE Open(u, op)
    <3> DEFINE loaded == IF op \in {"run", "plan"} THEN task ELSE NoTask
               plan == CASE op \in {"run", "cases"} -> spec
                         [] op = "edit" -> IF spec = NoTask THEN NoTask ELSE 1
                         [] op = "plan" -> NoTask
               new == [op |-> op, task |-> loaded, spec |-> plan]
    <3>1. loaded \in Tasks \cup {NoTask} /\ plan \in Tasks \cup {NoTask}
          /\ (op \in {"run", "plan"} => loaded \in Tasks)
      BY Ids DEF IInv, TextOK
    <3>2. session' = [session EXCEPT ![u] = new]
      BY <2>1 DEF Open
    <3> HIDE DEF loaded, plan
    <3>3. new \in SessionType /\ new.op = op /\ new.task = loaded
      BY <3>1 DEF SessionType
    <3> HIDE DEF new
    <3> QED
      BY <3>1, <3>2, <3>3 DEF IInv, SessionOK
  <2>2. CASE Drop(u)
    BY <2>2 DEF Drop, NoSession, SessionType, IInv, SessionOK
  <2> QED
    BY <2>1, <2>2
<1>3. TextOK' /\ BootOK' /\ BootRunOK'
  BY <1>1 DEF IInv, TextOK, BootOK, BootRunOK, rows
<1>4. SetsTyped' /\ VerdictOK' /\ FrozenKept
  BY <1>1, SameSets DEF IInv, rows
<1>5. RunStep
  BY <1>1, SameRuns DEF IInv, RunsInv, rows
<1>6. JobsOK' /\ OneWorker'
  BY <1>1, <1>5, JobsKept DEF IInv, RunsInv, rows
<1> QED
  BY <1>2, <1>3, <1>4, <1>5, <1>6, Assemble

LEMMA SessionClosed ==
    ASSUME SessionOK, NEW u \in Users, session' = [session EXCEPT ![u] = NoSession]
    PROVE  SessionOK'
  BY DEF NoSession, SessionType, SessionOK

LEMMA SubmitStep ==
    ASSUME IInv, NEW u \in Users, NEW k \in HandRequests, NEW s \in SetIds, Submit(u, k, s)
    PROVE  IInv' /\ RunStep
<1>1. UNCHANGED <<task, spec, stage, live, boot>>
  BY DEF Submit
<1>2. k \in RunKeys /\ k \notin Tasks
  BY Ids
<1>3. /\ SetsTyped' /\ VerdictOK' /\ FrozenKept /\ RunStep /\ runs'[k] # NoRow
      /\ \A x \in RunKeys : \/ runs'[x] = runs[x] \/ runs[x] = NoRow
                            \/ runs'[x].status = "expired"
  <2>1. ASSUME NEW old \in SUBSET UnfinishedRuns, runs[k] = NoRow, Accepts(s, session[u]),
               Insert(k, s, session[u], old)
        PROVE  <1>3!:
    <3>1. session[u].task \in Tasks
      BY DEF Submit, IInv, SessionOK
    <3> QED
      BY <1>2, <2>1, <3>1, InsertedRun
  <2>2. ASSUME NEW old \in SUBSET UnfinishedRuns, runs[k] # NoRow, runs' = Reconciled(old), sets' = sets
        PROVE  <1>3!:
    BY <1>2, <2>2, ReconciledRuns, SameSets, RowsStay DEF IInv, RunsInv
  <2> QED
    BY <2>1, <2>2 DEF Submit
<1>4. TextOK' /\ BootOK' /\ SessionOK'
  BY <1>1, SessionClosed DEF IInv, TextOK, BootOK, Submit
<1>5. BootRunOK'
  BY <1>1, <1>3, Ids, BootRunKept DEF IInv, RunsInv
<1>6. JobsTyped'
  <2>1. JobsTyped
    BY DEF IInv, JobsOK
  <2>2. CASE waiting' = waiting
    BY <1>1, <2>1, <2>2 DEF JobsTyped
  <2>3. CASE waiting[k] < MaxWaiting /\ waiting' = [waiting EXCEPT ![k] = @ + 1]
    BY <1>1, <2>1, <2>3, BoundsAreNatural DEF JobsTyped
  <2> QED
    BY <2>2, <2>3 DEF Submit
<1>7. \A x \in HandRequests : waiting'[x] > 0 \/ live'[x] > 0 => runs'[x] # NoRow
  <2> SUFFICES ASSUME NEW x \in HandRequests, x # k, waiting'[x] > 0 \/ live'[x] > 0
               PROVE  runs'[x] # NoRow
    BY <1>3
  <2>1. waiting'[x] = waiting[x] /\ live'[x] = live[x]
    BY <1>1 DEF Submit, IInv, JobsOK, JobsTyped
  <2> QED
    BY <1>3, <2>1, RowsStay, Ids DEF IInv, RunsInv, JobsOK
<1>8. OneWorker'
  <2>1. \A x \in HandRequests : live[x] > 0 => runs[x] # NoRow
    BY DEF IInv, JobsOK
  <2> QED
    BY <1>1, <1>3, <2>1, Ids DEF OneWorker, IInv
<1> QED
  BY <1>3, <1>4, <1>5, <1>6, <1>7, <1>8, Assemble DEF JobsOK

LEMMA SaveStep ==
    ASSUME IInv, NEW u \in Users,
           \/ \E t \in Tasks : SaveRequirements(u, t)
           \/ SavePlan(u)
           \/ \E s \in HandSets, c \in Cases : SaveCases(u, s, c)
    PROVE  IInv' /\ RunStep
<1>1. UNCHANGED <<runs, jobs, boot>>
  BY DEF SaveRequirements, SavePlan, SaveCases, rows
<1>2. session[u] \in SessionType /\ (session[u].op = "plan" => session[u].task \in Tasks)
  BY DEF IInv, SessionOK
<1>3. TextOK'
  BY <1>2 DEF SaveRequirements, SavePlan, SaveCases, IInv, TextOK
<1>4. SessionOK'
  BY SessionClosed DEF SaveRequirements, SavePlan, SaveCases, IInv
<1>5. BootOK' /\ BootRunOK'
  BY <1>1 DEF IInv, BootOK, BootRunOK
<1>6. SetsTyped' /\ VerdictOK' /\ FrozenKept
  <2>1. CASE sets' = sets
    BY <2>1, SameSets DEF IInv
  <2>2. ASSUME NEW s \in HandSets, NEW c \in Cases, SaveCases(u, s, c)
        PROVE  SetsTyped' /\ VerdictOK' /\ FrozenKept
    <3>1. session[u].spec \in Tasks \cup {NoTask} /\ s \in SetIds
      BY <1>2 DEF SessionType, SetIds
    <3> QED
      BY <2>2, <3>1, SetWrite, WrittenRow DEF SaveCases, Addable, IInv
  <2> QED
    BY <2>1, <2>2 DEF SaveRequirements, SavePlan, rows
<1>7. RunStep
  BY <1>1, SameRuns DEF IInv, RunsInv
<1>8. JobsOK' /\ OneWorker'
  BY <1>1, <1>7, JobsKept DEF IInv, RunsInv
<1> QED
  BY <1>3, <1>4, <1>5, <1>6, <1>7, <1>8, Assemble

LEMMA UserStep == ASSUME IInv, UserHandler PROVE IInv' /\ RunStep
  BY SessionStep, SubmitStep, SaveStep DEF UserHandler

----------------------------------------------------------------------------
(* Bootstrap *)

\* the bootstrap moves on while only texts or sets change
LEMMA BootMoves ==
    ASSUME IInv, UNCHANGED <<runs, jobs, session>>, TextOK',
           SetsTyped', VerdictOK', FrozenKept, BootOK', BootRunOK'
    PROVE  IInv' /\ RunStep
<1>1. RunStep
  BY SameRuns DEF IInv, RunsInv
<1>2. JobsOK' /\ OneWorker'
  BY <1>1, JobsKept DEF IInv, RunsInv
<1>3. SessionOK'
  BY DEF IInv, SessionOK
<1> QED
  BY <1>1, <1>2, <1>3, Assemble

LEMMA BootTyped ==
    ASSUME BootOK
    PROVE  /\ boot \in BootType /\ NoBoot \in BootType /\ NoBoot.at = "idle"
           /\ \A st \in {"results", "error"} : Done(st) \in BootType /\ Done(st).at = "refresh"
                                               /\ Done(st).stage = st
           /\ \A st \in Scoped : /\ Entering(st) \in BootType /\ Entering(st).at = "refresh"
                                 /\ Entering(st).stage = st /\ Entering(st).scope = boot.scope
<1> USE DEF BootType, Stages, NoBoot, Done, Entering, Scoped
<1>1. boot \in BootType
  BY DEF BootOK
<1> QED
  BY <1>1

LEMMA BootTextStep ==
    ASSUME IInv, BootStart \/ BootRefresh \/ BootSave \/ BootFail \/ BootPlan \/ BootLook
    PROVE  IInv' /\ RunStep
<1> USE DEF Quiet, rows
<1>1. UNCHANGED <<sets, runs, jobs, session>>
  BY DEF BootStart, BootRefresh, BootSave, BootFail, BootPlan, BootLook
<1>2. SetsTyped' /\ VerdictOK' /\ FrozenKept
  BY <1>1, SameSets DEF IInv
<1>3. boot \in BootType /\ BootOK /\ TextOK
  BY DEF IInv, BootOK
<1>4. TextOK' /\ BootOK' /\ BootRunOK'
  <2> USE <1>3, BootTyped
  <2>1. CASE BootStart
    <3>1. boot' \in BootType /\ boot'.at = "refresh" /\ boot'.stage = "plan"
      BY <2>1 DEF BootStart, BootType, NoBoot, Stages, TextOK
    <3> QED
      BY <2>1, <3>1 DEF BootStart, TextOK, BootOK, BootRunOK, Scoped
  <2>2. CASE BootRefresh
    <3>1. /\ boot' \in BootType /\ boot'.at = "save" /\ boot'.stage = boot.stage
          /\ boot'.task \in Tasks /\ boot'.scope = boot.scope
      BY <2>2 DEF BootRefresh, BootType, TextOK
    <3> QED
      BY <1>1, <2>2, <3>1 DEF BootRefresh, TextOK, BootOK, BootRunOK, IInv
  <2>3. CASE BootSave
    <3>1. boot.task \in Tasks /\ boot.at = "save"
      BY <2>3 DEF BootSave, BootOK
    <3>2. TextOK'
      BY <2>3, <3>1 DEF BootSave, TextOK
    <3>3. CASE boot.stage \in {"results", "error"}
      BY <1>1, <2>3, <3>2, <3>3 DEF BootSave, BootOK, BootRunOK
    <3>4. CASE boot.stage \notin {"results", "error"}
      <4>1. /\ boot' \in BootType /\ boot'.at = "work" /\ boot'.stage = boot.stage
            /\ boot.stage \in {"plan", "evaluation"} => boot'.task \in Tasks
            /\ boot'.scope = boot.scope
        BY <2>3, <3>1, <3>4 DEF BootSave, BootType
      <4> QED
        BY <1>1, <3>1, <3>2, <4>1 DEF BootOK, BootRunOK, IInv
    <3> QED
      BY <3>3, <3>4
  <2>4. CASE BootFail
    BY <2>4 DEF BootFail, TextOK, BootOK, BootRunOK, Scoped
  <2>5. CASE BootPlan
    <3>1. boot.task \in Tasks
      BY <2>5 DEF BootPlan, Working, BootOK
    <3>2. /\ boot' \in BootType /\ boot'.at = "refresh" /\ boot'.stage = "cases"
          /\ boot'.scope = boot.task
      <4>1. Entering("cases") \in BootType /\ Entering("cases").at = "refresh"
            /\ Entering("cases").stage = "cases"
        BY DEF Scoped
      <4>2. \/ boot' = [Entering("cases") EXCEPT !.spec = boot.task, !.scope = boot.task]
            \/ boot' = [Entering("cases") EXCEPT !.scope = boot.task]
        BY <2>5 DEF BootPlan
      <4> QED
        BY <3>1, <4>1, <4>2 DEF BootType
    <3>3. TextOK'
      BY <2>5, <3>1 DEF BootPlan, TextOK
    <3> QED
      BY <3>1, <3>2, <3>3 DEF BootOK, BootRunOK
  <2>6. CASE BootLook
    <3>1. boot.scope \in Tasks /\ boot.at = "work" /\ boot.stage = "cases"
      BY <2>6 DEF BootLook, Working, BootOK, Scoped
    <3>2. /\ boot' \in BootType /\ boot'.scope = boot.scope
          /\ \/ boot'.at = "generate" /\ boot'.stage = "cases"
             \/ boot'.at = "refresh" /\ boot'.stage = "validation"
      <4>1. CASE boot' = Entering("validation")
        BY <4>1 DEF Scoped
      <4>2. CASE boot' = [boot EXCEPT !.at = "generate", !.replacing = Exists(boot.scope)]
        <5>1. \/ boot' = [boot EXCEPT !.at = "generate", !.replacing = TRUE]
              \/ boot' = [boot EXCEPT !.at = "generate", !.replacing = FALSE]
          BY <4>2, Zenon DEF Exists
        <5>2. boot' \in BootType
          <6>1. ASSUME NEW b \in BOOLEAN
                PROVE  [boot EXCEPT !.at = "generate", !.replacing = b] \in BootType
            <7>1. boot \in BootType
              OBVIOUS
            <7> QED
              BY <7>1 DEF BootType
          <6> QED
            BY <5>1, <6>1
        <5>3. boot'.at = "generate" /\ boot'.stage = boot.stage /\ boot'.scope = boot.scope
          BY <3>1, <5>1 DEF BootType
        <5> QED
          BY <3>1, <5>2, <5>3
      <4> QED
        BY <2>6, <4>1, <4>2 DEF BootLook
    <3> QED
      BY <2>6, <3>1, <3>2 DEF BootLook, TextOK, BootOK, BootRunOK
  <2> QED
    BY <2>1, <2>2, <2>3, <2>4, <2>5, <2>6
<1> QED
  BY <1>1, <1>2, <1>4, BootMoves

LEMMA BootSetStep ==
    ASSUME IInv, BootJudge \/ \E c \in Cases : BootGenerate(c)
    PROVE  IInv' /\ RunStep
<1>1. UNCHANGED <<task, spec, stage, runs, jobs, session>>
  BY DEF BootGenerate, BootJudge
<1>2. boot \in BootType /\ BootOK /\ SetsTyped /\ VerdictOK
  BY DEF IInv, BootOK
<1>3. boot.scope \in Tasks /\ boot.scope \in SetIds
  BY <1>2, Ids DEF BootGenerate, BootJudge, Working, BootOK, Scoped
<1>4. SetsTyped' /\ VerdictOK' /\ FrozenKept
  <2>1. CASE BootJudge
    BY <1>2, <1>3, <2>1, JudgedSets DEF BootJudge
  <2>2. ASSUME NEW c \in Cases, BootGenerate(c) PROVE SetsTyped' /\ VerdictOK' /\ FrozenKept
    <3>1. CASE sets' = sets
      BY <1>2, <3>1, SameSets
    <3>2. CASE sets' # sets
      <4>1. /\ sets' = [sets EXCEPT ![boot.scope] = Written(c, boot.spec)]
            /\ Exists(boot.scope) => ~sets[boot.scope].frozen
        BY <2>2, <3>2 DEF BootGenerate, Editable, Regenerable
      <4>2. boot.spec \in Tasks \cup {NoTask}
        BY <1>2 DEF BootType
      <4>3. Written(c, boot.spec) \in SetRow /\ Written(c, boot.spec).quality = "none"
        BY <4>2, WrittenRow
      <4> QED
        BY <1>2, <1>3, <4>1, <4>3, SetWrite
    <3> QED
      BY <3>1, <3>2
  <2> QED
    BY <2>1, <2>2
<1>5. /\ boot' \in BootType /\ boot'.at = "refresh"
      /\ boot'.stage \in {"validation", "evaluation", "error"}
      /\ boot'.stage # "error" => boot'.scope = boot.scope
  <2>1. CASE BootJudge
    BY <1>2, <2>1, BootTyped DEF BootJudge, Scoped
  <2>2. ASSUME NEW c \in Cases, BootGenerate(c) PROVE <1>5!:
    <3>1. Entering("validation") \in BootType /\ Entering("validation").at = "refresh"
          /\ Entering("validation").stage = "validation" /\ Entering("validation").scope = boot.scope
      BY <1>2, BootTyped DEF Scoped
    <3>2. boot' = [Entering("validation") EXCEPT !.replacing = FALSE]
      BY <2>2 DEF BootGenerate
    <3> QED
      BY <3>1, <3>2 DEF BootType
  <2> QED
    BY <2>1, <2>2
<1>6. TextOK' /\ BootOK' /\ BootRunOK'
  BY <1>1, <1>3, <1>5 DEF IInv, TextOK, BootOK, BootRunOK, Scoped
<1> QED
  BY <1>1, <1>4, <1>6, BootMoves

LEMMA BootRunStep ==
    ASSUME IInv, BootCreateRun \/ BootExecute \/ BootFinish
    PROVE  IInv' /\ RunStep
<1> DEFINE k == boot.scope
<1>1. UNCHANGED <<task, spec, stage, jobs, session>>
  BY DEF BootCreateRun, BootExecute, BootFinish, jobs
<1>2. boot \in BootType /\ BootOK /\ SetsTyped /\ VerdictOK /\ RunsTyped /\ BootRunOK
  BY DEF IInv, BootOK, RunsInv
<1>3. k \in Tasks /\ k \in RunKeys /\ k \in SetIds /\ k \notin HandRequests
  BY <1>2, Ids DEF BootCreateRun, BootExecute, BootFinish, Working, BootOK, Scoped
<1>4. BootCreateRun => boot.task \in Tasks
  BY <1>2 DEF BootCreateRun, Working, BootOK
<1>5. BootExecute \/ BootFinish => runs[k] # NoRow
  BY <1>2 DEF BootExecute, BootFinish, Working, BootOK, BootRunOK
<1>6. BootFinish => runs[k].status \in {"running", "expired"}
  BY <1>2 DEF BootFinish, BootRunOK
<1> HIDE DEF k
<1>7. /\ SetsTyped' /\ VerdictOK' /\ FrozenKept /\ RunStep /\ runs'[k] # NoRow
      /\ \A x \in RunKeys \ {k} : \/ runs'[x] = runs[x] \/ runs[x] = NoRow
                                  \/ runs'[x].status = "expired"
  <2>1. ASSUME NEW old \in SUBSET UnfinishedRuns, BootCreateRun, runs[k] = NoRow, Accepts(k, boot),
               Insert(k, k, boot, old)
        PROVE  <1>7!:
    BY <1>3, <1>4, <2>1, InsertedRun
  <2>2. ASSUME NEW old \in SUBSET UnfinishedRuns, runs[k] # NoRow, runs' = Reconciled(old), sets' = sets
        PROVE  <1>7!:
    BY <1>2, <1>3, <2>2, ReconciledRuns, SameSets, RowsStay
  <2>3. CASE BootExecute
    <3>1. sets' = sets /\ (Claim(k) \/ runs' = runs)
      BY <2>3 DEF BootExecute, k
    <3>2. RunStep /\ \A x \in RunKeys \ {k} : runs'[x] = runs[x]
      BY <1>2, <1>3, <1>5, <2>3, <3>1, ClaimedRun, SameRuns
    <3> QED
      BY <1>2, <1>3, <1>5, <2>3, <3>1, <3>2, SameSets, RowsStay
  <2>4. CASE BootFinish
    <3>1. sets' = sets /\ \E outcome \in Outcomes : runs' = [runs EXCEPT ![k].status = outcome]
      BY <2>4 DEF BootFinish, k
    <3>2. RunStep /\ \A x \in RunKeys \ {k} : runs'[x] = runs[x]
      BY <1>2, <1>3, <1>5, <1>6, <2>4, <3>1, ClaimedRun
    <3> QED
      BY <1>2, <1>3, <1>5, <2>4, <3>1, <3>2, SameSets, RowsStay
  <2> QED
    BY <2>1, <2>2, <2>3, <2>4 DEF BootCreateRun, k
<1>8. /\ boot' \in BootType /\ BootOK' /\ BootRunOK'
  <2> USE <1>2, <1>7, BootTyped DEF k
  <2>1. CASE BootCreateRun
    <3>1. Entering("execution") \in BootType /\ Entering("execution").at = "refresh"
          /\ Entering("execution").stage = "execution" /\ Entering("execution").scope = boot.scope
      BY DEF Scoped
    <3>2. boot' = [Entering("execution") EXCEPT !.spec = NoTask]
      BY <2>1 DEF BootCreateRun
    <3>3. /\ boot' \in BootType /\ boot'.at = "refresh" /\ boot'.stage = "execution"
          /\ boot'.scope = boot.scope
      BY <3>1, <3>2 DEF BootType
    <3> QED
      BY <1>3, <3>3 DEF BootOK, BootRunOK
  <2>2. CASE BootExecute /\ boot' = [boot EXCEPT !.at = "executing"] /\ Claim(boot.scope)
    <3>1. /\ boot' \in BootType /\ boot'.at = "executing" /\ boot'.stage = "execution"
          /\ boot'.scope = boot.scope
      BY <2>2 DEF BootType, BootExecute, Working
    <3>2. runs'[boot.scope].status = "running"
      BY <1>3, <1>5, <2>2, ClaimedRun
    <3> QED
      BY <1>3, <3>1, <3>2 DEF BootOK, BootRunOK
  <2>3. CASE boot' = Done("results")
    BY <2>3 DEF BootOK, BootRunOK, Scoped
  <2> QED
    BY <2>1, <2>2, <2>3 DEF BootExecute, BootFinish
<1>9. TextOK' /\ SessionOK'
  BY <1>1 DEF IInv, TextOK, SessionOK
<1>10. \A x \in HandRequests : live[x] > 0 => runs[x] # NoRow
  BY DEF IInv, JobsOK
<1>11. JobsOK' /\ OneWorker'
  BY <1>1, <1>3, <1>7, <1>10, Ids, JobsKept DEF IInv, RunsInv
<1> QED
  BY <1>7, <1>8, <1>9, <1>11, Assemble

LEMMA CrashStep == ASSUME IInv, Crash PROVE IInv' /\ RunStep
<1>1. UNCHANGED <<task, spec, stage, sets, runs>>
  BY DEF Crash, rows
<1>2. SetsTyped' /\ VerdictOK' /\ FrozenKept /\ RunStep
  BY <1>1, SameSets, SameRuns DEF IInv, RunsInv
<1>3. TextOK' /\ JobsOK' /\ OneWorker'
  BY <1>1, BoundsAreNatural DEF Crash, IInv, TextOK, JobsOK, JobsTyped, OneWorker
<1>4. SessionOK'
  BY DEF Crash, SessionOK, NoSession, SessionType
<1>5. BootOK' /\ BootRunOK'
  BY BootTyped DEF Crash, IInv, BootOK, BootRunOK
<1> QED
  BY <1>2, <1>3, <1>4, <1>5, Assemble

----------------------------------------------------------------------------
LEMMA StepInv == ASSUME IInv, [Next]_vars PROVE IInv' /\ RunStep
<1>1. CASE UNCHANGED vars
  <2> USE <1>1 DEF vars, rows, jobs
  <2>1. SetsTyped' /\ VerdictOK' /\ FrozenKept /\ RunStep
    BY SameSets, SameRuns DEF IInv, RunsInv
  <2>2. TextOK' /\ SessionOK' /\ BootOK' /\ BootRunOK'
    BY DEF IInv, TextOK, SessionOK, BootOK, BootRunOK
  <2>3. JobsOK' /\ OneWorker'
    BY DEF IInv, JobsOK, JobsTyped, OneWorker
  <2> QED
    BY <2>1, <2>2, <2>3, Assemble
<1>2. CASE Boot
  BY <1>2, BootTextStep, BootSetStep, BootRunStep DEF Boot
<1> QED
  BY <1>1, <1>2, SetStep, UserStep, WorkerStep, CrashStep DEF Next

LEMMA Invariance == Spec => []IInv
<1>1. IInv /\ [Next]_vars => IInv'
  BY StepInv
<1> QED
  BY InitInv, <1>1, PTL DEF Spec

(* Every variable keeps its type.                                          *)
THEOREM TypeCorrect == Spec => []TypeOK
  BY Invariance, TypeParts, PTL

(* Every run stands on a set that is still there, frozen and approved,     *)
(* with the cases the run copied, whoever edits, judges, regenerates or    *)
(* removes sets meanwhile (create_run, insert_frozen_run, write_set).      *)
THEOREM ApprovedCases == Spec => []RunsStandOnApprovedCases
<1>1. IInv => RunsStandOnApprovedCases
  BY DEF IInv, RunsInv
<1> QED
  BY Invariance, <1>1, PTL

(* A run measures the requirements its rubric was generated for, whatever  *)
(* its handler had loaded and whatever changed since (create_run).         *)
THEOREM RubricFits == Spec => []RunMeasuresItsRubric
<1>1. IInv => RunMeasuresItsRubric
  BY DEF IInv, RunsInv
<1> QED
  BY Invariance, <1>1, PTL

(* One worker executes a submitted run, however often its submission is    *)
(* repeated (the claim of execute_run).                                    *)
THEOREM ExecutedByOne == Spec => []OneWorker
<1>1. IInv => OneWorker
  BY DEF IInv
<1> QED
  BY Invariance, <1>1, PTL

(* A run only moves forward, and the outcome of a worker is final          *)
(* (execute_run, expire_runs).                                             *)
THEOREM ForwardRuns == Spec => RunMovesForward
<1>1. IInv /\ [Next]_vars => [\A k \in RunKeys : runs[k] # NoRow /\ runs'[k] # runs[k] =>
          /\ runs'[k] # NoRow
          /\ runs'[k] = [runs[k] EXCEPT !.status = runs'[k].status]
          /\ Rank(runs'[k].status) > Rank(runs[k].status)]_vars
  BY StepInv, ForwardOnly DEF IInv, RunsInv
<1> QED
  BY Invariance, <1>1, PTL DEF Spec, RunMovesForward
==============================================================================
