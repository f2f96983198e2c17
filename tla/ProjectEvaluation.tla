------------------------- MODULE ProjectEvaluation -------------------------
(***************************************************************************)
(* The evaluation of one agent project: its requirements, its evaluation   *)
(* plan, its evaluation sets, the runs over them with the background jobs  *)
(* that execute the runs, and the bootstrap that takes a Builder project   *)
(* from its first version to a baseline.                                   *)
(*                                                                         *)
(* Code: backend/app/services/agent_project_evaluation.py,                 *)
(* agent_project_semantic.py (generate), agent_project_practice.py         *)
(* (write_requirements, record_decision, checked_decisions),               *)
(* builder_project_lifecycle.py and the routes that call them.             *)
(*                                                                         *)
(* A handler loads the project, then takes the project's row lock with an  *)
(* UPDATE and works until its commit.  What it loaded before the lock      *)
(* stays as it was loaded (expire_on_commit is False, only some attributes *)
(* are refreshed), so a handler is two steps here: what it read, in        *)
(* session, and the locked rest.  Handlers that refresh everything they    *)
(* use under the lock are one step.                                        *)
(*                                                                         *)
(* A requirements text is a number (its hash); a plan or a rubric is the   *)
(* number of the requirements it was generated for.  The cases of a set    *)
(* are "sound" (the quality check approves them) or "flawed".              *)
(***************************************************************************)
EXTENDS Naturals, FiniteSets

CONSTANTS
    MaxTask,       \* bound: how often the requirements change
    HandSets,      \* ids of the sets people create
    HandRequests,  \* request ids of the runs people submit
    Users,         \* open requests whose handler has read but not yet locked
    MaxSets,       \* bound: evaluation sets that exist at a time
    MaxWaiting,    \* bound: background jobs added for one run by retries
    Outcomes,      \* what a worker writes in the end; nothing tells them apart
    NoRow          \* "no such row"

ASSUME BoundsAreNatural == MaxTask \in Nat \ {0} /\ MaxSets \in Nat /\ MaxWaiting \in Nat \ {0}
ASSUME IdsAreDistinct == HandSets \cap Nat = {} /\ HandRequests \cap Nat = {}

Tasks == 1..MaxTask
NoTask == 0
SetIds == Tasks \cup HandSets         \* t \in Tasks: the automatic benchmark of requirements t
RunKeys == Tasks \cup HandRequests    \* t \in Tasks: the automatic baseline of requirements t

Cases == {"sound", "flawed"}
SetRow == [cases: Cases, rubric: Tasks \cup {NoTask},
           quality: {"none", "approved", "rejected"}, frozen: BOOLEAN]
\* "expired": failed with the error that expire_runs gives
RunRow == [set: SetIds, cases: Cases, task: Tasks,
           status: {"pending", "running", "expired"} \cup Outcomes]
ASSUME OutcomesAreFinal == Outcomes \cap {"pending", "running", "expired"} = {}
ASSUME NoRowIsNoRow == NoRow \notin SetRow \cup RunRow

Stages == {"plan", "cases", "validation", "evaluation", "execution", "results", "error"}

VARIABLES
    task,      \* requirements_json.task
    spec,      \* eval_spec_json: the requirements it was generated for
    stage,     \* requirements_json.bootstrap: "results", or "underway" for every other stage
    sets, runs,
    waiting,   \* background execute_run jobs not yet begun, per submitted run
    live,      \* the same, executing
    boot,      \* the bootstrap that holds the advisory lock
    session    \* per user: the handler that has loaded the project

rows == <<sets, runs>>
jobs == <<waiting, live>>
vars == <<task, spec, stage, sets, runs, waiting, live, boot, session>>

NoBoot == [at |-> "idle", stage |-> "plan", task |-> NoTask, spec |-> NoTask,
           scope |-> NoTask, replacing |-> FALSE]
NoSession == [op |-> "idle", task |-> NoTask, spec |-> NoTask]

TypeOK ==
    /\ task \in Tasks
    /\ spec \in Tasks \cup {NoTask}
    /\ stage \in {"underway", "results"}
    /\ sets \in [SetIds -> SetRow \cup {NoRow}]
    /\ runs \in [RunKeys -> RunRow \cup {NoRow}]
    /\ waiting \in [HandRequests -> 0..MaxWaiting]
    /\ live \in [HandRequests -> Nat]
    /\ boot \in [at: {"idle", "refresh", "save", "work", "generate", "executing"},
                 stage: Stages, task: Tasks \cup {NoTask},
                 spec: Tasks \cup {NoTask}, scope: Tasks \cup {NoTask}, replacing: BOOLEAN]
    /\ session \in [Users -> [op: {"idle", "run", "edit", "plan", "cases"},
                              task: Tasks \cup {NoTask}, spec: Tasks \cup {NoTask}]]

(* The Builder has just created the project with version 1, its            *)
(* requirements and the two decisions, and bootstrap is not yet scheduled. *)
Init ==
    /\ task = 1
    /\ spec = NoTask
    /\ stage = "underway"
    /\ sets = [s \in SetIds |-> NoRow]
    /\ runs = [k \in RunKeys |-> NoRow]
    /\ waiting = [k \in HandRequests |-> 0]
    /\ live = [k \in HandRequests |-> 0]
    /\ boot = NoBoot
    /\ session = [u \in Users |-> NoSession]

----------------------------------------------------------------------------
(* Evaluation sets: each handler is one transaction under the project lock *)

Exists(s) == sets[s] # NoRow
\* mutant: a frozen set can be edited and removed
Editable_Frozen(s) == Exists(s)

Editable(s) == Exists(s) /\ ~sets[s].frozen
Addable(s) == ~Exists(s) /\ Cardinality({x \in SetIds : Exists(x)}) < MaxSets

Written(c, r) == [cases |-> c, rubric |-> r, quality |-> "none", frozen |-> FALSE]
Verdict(c) == IF c = "sound" THEN "approved" ELSE "rejected"

\* write_set without an id: a person writes a new set, which has no rubric
CreateSet(s, c) ==
    /\ s \in HandSets /\ Addable(s)
    /\ sets' = [sets EXCEPT ![s] = Written(c, NoTask)]
    /\ UNCHANGED <<task, spec, stage, runs, jobs, boot, session>>

\* write_set with an id: the rubric stays, the quality report goes
EditSet(s, c) ==
    /\ Editable(s)
    /\ sets' = [sets EXCEPT ![s] = Written(c, sets[s].rubric)]
    /\ UNCHANGED <<task, spec, stage, runs, jobs, boot, session>>

Judged(s) == IF sets[s].frozen THEN sets
             ELSE [sets EXCEPT ![s].quality = Verdict(sets[s].cases)]

JudgeSet(s) ==
    /\ Exists(s)
    /\ sets' = Judged(s)
    /\ UNCHANGED <<task, spec, stage, runs, jobs, boot, session>>

RemoveSet(s) ==
    /\ Editable(s)
    /\ \A k \in RunKeys : runs[k] # NoRow => runs[k].set # s
    /\ sets' = [sets EXCEPT ![s] = NoRow]
    /\ UNCHANGED <<task, spec, stage, runs, jobs, boot, session>>

----------------------------------------------------------------------------
(* Runs *)

Unfinished(r) == r.status \in {"pending", "running"}

\* expire_runs: whatever is unfinished and was created 45 minutes ago is failed
Reconciled(old) == [k \in RunKeys |->
    IF k \in old THEN [runs[k] EXCEPT !.status = "expired"] ELSE runs[k]]

\* mutant: expire_runs looks at the age only
UnfinishedRuns_Old == {k \in RunKeys : runs[k] # NoRow}

UnfinishedRuns == {k \in RunKeys : runs[k] # NoRow /\ Unfinished(runs[k])}

\* mutant: the rubric is not compared with the requirements
Accepts_AnyRubric(s, read) == Exists(s) /\ sets[s].quality = "approved"

\* create_run after the search for a prior run: may set s be run by a handler
\* that loaded these requirements?  (It may also be refused for its decisions,
\* roles or credentials: Drop and BootFail.)
Accepts(s, read) ==
    /\ Exists(s)
    /\ sets[s].quality = "approved"
    /\ LET rubric == IF sets[s].rubric # NoTask THEN sets[s].rubric ELSE read.spec
       IN  rubric \in {NoTask, read.task}

\* insert_frozen_run: freezes the set and copies its cases in one commit
Insert(k, s, read, old) ==
    /\ sets' = [sets EXCEPT ![s].frozen = TRUE]
    /\ runs' = [Reconciled(old) EXCEPT ![k] =
                  [set |-> s, cases |-> sets[s].cases, task |-> read.task,
                   status |-> "pending"]]

\* mutant: a run that is being executed can be claimed again
Claim_Running(k) ==
    /\ runs[k].status \in {"pending", "running"}
    /\ runs' = [runs EXCEPT ![k].status = "running"]

\* the claim of execute_run: one conditional UPDATE
Claim(k) ==
    /\ runs[k].status = "pending"
    /\ runs' = [runs EXCEPT ![k].status = "running"]

WorkerStart(k) ==
    /\ waiting[k] > 0
    /\ waiting' = [waiting EXCEPT ![k] = @ - 1]
    /\ \/ Claim(k) /\ live' = [live EXCEPT ![k] = @ + 1]
       \/ runs[k].status # "pending" /\ UNCHANGED <<runs, live>>
    /\ UNCHANGED <<task, spec, stage, sets, boot, session>>

\* the last write of execute_run, whose row was loaded after the claim: it
\* does not look at the status, which expire_runs may have changed since
WorkerEnd(k) ==
    /\ live[k] > 0
    /\ live' = [live EXCEPT ![k] = @ - 1]
    /\ \E outcome \in Outcomes :
          runs' = [runs EXCEPT ![k].status = outcome]
    /\ UNCHANGED <<task, spec, stage, sets, waiting, boot, session>>

----------------------------------------------------------------------------
(* Handlers that use what they loaded before the lock *)

Open(u, op) ==
    /\ session[u].op = "idle"
    /\ op = "cases" => spec # NoTask
    /\ session' = [session EXCEPT ![u] =
          [op |-> op,
           task |-> IF op \in {"run", "plan"} THEN task ELSE NoTask,
           spec |-> CASE op \in {"run", "cases"} -> spec
                      [] op = "edit" -> IF spec = NoTask THEN NoTask ELSE 1  \* whether there is one
                      [] op = "plan" -> NoTask]]
    /\ UNCHANGED <<task, spec, stage, rows, jobs, boot>>

\* the handler fails before its commit: a refusal, a provider error, a lost client
Drop(u) ==
    /\ session[u].op # "idle"
    /\ session' = [session EXCEPT ![u] = NoSession]
    /\ UNCHANGED <<task, spec, stage, rows, jobs, boot>>

\* create_run and its route, which adds a background job while the run is pending
Submit(u, k, s) ==
    /\ session[u].op = "run"
    /\ session' = [session EXCEPT ![u] = NoSession]
    /\ \E old \in SUBSET UnfinishedRuns :
          \/ /\ runs[k] = NoRow
             /\ Accepts(s, session[u])
             /\ Insert(k, s, session[u], old)
          \/ /\ runs[k] # NoRow /\ runs[k].set = s
             /\ runs' = Reconciled(old)
             /\ UNCHANGED sets
    /\ IF runs'[k].status = "pending" /\ waiting[k] < MaxWaiting
       THEN waiting' = [waiting EXCEPT ![k] = @ + 1] ELSE UNCHANGED waiting
    /\ UNCHANGED <<task, spec, stage, live, boot>>

\* write_requirements refreshes the requirements but not the plan: the plan is
\* cleared only when the handler loaded one
SaveRequirements(u, t) ==
    /\ session[u].op = "edit"
    /\ t > task
    /\ session' = [session EXCEPT ![u] = NoSession]
    /\ task' = t
    /\ spec' = IF session[u].spec = NoTask THEN spec ELSE NoTask
    /\ stage' = "underway"
    /\ UNCHANGED <<rows, jobs, boot>>

\* generate, after its model call: the plan carries the requirements it was asked for
SavePlan(u) ==
    /\ session[u].op = "plan"
    /\ session' = [session EXCEPT ![u] = NoSession]
    /\ spec' = session[u].task
    /\ UNCHANGED <<task, stage, rows, jobs, boot>>

\* generate(cases = True): a new set whose rubric is the plan loaded before the call
SaveCases(u, s, c) ==
    /\ session[u].op = "cases"
    /\ s \in HandSets /\ Addable(s)
    /\ session' = [session EXCEPT ![u] = NoSession]
    /\ sets' = [sets EXCEPT ![s] = Written(c, session[u].spec)]
    /\ UNCHANGED <<task, spec, stage, runs, jobs, boot>>

----------------------------------------------------------------------------
(* Bootstrap.  The advisory lock admits one at a time and goes with its    *)
(* connection.  progress() refreshes the requirements, then saves them     *)
(* with the stage in one attribute, without the project lock.  What the    *)
(* rest of the bootstrap does not use is not kept in boot.                 *)

Quiet == <<task, spec, stage, rows, jobs, session>>

BootStart ==
    /\ boot.at = "idle"
    /\ ~(stage = "results" /\ spec # NoTask)
    /\ boot' = [NoBoot EXCEPT !.at = "refresh", !.spec = spec]
    /\ UNCHANGED Quiet

BootRefresh ==
    /\ boot.at = "refresh"
    /\ boot' = [boot EXCEPT !.at = "save", !.task = task]
    /\ UNCHANGED Quiet

BootSave ==
    /\ boot.at = "save"
    /\ task' = boot.task
    /\ stage' = IF boot.stage = "results" THEN "results" ELSE "underway"
    /\ boot' = IF boot.stage \in {"results", "error"} THEN NoBoot
               ELSE [boot EXCEPT !.at = "work",
                                 !.task = IF boot.stage \in {"plan", "evaluation"} THEN @ ELSE NoTask]
    /\ UNCHANGED <<spec, rows, jobs, session>>

Working(st) == boot.at = "work" /\ boot.stage = st
Entering(st) == [boot EXCEPT !.at = "refresh", !.stage = st, !.task = NoTask]

Done(st) == [NoBoot EXCEPT !.at = "refresh", !.stage = st]

\* any exception: roll back and report the stage it was in with the error
BootFail ==
    /\ boot.at \in {"work", "generate"}
    /\ boot' = Done("error")
    /\ UNCHANGED Quiet

\* a plan is generated when none was loaded; then the ids of the benchmark and
\* of the baseline are derived from the requirements known at this point
BootPlan ==
    /\ Working("plan")
    /\ IF boot.spec = NoTask
       THEN /\ spec' = boot.task
            /\ boot' = [Entering("cases") EXCEPT !.spec = boot.task, !.scope = boot.task]
       ELSE /\ boot' = [Entering("cases") EXCEPT !.scope = boot.task]
            /\ UNCHANGED spec
    /\ UNCHANGED <<task, stage, rows, jobs, session>>

Regenerable(s) == Editable(s) /\ sets[s].quality = "rejected"

BootLook ==
    /\ Working("cases")
    /\ boot' = IF ~Exists(boot.scope) \/ Regenerable(boot.scope)
               THEN [boot EXCEPT !.at = "generate", !.replacing = Exists(boot.scope)]
               ELSE Entering("validation")
    /\ UNCHANGED Quiet

\* after the model call: a set seen rejected is replaced; otherwise the set is
\* looked up again, and one that exists by then is returned as it is
BootGenerate(c) ==
    /\ boot.at = "generate"
    /\ IF boot.replacing THEN Editable(boot.scope)
       ELSE Exists(boot.scope) \/ Addable(boot.scope)
    /\ sets' = IF boot.replacing \/ ~Exists(boot.scope) \/ Regenerable(boot.scope)
               THEN [sets EXCEPT ![boot.scope] = Written(c, boot.spec)]
               ELSE sets
    /\ boot' = [Entering("validation") EXCEPT !.replacing = FALSE]
    /\ UNCHANGED <<task, spec, stage, runs, jobs, session>>

BootJudge ==
    /\ Working("validation")
    /\ Exists(boot.scope)
    /\ sets' = Judged(boot.scope)
    /\ boot' = IF sets'[boot.scope].quality = "approved" THEN Entering("evaluation")
               ELSE Done("error")
    /\ UNCHANGED <<task, spec, stage, runs, jobs, session>>

\* create_run with the deterministic request id of this scope
BootCreateRun ==
    /\ Working("evaluation")
    /\ \E old \in SUBSET UnfinishedRuns :
          \/ /\ runs[boot.scope] = NoRow
             /\ Accepts(boot.scope, boot)
             /\ Insert(boot.scope, boot.scope, boot, old)
          \/ /\ runs[boot.scope] # NoRow
             /\ runs' = Reconciled(old)
             /\ UNCHANGED sets
    /\ boot' = [Entering("execution") EXCEPT !.spec = NoTask]
    /\ UNCHANGED <<task, spec, stage, jobs, session>>

\* only a pending run is executed, in place; in any other case, and after the
\* execution however it ends, the bootstrap goes on to report results
BootExecute ==
    /\ Working("execution")
    /\ \/ Claim(boot.scope) /\ boot' = [boot EXCEPT !.at = "executing"]
       \/ /\ runs[boot.scope].status # "pending"
          /\ boot' = Done("results")
          /\ UNCHANGED runs
    /\ UNCHANGED <<task, spec, stage, sets, waiting, live, session>>

BootFinish ==
    /\ boot.at = "executing"
    /\ \E outcome \in Outcomes :
          runs' = [runs EXCEPT ![boot.scope].status = outcome]
    /\ boot' = Done("results")
    /\ UNCHANGED <<task, spec, stage, sets, jobs, session>>

\* The process dies: rows stay, jobs, handlers and the bootstrap are gone
Crash ==
    /\ waiting' = [k \in HandRequests |-> 0]
    /\ live' = [k \in HandRequests |-> 0]
    /\ boot' = NoBoot
    /\ session' = [u \in Users |-> NoSession]
    /\ UNCHANGED <<task, spec, stage, rows>>

----------------------------------------------------------------------------
SetHandler ==
    \/ \E s \in SetIds, c \in Cases : CreateSet(s, c) \/ EditSet(s, c)
    \/ \E s \in SetIds : JudgeSet(s) \/ RemoveSet(s)

UserHandler == \E u \in Users :
    \/ \E op \in {"run", "edit", "plan", "cases"} : Open(u, op)
    \/ Drop(u)
    \/ \E k \in HandRequests, s \in SetIds : Submit(u, k, s)
    \/ \E t \in Tasks : SaveRequirements(u, t)
    \/ SavePlan(u)
    \/ \E s \in HandSets, c \in Cases : SaveCases(u, s, c)

Worker == \E k \in HandRequests : WorkerStart(k) \/ WorkerEnd(k)

Boot ==
    \/ BootStart \/ BootRefresh \/ BootSave \/ BootFail \/ BootPlan \/ BootLook
    \/ \E c \in Cases : BootGenerate(c)
    \/ BootJudge \/ BootCreateRun \/ BootExecute \/ BootFinish

Next ==
    \/ SetHandler \/ UserHandler \/ Worker \/ Boot
    \/ Crash

Spec == Init /\ [][Next]_vars

----------------------------------------------------------------------------
(* Properties *)

Runs == {k \in RunKeys : runs[k] # NoRow}

(* A run stands on cases that were approved and that nobody has changed    *)
(* since: whatever edits, judges, regenerates or deletes the set, the set  *)
(* is still there, frozen, approved, with the cases that the run copied    *)
(* (write_set, judge_set, remove_set, create_run).                         *)
RunsStandOnApprovedCases ==
    \A k \in Runs : LET set == sets[runs[k].set] IN
        /\ set # NoRow
        /\ set.frozen
        /\ set.quality = "approved"
        /\ runs[k].cases = "sound" /\ set.cases = "sound"

(* The requirements a run is said to measure are those its set's rubric    *)
(* was generated for, although plan, requirements and set are read and     *)
(* written at different times by different handlers (create_run).          *)
RunMeasuresItsRubric ==
    \A k \in Runs : sets[runs[k].set].rubric \in {NoTask, runs[k].task}

(* However often a submission is retried, one worker executes the run: it  *)
(* finds the run as it claimed it, or expired meanwhile (execute_run).     *)
OneWorker ==
    \A k \in HandRequests : live[k] > 0 =>
        /\ live[k] = 1
        /\ runs[k].status \in {"running", "expired"}

(* A run only moves forward: a claimed run is never pending again, so it   *)
(* is executed once, and the outcome that a worker wrote is never changed; *)
(* the only end that can still change is the one expire_runs wrote for a   *)
(* worker that is late.                                                    *)
Rank(status) == CASE status = "pending" -> 0 [] status = "running" -> 1
                  [] status = "expired" -> 2 [] OTHER -> 3

RunMovesForward ==
    [][\A k \in RunKeys : runs[k] # NoRow /\ runs'[k] # runs[k] =>
          /\ runs'[k] # NoRow
          /\ runs'[k] = [runs[k] EXCEPT !.status = runs'[k].status]
          /\ Rank(runs'[k].status) > Rank(runs[k].status)]_vars
=============================================================================
