--------------------------- MODULE SkillEvaluation ---------------------------
(***************************************************************************)
(* The worker that executes skill evaluation runs: a queue in the memory   *)
(* of each process, slots reserved in it while a request writes the row,   *)
(* one loop in the process that got the leader lock, its tasks, and the    *)
(* cancellation of a run by its owner through any process.                 *)
(*                                                                         *)
(* Code: backend/app/services/skill_evaluation_worker.py, _worker_state.py,*)
(* _worker_outcomes.py, _worker_leader.py, create_run and cancel_run of    *)
(* skill_evaluation_service.py and the routes that call them.              *)
(*                                                                         *)
(* "running" and "grading" are written in one transaction: "grading" here. *)
(* billed is the usage event of a run; lost is history: some process has   *)
(* lost the connection that held its leader lock, and works on.            *)
(***************************************************************************)
EXTENDS Naturals, Sequences, FiniteSets

CONSTANTS
    Procs, Runs,
    QueueMax,       \* skill_evaluation_queue_max_size
    MaxConcurrent,  \* skill_evaluation_max_concurrent
    NoProc

ASSUME LimitsArePositive == QueueMax \in Nat \ {0} /\ MaxConcurrent \in Nat \ {0}
ASSUME NoProcIsNoProc == NoProc \notin Procs

VARIABLES
    status, requested, billed,       \* the row of a run, and its usage event
    lock, lost,                      \* the advisory lock
    phase, stale,                    \* per process: its life, what its reconciliation selected
    creating, reserved, queue,       \* requests between reservation and enqueue, slots, queue
    loop, wake,                      \* the worker loop and its event
    task                             \* per process and run: where the run's task is

row == <<status, requested, billed>>
leadership == <<lock, lost, phase, stale>>
intake == <<creating, reserved, queue>>
vars == <<row, leadership, intake, loop, wake, task>>

Cancellable == {"queued", "grading"}
Statuses == {"none", "queued", "grading", "completed", "failed", "cancelled"}

TypeOK ==
    /\ status \in [Runs -> Statuses]
    /\ requested \in [Runs -> BOOLEAN]
    /\ billed \in [Runs -> BOOLEAN]
    /\ lock \in Procs \cup {NoProc}
    /\ lost \in BOOLEAN
    /\ phase \in [Procs -> {"down", "starting", "up", "stopping"}]
    /\ stale \in [Procs -> SUBSET Runs]
    /\ creating \in [Procs -> SUBSET Runs]
    /\ reserved \in [Procs -> Nat]
    /\ queue \in [Procs -> Seq(Runs)]
    /\ loop \in [Procs -> {"off", "on", "asleep"}]
    /\ wake \in [Procs -> BOOLEAN]
    /\ task \in [Procs -> [Runs -> {"none", "popped", "loaded", "evaluating",
                                    "cancelling", "committed"}]]

Init ==
    /\ status = [r \in Runs |-> "none"]
    /\ requested = [r \in Runs |-> FALSE]
    /\ billed = [r \in Runs |-> FALSE]
    /\ lock = NoProc
    /\ lost = FALSE
    /\ phase = [p \in Procs |-> "down"]
    /\ stale = [p \in Procs |-> {}]
    /\ creating = [p \in Procs |-> {}]
    /\ reserved = [p \in Procs |-> 0]
    /\ queue = [p \in Procs |-> <<>>]
    /\ loop = [p \in Procs |-> "off"]
    /\ wake = [p \in Procs |-> FALSE]
    /\ task = [p \in Procs |-> [r \in Runs |-> "none"]]

----------------------------------------------------------------------------
(* Start, end and leadership of a process *)

Active(p) == {r \in Runs : task[p][r] # "none"}

\* start: the leader selects what a predecessor left; any other process serves
\* requests without a loop, for good
Start(p) ==
    /\ phase[p] = "down"
    /\ \/ /\ lock = NoProc
          /\ lock' = p
          /\ stale' = [stale EXCEPT ![p] = {r \in Runs : status[r] = "grading"}]
          /\ phase' = [phase EXCEPT ![p] = "starting"]
       \/ /\ lock # NoProc
          /\ phase' = [phase EXCEPT ![p] = "up"]
          /\ UNCHANGED <<lock, stale>>
    /\ UNCHANGED <<row, lost, intake, loop, wake, task>>

\* mark_interrupted_runs fails the selected rows, whatever they are by now,
\* then the loop begins
Reconcile(p) ==
    /\ phase[p] = "starting"
    /\ status' = [r \in Runs |-> IF r \in stale[p] THEN "failed" ELSE status[r]]
    /\ stale' = [stale EXCEPT ![p] = {}]
    /\ phase' = [phase EXCEPT ![p] = "up"]
    /\ loop' = [loop EXCEPT ![p] = "on"]
    /\ UNCHANGED <<requested, billed, lock, lost, intake, wake, task>>

\* what lives in the memory of a process, and the lock with its connection
Gone(p) ==
    /\ phase' = [phase EXCEPT ![p] = "down"]
    /\ lock' = IF lock = p THEN NoProc ELSE lock
    /\ stale' = [stale EXCEPT ![p] = {}]
    /\ creating' = [creating EXCEPT ![p] = {}]
    /\ reserved' = [reserved EXCEPT ![p] = 0]
    /\ queue' = [queue EXCEPT ![p] = <<>>]
    /\ loop' = [loop EXCEPT ![p] = "off"]
    /\ wake' = [wake EXCEPT ![p] = FALSE]
    /\ task' = [task EXCEPT ![p] = [r \in Runs |-> "none"]]
    /\ UNCHANGED <<row, lost>>

Crash(p) == phase[p] # "down" /\ Gone(p)

\* mutant: the lock is released before the tasks have ended
Stop_Unlocks(p) ==
    /\ phase[p] = "up" /\ creating[p] = {}
    /\ phase' = [phase EXCEPT ![p] = "stopping"]
    /\ lock' = IF lock = p THEN NoProc ELSE lock
    /\ UNCHANGED <<row, lost, stale, intake, loop, wake, task>>

\* stop: no request is served any more and nothing is popped
Stop(p) ==
    /\ phase[p] = "up" /\ creating[p] = {}
    /\ phase' = [phase EXCEPT ![p] = "stopping"]
    /\ UNCHANGED <<row, lock, lost, stale, intake, loop, wake, task>>

\* the tasks have ended, or are cancelled after ten seconds; then the lock goes
Stopped(p) == phase[p] = "stopping" /\ Gone(p)

\* the connection that holds the lock breaks, and no one is told
LoseLock(p) ==
    /\ lock = p
    /\ lock' = NoProc
    /\ lost' = TRUE
    /\ UNCHANGED <<row, phase, stale, intake, loop, wake, task>>

----------------------------------------------------------------------------
(* Requests *)

Reservable(p) == Len(queue[p]) + reserved[p] < QueueMax
Released(p) == IF reserved[p] > 0 THEN reserved[p] - 1 ELSE 0

Unborn(r) == status[r] = "none" /\ \A p \in Procs : r \notin creating[p]

\* the route reserves a slot before it writes the row
Reserve(p, r) ==
    /\ phase[p] = "up" /\ Unborn(r) /\ Reservable(p)
    /\ creating' = [creating EXCEPT ![p] = @ \cup {r}]
    /\ reserved' = [reserved EXCEPT ![p] = @ + 1]
    /\ UNCHANGED <<row, leadership, queue, loop, wake, task>>

CommitRow(p, r) ==
    /\ r \in creating[p] /\ status[r] = "none"
    /\ status' = [status EXCEPT ![r] = "queued"]
    /\ UNCHANGED <<requested, billed, leadership, intake, loop, wake, task>>

\* mutant: only a request that got as far as its row gives its slot back
GiveUp_Leaks(p, r) ==
    /\ r \in creating[p]
    /\ creating' = [creating EXCEPT ![p] = @ \ {r}]
    /\ reserved' = [reserved EXCEPT ![p] = IF status[r] # "none" THEN Released(p) ELSE @]
    /\ UNCHANGED <<row, leadership, queue, loop, wake, task>>

\* the request fails, before its row is committed or after
GiveUp(p, r) ==
    /\ r \in creating[p]
    /\ creating' = [creating EXCEPT ![p] = @ \ {r}]
    /\ reserved' = [reserved EXCEPT ![p] = Released(p)]
    /\ UNCHANGED <<row, leadership, queue, loop, wake, task>>

Placed(p, r) ==
    /\ r \in creating[p] /\ status[r] # "none"
    /\ creating' = [creating EXCEPT ![p] = @ \ {r}]
    /\ queue' = [queue EXCEPT ![p] = Append(@, r)]
    /\ UNCHANGED <<row, leadership, loop, task>>

\* mutant: a place that was reserved is taken without the event
Enqueue_Silent(p, r) ==
    /\ Placed(p, r)
    /\ reserved' = [reserved EXCEPT ![p] = Released(p)]
    /\ UNCHANGED wake

Enqueue(p, r) ==
    /\ Placed(p, r)
    /\ reserved' = [reserved EXCEPT ![p] = Released(p)]
    /\ wake' = [wake EXCEPT ![p] = loop[p] # "off"]

\* cancel_run: one conditional UPDATE
Cancel(r) ==
    /\ status[r] \in Cancellable
    /\ \E p \in Procs : phase[p] = "up"
    /\ status' = [status EXCEPT ![r] = "cancelled"]
    /\ requested' = [requested EXCEPT ![r] = TRUE]
    /\ UNCHANGED <<billed, leadership, intake, loop, wake, task>>

----------------------------------------------------------------------------
(* The loop *)

Pops(p) == phase[p] = "up" /\ loop[p] = "on" /\ Cardinality(Active(p)) < MaxConcurrent

Pop(p) ==
    /\ Pops(p) /\ queue[p] # <<>>
    /\ queue' = [queue EXCEPT ![p] = Tail(@)]
    /\ task' = [task EXCEPT ![p][Head(queue[p])] = "popped"]
    /\ UNCHANGED <<row, leadership, creating, reserved, loop, wake>>

Sleep(p) ==
    /\ Pops(p) /\ queue[p] = <<>>
    /\ loop' = [loop EXCEPT ![p] = "asleep"]
    /\ UNCHANGED <<row, leadership, intake, wake, task>>

Wake(p) ==
    /\ phase[p] = "up" /\ loop[p] = "asleep" /\ wake[p]
    /\ loop' = [loop EXCEPT ![p] = "on"]
    /\ wake' = [wake EXCEPT ![p] = FALSE]
    /\ UNCHANGED <<row, leadership, intake, task>>

----------------------------------------------------------------------------
(* The task of a run *)

Goes(p, r, at) == task' = [task EXCEPT ![p][r] = at]
Ends(p, r) == Goes(p, r, "none")

\* run_once reads the row and goes on when it is queued
Load(p, r) ==
    /\ task[p][r] = "popped"
    /\ IF status[r] = "queued" THEN Goes(p, r, "loaded") ELSE Ends(p, r)
    /\ UNCHANGED <<row, leadership, intake, loop, wake>>

\* mark_running, mark_grading and the commit: an UPDATE by id of what was loaded
Grade(p, r) ==
    /\ task[p][r] = "loaded"
    /\ status' = [status EXCEPT ![r] = "grading"]
    /\ Goes(p, r, "evaluating")
    /\ UNCHANGED <<requested, billed, leadership, intake, loop, wake>>

\* an error that run_once does not turn into an outcome: the row stays as it is
Abandon(p, r) ==
    /\ task[p][r] = "evaluating"
    /\ Ends(p, r)
    /\ UNCHANGED <<row, leadership, intake, loop, wake>>

\* timeout or execution error: an UPDATE by id
Fail(p, r) ==
    /\ task[p][r] = "evaluating"
    /\ status' = [status EXCEPT ![r] = "failed"]
    /\ Ends(p, r)
    /\ UNCHANGED <<requested, billed, leadership, intake, loop, wake>>

\* mutant: only the status tells a cancellation
Wanted_Status(r) == status[r] # "cancelled"

Wanted(r) == status[r] # "cancelled" /\ ~requested[r]

\* a probe, or cancel_if_requested: a row that already is cancelled is not
\* written, any other is written next
NoticeCancel(p, r) ==
    /\ task[p][r] = "evaluating" /\ ~Wanted(r)
    /\ IF status[r] = "cancelled" THEN Ends(p, r) ELSE Goes(p, r, "cancelling")
    /\ UNCHANGED <<row, leadership, intake, loop, wake>>

MarkCancelled(p, r) ==
    /\ task[p][r] = "cancelling"
    /\ status' = [status EXCEPT ![r] = "cancelled"]
    /\ Ends(p, r)
    /\ UNCHANGED <<requested, billed, leadership, intake, loop, wake>>

\* mark_completed: one conditional UPDATE
Complete(p, r) ==
    /\ task[p][r] = "evaluating" /\ Wanted(r)
    /\ status' = [status EXCEPT ![r] = "completed"]
    /\ Goes(p, r, "committed")
    /\ UNCHANGED <<requested, billed, leadership, intake, loop, wake>>

\* the usage event is written, or its failure is logged
Bill(p, r) ==
    /\ task[p][r] = "committed"
    /\ \E written \in BOOLEAN : billed' = [billed EXCEPT ![r] = written]
    /\ Ends(p, r)
    /\ UNCHANGED <<status, requested, leadership, intake, loop, wake>>

Task(p, r) ==
    \/ Load(p, r) \/ Grade(p, r) \/ Abandon(p, r) \/ Fail(p, r)
    \/ NoticeCancel(p, r) \/ MarkCancelled(p, r) \/ Complete(p, r) \/ Bill(p, r)

Loop(p) == Pop(p) \/ Sleep(p) \/ Wake(p)

Process(p) == Start(p) \/ Reconcile(p) \/ Crash(p) \/ Stop(p) \/ Stopped(p) \/ LoseLock(p)

Request(p, r) == Reserve(p, r) \/ CommitRow(p, r) \/ GiveUp(p, r) \/ Enqueue(p, r)

Next ==
    \/ \E p \in Procs : Process(p) \/ Loop(p)
    \/ \E p \in Procs, r \in Runs : Request(p, r) \/ Task(p, r)
    \/ \E r \in Runs : Cancel(r)

(* The event loop of a live process runs its tasks; an evaluation ends, at *)
(* the latest by the timeout of the run; a stop ends by its own timeout.   *)
Fairness ==
    /\ \A p \in Procs : WF_vars(Loop(p)) /\ WF_vars(Reconcile(p)) /\ WF_vars(Stopped(p))
    /\ \A p \in Procs, r \in Runs : WF_vars(Task(p, r))

Spec == Init /\ [][Next]_vars /\ Fairness

----------------------------------------------------------------------------
(* Properties *)

(* A run that its owner cancelled is never completed and never billed,     *)
(* wherever its worker was when the cancellation came, and even when the   *)
(* worker's first write puts the cancelled row back to grading (cancel_run,*)
(* mark_running, mark_completed, _record_usage_ledger_after_commit).       *)
CancelledIsNeverCompleted ==
    \A r \in Runs : requested[r] =>
        /\ status[r] # "completed"
        /\ ~billed[r]

(* A slot is held for exactly the requests between their reservation and   *)
(* their place in the queue, however they end, so capacity is neither lost *)
(* nor exceeded (reserve_slot, release_slot, enqueue and the finally of    *)
(* the route).                                                             *)
SlotsAreAccounted ==
    \A p \in Procs :
        /\ reserved[p] = Cardinality(creating[p])
        /\ Len(queue[p]) + reserved[p] <= QueueMax

(* As long as no leader has lost its lock unnoticed, nobody takes a run    *)
(* away from the worker that evaluates it: no reconciliation has it among  *)
(* its rows, it is graded or cancelled, and one process has tasks (start,  *)
(* stop, mark_interrupted_runs).                                           *)
WorkerOwnsItsRun ==
    lost \/ \A p \in Procs, r \in Runs : task[p][r] # "none" =>
        /\ \A other \in Procs \ {p} : loop[other] = "off" /\ r \notin stale[other]
        /\ task[p][r] \in {"evaluating", "cancelling"} => status[r] \in {"grading", "cancelled"}

(* A run in the queue of a process with a loop leaves the queue: the wake  *)
(* event of an enqueue is not lost between the loop's look at the queue    *)
(* and its sleep, and a slot of the worker gets free (_loop, enqueue).     *)
QueueMoves ==
    \A p \in Procs, r \in Runs :
        (loop[p] # "off" /\ r \in {queue[p][i] : i \in DOMAIN queue[p]})
            ~> r \notin {queue[p][i] : i \in DOMAIN queue[p]}
=============================================================================
