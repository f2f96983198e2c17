---------------------------- MODULE RunLifecycle ----------------------------
(***************************************************************************)
(* The durable runs of one conversation: the rows of conversation_runs and *)
(* conversation_run_inputs, the conversation's queue_paused flag, and the  *)
(* server processes that create, execute, cancel, recover and sweep them.  *)
(*                                                                         *)
(* A step is one database transaction, or one stretch of a coroutine       *)
(* between two awaits.  The conversation row lock (FOR UPDATE) serialises  *)
(* the transactions that take it; a transaction that reads a run and       *)
(* writes it later without refreshing the loaded object is two steps.      *)
(***************************************************************************)
EXTENDS RunTransitions, FiniteSets

CONSTANTS
    MaxRuns,    \* bound: ids of runs, in order of creation
    MaxInputs,  \* bound: ids of queued inputs, in order of position
    MaxRequests,\* bound: request handlers suspended at a time
    Offered     \* bound: the optional events of an instance, see Events

(* Events an instance may leave out to stay small: client requests         *)
(* (direct, fork, resume, enqueue, steer, promote, stop, delete, attach)   *)
(* and faults of the server (crash, shutdown, deaf heartbeat, database     *)
(* error in a task's first transaction, startfail, or on its write of an   *)
(* outcome, dberror, unlaunchable input); and the ends of an executor      *)
(* other than an answer (approval, failure).                               *)
Events == {"direct", "fork", "resume", "enqueue", "steer", "promote", "stop", "delete", "attach",
           "crash", "shutdown", "deaf", "startfail", "dberror", "unlaunchable", "approval", "failure"}

ASSUME BoundsAssumption == MaxRuns \in Nat /\ MaxInputs \in Nat
                            /\ MaxRequests \in Nat /\ Offered \subseteq Events

Runs    == 1..MaxRuns
Inputs  == 1..MaxInputs
NoInput == 0

VARIABLES
    run,        \* conversation_runs: [Runs -> row]
    input,      \* conversation_run_inputs: [Inputs -> row]
    paused,     \* conversations.queue_paused
    proc,       \* phase of each server process
    task,       \* RunTaskRegistry of each process and the coroutine it holds
    launch,     \* runs a process has committed or read and is about to start
    due,        \* a call of dispatch_next_for_conversation is outstanding
    req         \* the request handler of each process, between two awaits

db    == <<run, input, paused>>
local == <<task, launch, due, req>>
vars  == <<run, input, paused, proc, task, launch, due, req>>

-----------------------------------------------------------------------------
(* Types.                                                                  *)

InputStatuses == {"absent", "pending", "claimed", "canceled", "failed"}
SteerPriority == 100    \* _INTERRUPT_PRIORITY

InputRow ==
    [status : InputStatuses, run : Runs \cup {NoRun}, prio : {0, SteerPriority}]

AbsentInput == [status |-> "absent", run |-> NoRun, prio |-> 0]

(* A task of the registry.  pc: "created" before the row says running,     *)
(* "exec" while the executor streams, "deaf" the same after the heartbeat  *)
(* task died, "final" in the finally block before the outcome is           *)
(* committed, "wrap" after it.  fin is final_status, workerless is         *)
(* workerless_cancel_before_start, cancel an undelivered task.cancel()     *)
(* with the reason the registry holds.                                     *)
TaskState ==
    [pc         : {"none", "created", "exec", "deaf", "final", "wrap"},
     fin        : TerminalStatuses \cup {"none"},
     workerless : BOOLEAN,
     cancel     : CancelReasons \cup {"no"}]

NoTask  == [pc |-> "none", fin |-> "none", workerless |-> FALSE, cancel |-> "no"]
NewTask == [NoTask EXCEPT !.pc = "created"]

(* A suspended request handler.  "steer" holds the conversation lock and   *)
(* has loaded the active run with status seen; "attach" has loaded an      *)
(* active run whose heartbeat is old; "cancel" has committed a request to  *)
(* cancel and is about to cancel the task in its own registry.  Bound: at  *)
(* most one request is suspended in a process, and MaxRequests in all.     *)
NoReq == [kind |-> "none", run |-> NoRun, input |-> NoInput, seen |-> "absent"]

Request ==
    [kind : {"none", "steer", "attach", "cancel"}, run : Runs \cup {NoRun},
     input : Inputs \cup {NoInput}, seen : RunStatuses]

Canceling(r) == [NoReq EXCEPT !.kind = "cancel", !.run = r]

ProcPhases == {"new", "up", "draining", "stopping", "down"}

TypeOK ==
    /\ run    \in [Runs -> RunRow(Runs)]
    /\ input  \in [Inputs -> InputRow]
    /\ paused \in BOOLEAN
    /\ proc   \in [Workers -> ProcPhases]
    /\ task   \in [Workers -> [Runs -> TaskState]]
    /\ launch \in [Workers -> SUBSET Runs]
    /\ due    \in [Workers -> BOOLEAN]
    /\ req    \in [Workers -> Request]

Init ==
    /\ run    = [r \in Runs |-> AbsentRow]
    /\ input  = [i \in Inputs |-> AbsentInput]
    /\ paused = FALSE
    /\ proc   = [w \in Workers |-> "new"]
    /\ task   = [w \in Workers |-> [r \in Runs |-> NoTask]]
    /\ launch = [w \in Workers |-> {}]
    /\ due    = [w \in Workers |-> FALSE]
    /\ req    = [w \in Workers |-> NoReq]

-----------------------------------------------------------------------------
(* Reading the tables.                                                     *)

(* Mutant: only a running run keeps the next one from being created.       *)
NoActiveRun_Running == \A r \in Runs : run[r].status # "running"

NoActiveRun == \A r \in Runs : ~run[r].active

Pending(i) == input[i].status = "pending"

(* Mutant: the resume child of an interrupted run is overlooked.           *)
Unresolved_NoChild(p) == run[p].status = "interrupted"

(* get_latest_interrupted_run: interrupted and without a resume child.  At *)
(* most one run is active at a time, so completion order is id order.      *)
Unresolved(p) ==
    /\ run[p].status = "interrupted"
    /\ \A c \in Runs : run[c].parent # p
LatestInterrupted(p) == Unresolved(p) /\ \A q \in Runs : Unresolved(q) => q <= p
NothingInterrupted   == \A p \in Runs : ~Unresolved(p)

(* Mutant: a predecessor that is over needs no acknowledgment.             *)
Unacknowledged_Active(r) == run[r].cancelReq /\ ~run[r].ack /\ run[r].active

(* A cancel was requested and no one has acknowledged that it took effect. *)
Unacknowledged(r) == run[r].cancelReq /\ ~run[r].ack

(* The next pending input: priority descending, then position.             *)
NextPending(i) ==
    /\ Pending(i)
    /\ \A j \in Inputs : Pending(j) =>
           \/ input[j].prio < input[i].prio
           \/ input[j].prio = input[i].prio /\ i <= j

NextRunId(r) ==
    /\ run[r].status = "absent"
    /\ \A q \in Runs : run[q].status = "absent" => r <= q
NextInputId(i) ==
    /\ input[i].status = "absent"
    /\ \A j \in Inputs : input[j].status = "absent" => i <= j

(* Bound on the requests: every pending input can still get a run id, in an *)
(* instance of more than one run.                                          *)
SpareRunId ==
    MaxRuns > 1 =>
        Cardinality({i \in Inputs : Pending(i)}) < Cardinality({r \in Runs : run[r].status = "absent"})

Serving(w) ==
    /\ proc[w] = "up" /\ req[w] = NoReq
    /\ Cardinality({v \in Workers : req[v] # NoReq}) < MaxRequests
Alive(w)   == proc[w] \in {"up", "draining", "stopping"}

(* No transaction holds the conversation row.                              *)
LockFree == \A w \in Workers : req[w].kind # "steer"

Local(w, r)     == task[w][r].pc # "none"
Executing(w, r) == task[w][r].pc \in {"exec", "deaf"}

-----------------------------------------------------------------------------
(* Processes.                                                              *)

Boot(w) ==
    /\ proc[w] = "new"
    /\ proc' = [proc EXCEPT ![w] = "up"]
    /\ UNCHANGED <<db, local>>

(* The process dies, or exits after its shutdown timeout, with whatever it *)
(* was doing.  Open transactions roll back.  Bound: an instance that has   *)
(* died never returns (its id is fresh per process), so the last one of    *)
(* Workers stays.                                                          *)
Crash(w) ==
    /\ "crash" \in Offered
    /\ Alive(w)
    /\ \E v \in Workers \ {w} : proc[v] \in {"new", "up"}
    /\ proc'   = [proc EXCEPT ![w] = "down"]
    /\ task'   = [task EXCEPT ![w] = [r \in Runs |-> NoTask]]
    /\ launch' = [launch EXCEPT ![w] = {}]
    /\ due'    = [due EXCEPT ![w] = FALSE]
    /\ req'    = [req EXCEPT ![w] = NoReq]
    /\ UNCHANGED db

(* RunTaskRegistry.shutdown, first half: persist the intent to cancel every *)
(* live task's run; a database error is logged and the shutdown goes on.   *)
PersistShutdownIntent(w) ==
    /\ "shutdown" \in Offered
    /\ proc[w] = "up"
    /\ \E v \in Workers \ {w} : proc[v] \in {"new", "up"}
    /\ proc' = [proc EXCEPT ![w] = "draining"]
    /\ \/ run' = [r \in Runs |->
                     IF Local(w, r) THEN CancelRequested(run[r], run[r].status, "shutdown")
                                    ELSE run[r]]
       \/ run' = run
    /\ UNCHANGED <<input, paused, local>>

(* task.cancel(): delivered at the coroutine's next await.  A task that is *)
(* gone is left alone; the registry keeps the last reason.                 *)
Poked(t, why) == IF t.pc = "none" THEN t ELSE [t EXCEPT !.cancel = why]

(* Second half: cancel the tasks with reason shutdown.  They were listed   *)
(* before the intent was persisted, so a task created since is missed.     *)
CancelForShutdown(w) ==
    /\ proc[w] = "draining"
    /\ proc' = [proc EXCEPT ![w] = "stopping"]
    /\ \E missed \in SUBSET {r \in Runs : task[w][r].pc = "created"} :
          task' = [task EXCEPT ![w] =
                      [r \in Runs |-> IF r \in missed THEN task[w][r]
                                                     ELSE Poked(task[w][r], "shutdown")]]
    /\ UNCHANGED <<db, launch, due, req>>

-----------------------------------------------------------------------------
(* Requests.                                                               *)

(* create_run: the conversation is locked and has no active run.           *)
CreateRun(r, via, parent) ==
    /\ LockFree
    /\ NoActiveRun
    /\ NextRunId(r)
    /\ run' = [run EXCEPT ![r] = QueuedRow(via, parent)]

(* run.start with strategy reject: a run and the input it is bound to.     *)
StartDirect(w) ==
    /\ "direct" \in Offered
    /\ Serving(w) /\ SpareRunId
    /\ \E r \in Runs, i \in Inputs :
          /\ CreateRun(r, "direct", NoRun)
          /\ NextInputId(i)
          /\ input'  = [input EXCEPT ![i] = [status |-> "claimed", run |-> r, prio |-> 0]]
          /\ launch' = [launch EXCEPT ![w] = @ \cup {r}]
    /\ UNCHANGED <<paused, proc, task, due, req>>

(* run.start from a checkpoint (edit, regenerate): a run without an input. *)
StartFork(w) ==
    /\ "fork" \in Offered
    /\ Serving(w) /\ SpareRunId
    /\ \E r \in Runs :
          /\ CreateRun(r, "fork", NoRun)
          /\ launch' = [launch EXCEPT ![w] = @ \cup {r}]
    /\ UNCHANGED <<input, paused, proc, task, due, req>>

(* input.respond: the answer to the latest interrupted run starts a new    *)
(* run with that run as its parent.                                        *)
Resume(w) ==
    /\ "resume" \in Offered
    /\ Serving(w) /\ SpareRunId
    /\ \E p, r \in Runs :
          /\ LatestInterrupted(p)
          /\ CreateRun(r, "resume", p)
          /\ launch' = [launch EXCEPT ![w] = @ \cup {r}]
    /\ UNCHANGED <<input, paused, proc, task, due, req>>

(* run.start with strategy enqueue, and with strategy interrupt when no    *)
(* run is active: persist the input, commit, dispatch.                     *)
Enqueue(w) ==
    /\ "enqueue" \in Offered
    /\ Serving(w) /\ LockFree /\ SpareRunId
    /\ NothingInterrupted
    /\ \E i \in Inputs, prio \in {0, SteerPriority} :
          /\ NextInputId(i)
          /\ prio = SteerPriority => NoActiveRun /\ "steer" \in Offered
          /\ input' = [input EXCEPT ![i] = [status |-> "pending", run |-> NoRun, prio |-> prio]]
    /\ due' = [due EXCEPT ![w] = TRUE]
    /\ UNCHANGED <<run, paused, proc, task, launch, req>>

(* Promotion of a pending input when no run is active.                     *)
PromoteIdle(w, i) ==
    /\ "promote" \in Offered
    /\ Serving(w) /\ LockFree
    /\ ~paused /\ Pending(i) /\ input[i].prio # SteerPriority
    /\ NothingInterrupted /\ NoActiveRun
    /\ input' = [input EXCEPT ![i].prio = SteerPriority]
    /\ due'   = [due EXCEPT ![w] = TRUE]
    /\ UNCHANGED <<run, paused, proc, task, launch, req>>

(* Steering over an active run: run.start with strategy interrupt (a new   *)
(* input) or the promotion of a pending one.  The handler locks the        *)
(* conversation, loads the active run, then selects it again FOR UPDATE in *)
(* the same session: the second select waits for the row but does not      *)
(* refresh the loaded object, so the write below acts on the status seen   *)
(* here.                                                                   *)
SteerRead(w, i) ==
    /\ Serving(w) /\ LockFree
    /\ NothingInterrupted
    /\ \/ "steer" \in Offered /\ NextInputId(i) /\ SpareRunId
       \/ "promote" \in Offered /\ ~paused /\ Pending(i) /\ input[i].prio # SteerPriority
    /\ \E r \in Runs :
          /\ run[r].active
          /\ req' = [req EXCEPT ![w] =
                        [kind |-> "steer", run |-> r, input |-> i, seen |-> run[r].status]]
    /\ UNCHANGED <<db, proc, task, launch, due>>

(* The rest of that handler: the input gets the steering priority, the     *)
(* cancellation is requested, both are committed; then the process cancels *)
(* its own task for the run, whether or not the request changed the row.   *)
SteerCommit(w) ==
    /\ Alive(w) /\ req[w].kind = "steer"
    /\ input' = [input EXCEPT ![req[w].input] =
                    [status |-> "pending", run |-> NoRun, prio |-> SteerPriority]]
    /\ run'   = [run EXCEPT ![req[w].run] = CancelRequested(@, req[w].seen, "user")]
    /\ req'   = [req EXCEPT ![w] = Canceling(req[w].run)]
    /\ UNCHANGED <<paused, proc, task, launch, due>>

(* cancel_owned_conversation_run.                                          *)
Stop(w, r) ==
    /\ "stop" \in Offered
    /\ Serving(w) /\ LockFree
    /\ run[r].status # "absent"
    /\ LET after == CancelRequested(run[r], run[r].status, "user")
       IN  /\ run'    = [run EXCEPT ![r] = after]
           /\ paused' = (paused \/ after.active)
           /\ req'    = IF after # run[r] THEN [req EXCEPT ![w] = Canceling(r)] ELSE req
    /\ UNCHANGED <<input, proc, task, launch, due>>

(* registry.request_cancel after the commit, in the handler's process.     *)
CancelLocalTask(w, r) ==
    /\ Alive(w) /\ req[w] = Canceling(r)
    /\ req'  = [req EXCEPT ![w] = NoReq]
    /\ task' = [task EXCEPT ![w][r] = Poked(@, "user")]
    /\ UNCHANGED <<db, proc, launch, due>>

(* Mutant: an input may be deleted after it was claimed.                   *)
DeleteInput_Claimed(w, i) ==
    /\ Serving(w) /\ LockFree /\ input[i].status \in {"pending", "claimed"}
    /\ input' = [input EXCEPT ![i].status = "canceled"]
    /\ UNCHANGED <<run, paused, proc, local>>

(* delete_pending_input.                                                   *)
DeleteInput(w, i) ==
    /\ "delete" \in Offered
    /\ Serving(w) /\ LockFree /\ Pending(i)
    /\ input' = [input EXCEPT ![i].status = "canceled"]
    /\ UNCHANGED <<run, paused, proc, local>>

(* The owner resumes the queue; commit, then dispatch.                     *)
ResumeQueue(w) ==
    /\ Serving(w) /\ LockFree
    /\ paused' = FALSE
    /\ due' = [due EXCEPT ![w] = TRUE]
    /\ UNCHANGED <<run, input, proc, task, launch, req>>

(* A client reads the state of, or attaches to, a run whose heartbeat is   *)
(* old.  The run was loaded earlier in the request's session, so the write *)
(* acts on what was seen here.                                             *)
AttachRead(w, r) ==
    /\ "attach" \in Offered
    /\ Serving(w)
    /\ run[r].status \in ActiveStatuses /\ run[r].old
    /\ req' = [req EXCEPT ![w] =
                  [kind |-> "attach", run |-> r, input |-> NoInput, seen |-> run[r].status]]
    /\ UNCHANGED <<db, proc, task, launch, due>>

AttachMarkStale(w) ==
    /\ Alive(w) /\ req[w].kind = "attach"
    /\ run' = [run EXCEPT ![req[w].run] = Terminated(@, "stale", NoWorker, FALSE)]
    /\ req' = [req EXCEPT ![w] = NoReq]
    /\ UNCHANGED <<input, paused, proc, task, launch, due>>

-----------------------------------------------------------------------------
(* Queue dispatch and recovery.                                            *)

(* claim_next_input binds the next input to a new run, which the same call *)
(* then launches.                                                          *)
ClaimNext(w) ==
    /\ ~paused
    /\ \A r \in Runs : ~Unacknowledged(r)
    /\ NothingInterrupted
    /\ \E r \in Runs, i \in Inputs :
          /\ NextPending(i)
          /\ CreateRun(r, "queue", NoRun)
          /\ input'  = [input EXCEPT ![i].status = "claimed", ![i].run = r]
          /\ launch' = [launch EXCEPT ![w] = @ \cup {r}]
    /\ UNCHANGED paused

(* claim_next_input returns no input, and its only caller leaves the        *)
(* session without a commit.  That also rolls back the queue_paused it set *)
(* when a canceled predecessor was never acknowledged: nothing changes.    *)
ClaimNothing ==
    /\ \/ paused
       \/ ~NoActiveRun
       \/ \E r \in Runs : Unacknowledged(r)
       \/ ~NothingInterrupted
       \/ \A i \in Inputs : ~Pending(i)
    /\ UNCHANGED <<run, input, paused, launch>>

(* Mutant: only an event of this process dispatches, not recovery.         *)
Dispatch_EventOnly(w) ==
    /\ Alive(w) /\ LockFree
    /\ due[w]
    /\ due' = [due EXCEPT ![w] = FALSE]
    /\ ClaimNext(w) \/ ClaimNothing
    /\ UNCHANGED <<proc, task, req>>

(* dispatch_next_for_conversation, called for an event of this process or  *)
(* by recover_conversation_queue, for a conversation with pending inputs   *)
(* and a queue that is not paused.                                         *)
Dispatch(w) ==
    /\ Alive(w) /\ LockFree
    /\ due[w] \/ (~paused /\ \E i \in Inputs : Pending(i))
    /\ due' = [due EXCEPT ![w] = FALSE]
    /\ ClaimNext(w) \/ ClaimNothing
    /\ UNCHANGED <<proc, task, req>>

(* recover_conversation_queue, its scan: claimed inputs whose run never    *)
(* left queued.  What it found is launched later, when the run may have    *)
(* moved on.                                                               *)
Recoverable(w) ==
    {r \in Runs : /\ \E i \in Inputs : input[i].status = "claimed" /\ input[i].run = r
                  /\ run[r].status = "queued" /\ run[r].worker = NoWorker
                  /\ ~Local(w, r)}

RecoverScan(w) ==
    /\ Alive(w)
    /\ launch' = [launch EXCEPT ![w] = @ \cup Recoverable(w)]
    /\ launch' # launch
    /\ UNCHANGED <<db, proc, task, due, req>>

(* Mutant: a run with an input is left to the dispatcher.                  *)
WorkerlessCancel_NoInput(r) ==
    /\ run[r].status = "canceling" /\ run[r].active /\ run[r].worker = NoWorker
    /\ \A i \in Inputs : input[i].run # r

(* A run canceled before any worker started it.                            *)
WorkerlessCancel(r) ==
    run[r].status = "canceling" /\ run[r].active /\ run[r].worker = NoWorker

(* finalize_workerless_cancel_before_start, for one candidate: acknowledge *)
(* a cancellation no worker can be executing, and cancel its input.        *)
FinalizeWorkerless(w, r) ==
    /\ Alive(w) /\ LockFree
    /\ ~Local(w, r) /\ WorkerlessCancel(r)
    /\ run' = [run EXCEPT ![r] = Terminated(@, "canceled", NoWorker, TRUE)]
    /\ input' = [i \in Inputs |->
                    IF input[i].run = r THEN [input[i] EXCEPT !.status = "canceled", !.run = NoRun]
                                        ELSE input[i]]
    /\ UNCHANGED <<paused, proc, local>>

(* start_conversation_run, from a request or from launch_claimed_input: a  *)
(* task is created unless the registry holds a live one for the run.  What *)
(* the caller read of the run may be out of date by now.                   *)
LaunchTask(w, r) ==
    /\ Alive(w) /\ r \in launch[w]
    /\ launch' = [launch EXCEPT ![w] = @ \ {r}]
    /\ task' = [task EXCEPT ![w][r] = IF @.pc = "none" THEN NewTask ELSE @]
    /\ UNCHANGED <<db, proc, due, req>>

(* launch_claimed_input cannot rebuild the context of a claimed input:     *)
(* _fail_claimed_input fails the input and a run still queued.             *)
FailClaimedInput(w, r) ==
    /\ "unlaunchable" \in Offered
    /\ Alive(w) /\ r \in launch[w] /\ LockFree
    /\ \E i \in Inputs :
          /\ input[i].status = "claimed" /\ input[i].run = r
          /\ IF run[r].status = "queued"
             THEN /\ input' = [input EXCEPT ![i].status = "failed"]
                  /\ run'   = [run EXCEPT ![r] = Terminated(@, "failed", NoWorker, FALSE)]
             ELSE UNCHANGED <<input, run>>
    /\ launch' = [launch EXCEPT ![w] = @ \ {r}]
    /\ UNCHANGED <<paused, proc, task, due, req>>

(* Mutant: the sweep takes only the runs no worker owns.                   *)
SweepCandidates_Workerless(w) ==
    {r \in Runs : /\ run[r].active /\ run[r].status \in {"queued", "running"}
                  /\ run[r].old /\ ~Local(w, r) /\ run[r].worker = NoWorker}

(* sweep_stale_conversation_runs: pause the queue behind a run some worker *)
(* owns, then mark stale every active run with an old heartbeat, except    *)
(* canceling ones and the ones this process is executing.                  *)
SweepCandidates(w) ==
    {r \in Runs : /\ run[r].active /\ run[r].status \in {"queued", "running"}
                  /\ run[r].old /\ ~Local(w, r)}
Uncertain(w) ==
    /\ \E r \in Runs : run[r].active /\ run[r].worker # NoWorker /\ run[r].old /\ ~Local(w, r)
    /\ \E i \in Inputs : Pending(i)

Sweep(w) ==
    /\ Alive(w)
    /\ Uncertain(w) => LockFree
    /\ run' = [r \in Runs |->
                  IF r \in SweepCandidates(w) THEN Terminated(run[r], "stale", NoWorker, FALSE)
                                              ELSE run[r]]
    /\ paused' = (paused \/ Uncertain(w))
    /\ <<run, paused>>' # <<run, paused>>
    /\ UNCHANGED <<input, proc, local>>

-----------------------------------------------------------------------------
(* The worker task of a run: _run_conversation.                            *)

SetTask(w, r, t) == task' = [task EXCEPT ![w][r] = t]

(* _transition_to_running, and what the coroutine does with its answer: it *)
(* owns the run, or ends a run canceled before any worker started it, or   *)
(* leaves the run to whoever has it.                                       *)
TaskBegin(w, r) ==
    /\ task[w][r].pc = "created" /\ task[w][r].cancel = "no"
    /\ \/ /\ Startable(run[r])
          /\ run' = [run EXCEPT ![r] = Started(@, w)]
          /\ SetTask(w, r, [task[w][r] EXCEPT !.pc = "exec"])
       \/ /\ run[r].status = "canceling" /\ run[r].worker = NoWorker
          /\ SetTask(w, r, [task[w][r] EXCEPT !.pc = "final", !.fin = "canceled",
                                              !.workerless = TRUE])
          /\ UNCHANGED run
       \/ /\ ~Startable(run[r])
          /\ ~(run[r].status = "canceling" /\ run[r].worker = NoWorker)
          /\ SetTask(w, r, NoTask)
          /\ UNCHANGED run
    /\ UNCHANGED <<input, paused, proc, launch, due, req>>

(* What a CancelledError makes of the run: except asyncio.CancelledError.  *)
CanceledOutcome(why) == IF why = "shutdown" THEN "stale" ELSE "canceled"

(* The first transaction raises.  It has rolled back, or its commit was    *)
(* applied and only the answer is lost.                                    *)
BeginRaises(w, r) ==
    \/ UNCHANGED run
    \/ Startable(run[r]) /\ run' = [run EXCEPT ![r] = Started(@, w)]

(* A cancel reaches the task before its first step, and the coroutine never *)
(* runs; or inside that first transaction.                                 *)
TaskBeginCanceled(w, r) ==
    /\ task[w][r].pc = "created" /\ task[w][r].cancel # "no"
    /\ \/ SetTask(w, r, NoTask) /\ UNCHANGED run
       \/ /\ SetTask(w, r, [task[w][r] EXCEPT !.pc = "final", !.cancel = "no",
                                              !.fin = CanceledOutcome(task[w][r].cancel)])
          /\ BeginRaises(w, r)
    /\ UNCHANGED <<input, paused, proc, launch, due, req>>

(* A database error in it: except Exception.  The task goes on to write    *)
(* that the run has failed, without having learned whose run it is.        *)
TaskBeginFails(w, r) ==
    /\ "startfail" \in Offered
    /\ task[w][r].pc = "created" /\ task[w][r].cancel = "no"
    /\ SetTask(w, r, [task[w][r] EXCEPT !.pc = "final", !.fin = "failed"])
    /\ BeginRaises(w, r)
    /\ UNCHANGED <<input, paused, proc, launch, due, req>>

(* Entering the finally block, which stops the heartbeat task first and    *)
(* awaits it.  If that task has died, its exception is raised here and the *)
(* rest of the block does not run.                                         *)
Unwind(t, fin) ==
    IF t.pc = "deaf" THEN NoTask
                     ELSE [t EXCEPT !.pc = "final", !.fin = fin, !.cancel = "no"]

(* The executor is exhausted: answered, stopped for approval, or failed.   *)
TaskExhausted(w, r) ==
    /\ Executing(w, r) /\ task[w][r].cancel = "no"
    /\ \E fin \in {"completed", "interrupted", "failed"} :
          /\ fin = "interrupted" => "approval" \in Offered
          /\ fin = "failed" => "failure" \in Offered
          /\ SetTask(w, r, Unwind(task[w][r], fin))
    /\ UNCHANGED <<db, proc, launch, due, req>>

TaskCanceled(w, r) ==
    /\ Executing(w, r) /\ task[w][r].cancel # "no"
    /\ SetTask(w, r, Unwind(task[w][r], CanceledOutcome(task[w][r].cancel)))
    /\ UNCHANGED <<db, proc, launch, due, req>>

(* _transition: the locked write of the outcome.  An invalid transition, a *)
(* ValueError of transition_run, writes nothing.                           *)
Outcome(w, r) ==
    LET t   == task[w][r]
        eff == EffectiveStatus(run[r], t.fin, w, t.workerless)
    IN  IF CanTerminate(run[r], eff, w, t.workerless)
        THEN Terminated(run[r], eff, w, t.workerless)
        ELSE run[r]

(* _finalize_run_status logs any exception, a failed transaction included, *)
(* and the rest of the finally block goes on.                              *)
TaskFinalize(w, r) ==
    /\ task[w][r].pc = "final" /\ task[w][r].cancel = "no"
    /\ \/ run' = [run EXCEPT ![r] = Outcome(w, r)]
       \/ "dberror" \in Offered /\ UNCHANGED run
    /\ SetTask(w, r, [NoTask EXCEPT !.pc = "wrap"])
    /\ UNCHANGED <<input, paused, proc, launch, due, req>>

(* Audit, branch leaf, attachments; then the broker is closed, the task    *)
(* leaves the registry and the next input is dispatched.                   *)
TaskWrapUp(w, r) ==
    /\ task[w][r].pc = "wrap" /\ task[w][r].cancel = "no"
    /\ SetTask(w, r, NoTask)
    /\ due' = [due EXCEPT ![w] = TRUE]
    /\ UNCHANGED <<db, proc, launch, req>>

(* A cancel delivered before the finally block has got going: while the    *)
(* end of a run that was canceled before its start is published, which     *)
(* then ends as the cancel says; in an except block, which just goes on to *)
(* finally; or on the await of the heartbeat task, which suppresses it.    *)
TaskCancelAbsorbed(w, r) ==
    /\ task[w][r].pc = "final" /\ task[w][r].cancel # "no"
    /\ \E fin \in {task[w][r].fin, CanceledOutcome(task[w][r].cancel)} :
          /\ fin # task[w][r].fin => task[w][r].workerless
          /\ SetTask(w, r, [task[w][r] EXCEPT !.cancel = "no", !.fin = fin])
    /\ UNCHANGED <<db, proc, launch, due, req>>

(* A cancel delivered later in it: no handler catches it, the task ends    *)
(* there and the done callback drops it from the registry.                 *)
TaskAborted(w, r) ==
    /\ task[w][r].pc \in {"final", "wrap"} /\ task[w][r].cancel # "no"
    /\ SetTask(w, r, NoTask)
    /\ UNCHANGED <<db, proc, launch, due, req>>

(* The heartbeat task of an executing run: it refreshes heartbeat_at, even  *)
(* if a cancel was committed since it read the row, or sees that cancel,   *)
(* whichever process committed it, and cancels the run's task, or dies of  *)
(* a database error.                                                       *)
Heartbeat(w, r) ==
    /\ task[w][r].pc = "exec"
    /\ run[r].active /\ run[r].status \in ActiveStatuses /\ run[r].old
    /\ run' = [run EXCEPT ![r].old = FALSE]
    /\ UNCHANGED <<input, paused, proc, local>>

HeartbeatCancel(w, r) ==
    /\ task[w][r].pc = "exec" /\ task[w][r].cancel = "no"
    /\ run[r].active /\ run[r].status = "canceling"
    /\ SetTask(w, r, Poked(task[w][r], run[r].why))
    /\ UNCHANGED <<db, proc, launch, due, req>>

HeartbeatDies(w, r) ==
    /\ "deaf" \in Offered
    /\ task[w][r].pc = "exec"
    /\ SetTask(w, r, [task[w][r] EXCEPT !.pc = "deaf"])
    /\ UNCHANGED <<db, proc, launch, due, req>>

(* The stale threshold passes since the run's last heartbeat: its owner    *)
(* died, stalled, or stopped beating.                                      *)
Age(r) ==
    /\ run[r].status \in ActiveStatuses /\ ~run[r].old
    /\ run' = [run EXCEPT ![r].old = TRUE]
    /\ UNCHANGED <<input, paused, proc, local>>

-----------------------------------------------------------------------------
ProcessStep(w) ==
    \/ Boot(w) \/ Crash(w) \/ PersistShutdownIntent(w) \/ CancelForShutdown(w)

RequestStep(w) ==
    \/ StartDirect(w) \/ StartFork(w) \/ Resume(w) \/ Enqueue(w)
    \/ SteerCommit(w) \/ ResumeQueue(w) \/ AttachMarkStale(w)
    \/ \E i \in Inputs : PromoteIdle(w, i) \/ SteerRead(w, i) \/ DeleteInput(w, i)
    \/ \E r \in Runs : Stop(w, r) \/ CancelLocalTask(w, r) \/ AttachRead(w, r)

QueueStep(w) ==
    \/ Dispatch(w) \/ RecoverScan(w) \/ Sweep(w)
    \/ \E r \in Runs : FinalizeWorkerless(w, r) \/ LaunchTask(w, r) \/ FailClaimedInput(w, r)

TaskStep(w, r) ==
    \/ TaskBegin(w, r) \/ TaskBeginCanceled(w, r) \/ TaskBeginFails(w, r)
    \/ TaskExhausted(w, r) \/ TaskCanceled(w, r)
    \/ TaskFinalize(w, r) \/ TaskWrapUp(w, r) \/ TaskCancelAbsorbed(w, r) \/ TaskAborted(w, r)
    \/ Heartbeat(w, r) \/ HeartbeatCancel(w, r) \/ HeartbeatDies(w, r)

Next ==
    \/ \E w \in Workers : ProcessStep(w) \/ RequestStep(w) \/ QueueStep(w)
    \/ \E w \in Workers, r \in Runs : TaskStep(w, r)
    \/ \E r \in Runs : Age(r)

Spec == Init /\ [][Next]_vars

(* What the scheduling of the code promises: a process boots; a coroutine  *)
(* that can run does; the executor of a run ends; the recovery job and the *)
(* stale sweep, which the scheduler runs on one leading process, keep      *)
(* running somewhere; a run nobody sends heartbeats for gets old.  Nothing *)
(* a client decides is fair.                                               *)
TaskProgress(w, r) ==
    \/ TaskBegin(w, r) \/ TaskBeginCanceled(w, r) \/ TaskBeginFails(w, r)
    \/ TaskExhausted(w, r) \/ TaskCanceled(w, r)
    \/ TaskFinalize(w, r) \/ TaskWrapUp(w, r) \/ TaskCancelAbsorbed(w, r) \/ TaskAborted(w, r)

AgeUnattended(r) == Age(r) /\ \A w \in Workers : task[w][r].pc # "exec"

Fairness ==
    /\ \A w \in Workers :
          /\ WF_vars(Boot(w))
          /\ WF_vars(SteerCommit(w) \/ AttachMarkStale(w) \/ \E r \in Runs : CancelLocalTask(w, r))
          /\ WF_vars(due[w] /\ Dispatch(w))
    /\ \A w \in Workers, r \in Runs :
          /\ WF_vars(LaunchTask(w, r))
          /\ WF_vars(TaskProgress(w, r))
    /\ WF_vars(\E w \in Workers : Dispatch(w))
    /\ WF_vars(\E w \in Workers : RecoverScan(w))
    /\ WF_vars(\E w \in Workers : Sweep(w))
    /\ \A r \in Runs :
          /\ WF_vars(\E w \in Workers : FinalizeWorkerless(w, r))
          /\ WF_vars(AgeUnattended(r))

LiveSpec == Spec /\ Fairness

-----------------------------------------------------------------------------
(* Safety.                                                                 *)

(* A run is executed by its owning worker only: however many processes     *)
(* launch it (the request, the dispatcher, recovery after a crash), the    *)
(* locked queued -> running transition lets exactly one through.           *)
OwnerExecutes ==
    \A w \in Workers, r \in Runs : Executing(w, r) => run[r].worker = w

(* An acknowledged or canceled run has stopped: no process is executing it *)
(* and none will.  This is what cancellation_acknowledged_at is for.       *)
AcknowledgedMeansStopped ==
    \A r \in Runs : run[r].ack \/ run[r].status = "canceled"
        => run[r].ack /\ \A w \in Workers : ~Executing(w, r)

(* A run the queue started never runs beside a predecessor somebody asked  *)
(* to cancel: claim_next_input waits for the owner's acknowledgment.       *)
SuccessorWaitsForAck ==
    \A r, p \in Runs : /\ run[r].active /\ run[r].via = "queue"
                       /\ p # r /\ run[p].cancelReq
        => \A w \in Workers : ~Executing(w, p)

(* The contract of RunContract, with the owner read from the row, execution *)
(* from the task registries and the acknowledgment from the row.           *)
Contract == INSTANCE RunContract WITH
    owner     <- [r \in Runs |-> run[r].worker],
    executing <- {r \in Runs : \E w \in Workers : Executing(w, r)},
    settled   <- {r \in Runs : run[r].ack}

KeepsContract == Contract!Spec

(* The row of a run the server has lost track of: given up as stale;       *)
(* recorded as failed by a second task for the run whose first transaction *)
(* raised, which needs a database error; or one of these with a late       *)
(* cancel written over it, which leaves is_active alone.                   *)
GivenUp(r) ==
    \/ run[r].status = "stale"
    \/ run[r].status = "failed" /\ "startfail" \in Offered
    \/ run[r].status = "canceling" /\ ~run[r].active

(* Two runs of the conversation are executed at the same time only when    *)
(* the server has lost track of one of them while its worker was still at  *)
(* it: its row says stale or, after a database error in a task that was    *)
(* launched for it once more, failed.  An answer, an approval or a         *)
(* cancellation is never recorded over a run that is being executed.       *)
OverlapOnlyBehindLost ==
    \A r, q \in Runs : r # q /\ (\E w \in Workers : Executing(w, r))
                            /\ (\E w \in Workers : Executing(w, q))
        => GivenUp(r) \/ GivenUp(q)

(* A run on its way to an answer keeps the input it was created for: the   *)
(* input is claimed by it, by no other run, until the run is over or is    *)
(* canceled before any worker started it.                                  *)
LiveRunKeepsItsInput ==
    /\ \A r \in Runs : run[r].via \in {"direct", "queue"} /\ run[r].status \in {"queued", "running"}
           => \E i \in Inputs : input[i].status = "claimed" /\ input[i].run = r
    /\ \A i \in Inputs : input[i].run # NoRun <=> input[i].status \in {"claimed", "failed"}
    /\ \A i, j \in Inputs : input[i].run # NoRun /\ input[i].run = input[j].run => i = j

(* An approval is answered at most once: no interrupted run has two resume *)
(* children, even when two clients answer it.                              *)
ResumedOnce ==
    \A r, q \in Runs : run[r].parent # NoRun /\ run[r].parent = run[q].parent => r = q

(* A run that is over is never executed again, and a run never changes     *)
(* hands.                                                                  *)
NeverRestarted ==
    [][\A r \in Runs :
          /\ run[r].status \in TerminalStatuses => run'[r].status \notin {"queued", "running"}
          /\ run[r].worker # NoWorker => run'[r].worker = run[r].worker]_vars

-----------------------------------------------------------------------------
(* Liveness.                                                               *)

(* An active run ends or is asked to cancel: a crash, a lost heartbeat or a *)
(* claim that was never launched cannot leave it queued or running.        *)
UncanceledRunEnds ==
    \A r \in Runs : run[r].active ~> (~run[r].active \/ run[r].cancelReq)

(* A run canceled before any worker started it does not stay canceling     *)
(* while it is active.  One that was swept, or had failed, when a steering *)
(* handler wrote its late cancel over it is not: finalize_workerless_      *)
(* cancel_before_start asks for is_active, and nothing ends it any more.   *)
WorkerlessCancelEnds ==
    \A r \in Runs :
        (run[r].status = "canceling" /\ run[r].active /\ run[r].worker = NoWorker)
            ~> run[r].status # "canceling"

(* The queue does not just stop: a pending input is taken from the queue,  *)
(* or the queue is paused, or an approval is outstanding, or a cancellation *)
(* was requested that no worker has acknowledged.                          *)
PendingInputMoves ==
    \A i \in Inputs : Pending(i) ~>
        \/ ~Pending(i) \/ paused \/ ~NothingInterrupted
        \/ \E r \in Runs : Unacknowledged(r)
=============================================================================
