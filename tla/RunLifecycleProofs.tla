------------------------- MODULE RunLifecycleProofs -------------------------
(***************************************************************************)
(* Proofs about RunLifecycle, for any number of processes, runs and        *)
(* inputs: type correctness, the ownership and acknowledgment invariants,  *)
(* the contract of RunContract, and what the conversation lock protects:   *)
(* the runs beside each other, their inputs and their resume children.     *)
(***************************************************************************)
EXTENDS RunLifecycle, TLAPS

-----------------------------------------------------------------------------
(* The row operators of RunTransitions.                                    *)

(* A row being canceled keeps everything but its status and the request.   *)
LEMMA CancelRequestedRow ==
    ASSUME NEW row \in RunRow(Runs), NEW seen, NEW why \in CancelReasons
    PROVE  LET new == CancelRequested(row, seen, why)
           IN  /\ new \in RunRow(Runs)
               /\ new.worker = row.worker /\ new.ack = row.ack
               /\ \/ new = row
                  \/ new.status = "canceling" /\ new.cancelReq
<1> DEFINE new == [row EXCEPT !.status = "canceling", !.cancelReq = TRUE, !.why = why]
<1>1. /\ new \in RunRow(Runs)
      /\ new.worker = row.worker /\ new.ack = row.ack
      /\ new.status = "canceling" /\ new.cancelReq
  BY DEF RunRow, RunStatuses, ActiveStatuses
<1> HIDE DEF new
<1>2. CASE seen \in {"queued", "running"}
  <2>1. CancelRequested(row, seen, why) = new
    BY <1>2 DEF CancelRequested, new
  <2> QED
    BY <1>1, <2>1
<1>3. CASE seen \notin {"queued", "running"}
  <2>1. CancelRequested(row, seen, why) = row
    BY <1>3 DEF CancelRequested
  <2> QED
    BY <2>1
<1> QED
  BY <1>2, <1>3

(* A row that ends takes the status it is given and keeps its worker; an   *)
(* acknowledgment is never withdrawn.                                      *)
LEMMA TerminatedRow ==
    ASSUME NEW row \in RunRow(Runs), NEW to \in TerminalStatuses,
           NEW ackBy, NEW workerless \in BOOLEAN
    PROVE  LET new == Terminated(row, to, ackBy, workerless)
           IN  /\ new \in RunRow(Runs)
               /\ new.status = to /\ new.worker = row.worker
               /\ new.cancelReq = row.cancelReq
               /\ row.ack => new.ack
               /\ row.cancelReq /\ MayAcknowledge(row, ackBy, workerless) => new.ack
               /\ new.ack => row.ack \/ (row.cancelReq /\ MayAcknowledge(row, ackBy, workerless))
<1> DEFINE may == MayAcknowledge(row, ackBy, workerless)
           ack == row.ack \/ (row.cancelReq /\ may)
           new == Terminated(row, to, ackBy, workerless)
<1>1. may \in BOOLEAN
  BY DEF MayAcknowledge
<1>2. ack \in BOOLEAN
  BY <1>1 DEF RunRow
<1>3. new = [row EXCEPT !.status = to, !.active = FALSE, !.old = FALSE, !.why = "user",
                        !.ack = ack]
  BY DEF Terminated, RunRow
<1> HIDE DEF may, ack, new
<1>4. /\ new \in RunRow(Runs)
      /\ new.status = to /\ new.worker = row.worker
      /\ new.cancelReq = row.cancelReq /\ new.ack = ack
  BY <1>2, <1>3 DEF RunRow, RunStatuses, TerminalStatuses, CancelReasons
<1> QED
  BY <1>4 DEF new, ack, may

(* Acknowledging for a run no worker ever owned leaves a canceled row.     *)
LEMMA WorkerlessRow ==
    ASSUME NEW row \in RunRow(Runs), row.cancelReq, row.worker = NoWorker
    PROVE  LET new == Terminated(row, "canceled", NoWorker, TRUE)
           IN  new \in RunRow(Runs) /\ new.status = "canceled" /\ new.worker = row.worker /\ new.ack
<1> DEFINE new == Terminated(row, "canceled", NoWorker, TRUE)
<1>1. MayAcknowledge(row, NoWorker, TRUE)
  BY DEF MayAcknowledge
<1>2. new = [row EXCEPT !.status = "canceled", !.active = FALSE, !.old = FALSE, !.why = "user",
                        !.ack = TRUE]
  BY <1>1 DEF Terminated, RunRow
<1> HIDE DEF new
<1>3. new \in RunRow(Runs) /\ new.status = "canceled" /\ new.worker = row.worker /\ new.ack
  BY <1>2 DEF RunRow, RunStatuses, TerminalStatuses, CancelReasons
<1> QED
  BY <1>3 DEF new

LEMMA StartedRow ==
    ASSUME NEW row \in RunRow(Runs), NEW w \in Workers
    PROVE  LET new == Started(row, w)
           IN  /\ new \in RunRow(Runs)
               /\ new.status = "running" /\ new.worker = w
               /\ new.cancelReq = row.cancelReq /\ new.ack = row.ack
BY DEF Started, RunRow, RunStatuses, ActiveStatuses

LEMMA QueuedRowType ==
    ASSUME NEW via \in {"direct", "queue", "fork", "resume"}, NEW parent \in Runs \cup {NoRun}
    PROVE  LET new == QueuedRow(via, parent)
           IN  /\ new \in RunRow(Runs)
               /\ new.status = "queued" /\ new.worker = NoWorker
               /\ ~new.cancelReq /\ ~new.ack
BY DEF QueuedRow, AbsentRow, RunRow, RunStatuses, ActiveStatuses, CancelReasons

LEMMA AbsentRowType ==
    /\ AbsentRow \in RunRow(Runs)
    /\ AbsentRow.status = "absent" /\ AbsentRow.worker = NoWorker
    /\ ~AbsentRow.cancelReq /\ ~AbsentRow.ack
BY DEF AbsentRow, RunRow, RunStatuses, ActiveStatuses, CancelReasons, NoRun

-----------------------------------------------------------------------------
(* The task operators.                                                     *)

LEMMA NoTaskType == NoTask \in TaskState /\ NewTask \in TaskState
BY DEF NoTask, NewTask, TaskState, CancelReasons, TerminalStatuses

LEMMA NoReqType == NoReq \in Request
BY DEF NoReq, Request, RunStatuses, ActiveStatuses, NoRun, NoInput

LEMMA CancelingType == ASSUME NEW r \in Runs PROVE Canceling(r) \in Request
BY DEF Canceling, NoReq, Request, RunStatuses, ActiveStatuses, NoRun, NoInput

LEMMA PokedType ==
    ASSUME NEW t \in TaskState, NEW why \in CancelReasons
    PROVE  Poked(t, why) \in TaskState /\ Poked(t, why).pc = t.pc
BY DEF Poked, TaskState

LEMMA UnwindType ==
    ASSUME NEW t \in TaskState, NEW fin \in TerminalStatuses
    PROVE  Unwind(t, fin) \in TaskState /\ Unwind(t, fin).pc \in {"none", "final"}
BY NoTaskType DEF Unwind, TaskState, NoTask

LEMMA CanceledOutcomeType == ASSUME NEW why PROVE CanceledOutcome(why) \in TerminalStatuses
BY DEF CanceledOutcome, TerminalStatuses

(* What a task in its finally block writes: the row as it is, or ended.    *)
LEMMA OutcomeRow ==
    ASSUME TypeOK, NEW w \in Workers, NEW r \in Runs
    PROVE  LET t == task[w][r]
               eff == EffectiveStatus(run[r], t.fin, w, t.workerless)
           IN  /\ \/ Outcome(w, r) = run[r]
                  \/ /\ Outcome(w, r) = Terminated(run[r], eff, w, t.workerless)
                     /\ CanTerminate(run[r], eff, w, t.workerless)
                     /\ eff \in TerminalStatuses
               /\ Outcome(w, r) \in RunRow(Runs)
               /\ Outcome(w, r).worker = run[r].worker
               /\ Outcome(w, r).cancelReq = run[r].cancelReq
<1> DEFINE t == task[w][r]
           eff == EffectiveStatus(run[r], t.fin, w, t.workerless)
           new == Terminated(run[r], eff, w, t.workerless)
<1>1. run[r] \in RunRow(Runs) /\ t.workerless \in BOOLEAN
  BY DEF TypeOK, TaskState
<1>2. CASE ~CanTerminate(run[r], eff, w, t.workerless)
  BY <1>1, <1>2 DEF Outcome
<1>3. CASE CanTerminate(run[r], eff, w, t.workerless)
  <2>1. Allowed(run[r].status, eff)
    BY <1>3 DEF CanTerminate
  <2>2. eff \in TerminalStatuses \cup {"none"}
    BY DEF EffectiveStatus, TerminalStatuses, TypeOK, TaskState
  <2>3. eff \in TerminalStatuses
    BY <2>1, <2>2 DEF Allowed
  <2>4. new \in RunRow(Runs) /\ new.worker = run[r].worker /\ new.cancelReq = run[r].cancelReq
    BY <1>1, <2>3, TerminatedRow
  <2>5. Outcome(w, r) = new
    BY <1>3 DEF Outcome
  <2> QED
    BY <1>3, <2>3, <2>4, <2>5
<1> QED
  BY <1>2, <1>3

-----------------------------------------------------------------------------
(* Type correctness.                                                       *)

(* Writing one row, one input or one task keeps the tables well typed.     *)
LEMMA OneRow ==
    ASSUME TypeOK, NEW r, NEW row \in RunRow(Runs)
    PROVE  [run EXCEPT ![r] = row] \in [Runs -> RunRow(Runs)]
BY DEF TypeOK

LEMMA OneTask ==
    ASSUME TypeOK, NEW w, NEW r, NEW t \in TaskState
    PROVE  [task EXCEPT ![w][r] = t] \in [Workers -> [Runs -> TaskState]]
BY DEF TypeOK

LEMMA RebindType ==
    ASSUME NEW row \in InputRow, NEW status \in InputStatuses, NEW r \in Runs \cup {NoRun}
    PROVE  [row EXCEPT !.status = status, !.run = r] \in InputRow
BY DEF InputRow

LEMMA SetTaskType ==
    ASSUME TypeOK, NEW w, NEW r, NEW t \in TaskState, SetTask(w, r, t)
    PROVE  task' \in [Workers -> [Runs -> TaskState]]
BY OneTask DEF SetTask

LEMMA TypeInit == Init => TypeOK
<1> SUFFICES ASSUME Init PROVE TypeOK
  OBVIOUS
<1> QED
  BY AbsentRowType, NoTaskType, NoReqType
  DEF Init, TypeOK, AbsentInput, InputRow, InputStatuses, ProcPhases, NoRun

LEMMA TypeProcess ==
    ASSUME TypeOK, NEW w \in Workers, ProcessStep(w)
    PROVE  TypeOK'
<1>1. CASE Boot(w)
  BY <1>1 DEF Boot, TypeOK, ProcPhases, db, local
<1>2. CASE Crash(w)
  BY <1>2, NoTaskType, NoReqType DEF Crash, TypeOK, ProcPhases, db
<1>3. CASE PersistShutdownIntent(w)
  <2>1. \A r \in Runs : CancelRequested(run[r], run[r].status, "shutdown") \in RunRow(Runs)
    BY CancelRequestedRow DEF TypeOK, CancelReasons
  <2>2. run' \in [Runs -> RunRow(Runs)]
    BY <1>3, <2>1 DEF PersistShutdownIntent, TypeOK
  <2> QED
    BY <1>3, <2>2 DEF PersistShutdownIntent, TypeOK, ProcPhases, local
<1>4. CASE CancelForShutdown(w)
  <2>1. \A r \in Runs : Poked(task[w][r], "shutdown") \in TaskState
    BY PokedType DEF TypeOK, CancelReasons
  <2>2. task' \in [Workers -> [Runs -> TaskState]]
    BY <1>4, <2>1 DEF CancelForShutdown, TypeOK
  <2> QED
    BY <1>4, <2>2 DEF CancelForShutdown, TypeOK, ProcPhases, db
<1> QED
  BY <1>1, <1>2, <1>3, <1>4 DEF ProcessStep

(* The rows that requests and the dispatcher insert.                       *)
LEMMA CreateRunType ==
    ASSUME TypeOK, NEW r \in Runs, NEW via \in {"direct", "queue", "fork", "resume"},
           NEW parent \in Runs \cup {NoRun}, CreateRun(r, via, parent)
    PROVE  run' \in [Runs -> RunRow(Runs)]
<1>1. QueuedRow(via, parent) \in RunRow(Runs)
  BY QueuedRowType
<1> QED
  BY <1>1, OneRow DEF CreateRun

LEMMA TypeRequest ==
    ASSUME TypeOK, NEW w \in Workers, RequestStep(w)
    PROVE  TypeOK'
<1> USE DEF NoRun, NoInput
<1>1. CASE StartDirect(w)
  <2>1. PICK r \in Runs, i \in Inputs :
           /\ CreateRun(r, "direct", NoRun)
           /\ input' = [input EXCEPT ![i] = [status |-> "claimed", run |-> r, prio |-> 0]]
           /\ launch' = [launch EXCEPT ![w] = @ \cup {r}]
    BY <1>1 DEF StartDirect
  <2>2. run' \in [Runs -> RunRow(Runs)]
    BY <2>1, CreateRunType
  <2> QED
    BY <1>1, <2>1, <2>2 DEF StartDirect, TypeOK, InputRow, InputStatuses
<1>2. CASE StartFork(w)
  <2>1. PICK r \in Runs : /\ CreateRun(r, "fork", NoRun)
                          /\ launch' = [launch EXCEPT ![w] = @ \cup {r}]
    BY <1>2 DEF StartFork
  <2>2. run' \in [Runs -> RunRow(Runs)]
    BY <2>1, CreateRunType
  <2> QED
    BY <1>2, <2>1, <2>2 DEF StartFork, TypeOK
<1>3. CASE Resume(w)
  <2>1. PICK p \in Runs, r \in Runs : /\ CreateRun(r, "resume", p)
                                      /\ launch' = [launch EXCEPT ![w] = @ \cup {r}]
    BY <1>3 DEF Resume
  <2>2. run' \in [Runs -> RunRow(Runs)]
    BY <2>1, CreateRunType
  <2> QED
    BY <1>3, <2>1, <2>2 DEF Resume, TypeOK
<1>4. CASE Enqueue(w)
  BY <1>4 DEF Enqueue, TypeOK, InputRow, InputStatuses, SteerPriority
<1>5. CASE SteerCommit(w)
  <2>1. req[w].run \in Runs \cup {NoRun} /\ req[w].input \in Inputs \cup {NoInput}
    BY DEF TypeOK, Request
  <2>2. \A r \in Runs : CancelRequested(run[r], req[w].seen, "user") \in RunRow(Runs)
    BY CancelRequestedRow DEF TypeOK, CancelReasons
  <2>3. run' \in [Runs -> RunRow(Runs)]
    BY <1>5, <2>2 DEF SteerCommit, TypeOK
  <2>4. CASE req[w].run \in Runs
    <3>1. Canceling(req[w].run) \in Request
      BY <2>4, CancelingType
    <3> QED
      BY <1>5, <2>3, <3>1 DEF SteerCommit, TypeOK, InputRow, InputStatuses, SteerPriority
  <2>5. CASE req[w].run = NoRun
    <3>1. Canceling(NoRun) \in Request
      BY DEF Canceling, NoReq, Request, RunStatuses, ActiveStatuses
    <3> QED
      BY <1>5, <2>3, <2>5, <3>1 DEF SteerCommit, TypeOK, InputRow, InputStatuses, SteerPriority
  <2> QED
    BY <2>1, <2>4, <2>5
<1>6. CASE ResumeQueue(w)
  BY <1>6 DEF ResumeQueue, TypeOK
<1>7. CASE AttachMarkStale(w)
  <2>1. \A r \in Runs : Terminated(run[r], "stale", NoWorker, FALSE) \in RunRow(Runs)
    BY TerminatedRow DEF TypeOK, TerminalStatuses
  <2>2. run' \in [Runs -> RunRow(Runs)]
    BY <1>7, <2>1 DEF AttachMarkStale, TypeOK
  <2> QED
    BY <1>7, <2>2, NoReqType DEF AttachMarkStale, TypeOK
<1>8. ASSUME NEW i \in Inputs, PromoteIdle(w, i) \/ SteerRead(w, i) \/ DeleteInput(w, i)
      PROVE  TypeOK'
  <2>1. CASE PromoteIdle(w, i)
    <3>1. [input[i] EXCEPT !.prio = SteerPriority] \in InputRow
      BY DEF TypeOK, InputRow
    <3>2. input' = [input EXCEPT ![i] = [input[i] EXCEPT !.prio = SteerPriority]]
      BY <2>1 DEF PromoteIdle
    <3> QED
      BY <2>1, <3>1, <3>2 DEF PromoteIdle, TypeOK
  <2>2. CASE SteerRead(w, i)
    <3>1. \A r \in Runs : [kind |-> "steer", run |-> r, input |-> i, seen |-> run[r].status]
                              \in Request
      BY DEF TypeOK, Request, RunRow
    <3> QED
      BY <2>2, <3>1 DEF SteerRead, TypeOK, db
  <2>3. CASE DeleteInput(w, i)
    BY <2>3 DEF DeleteInput, TypeOK, InputRow, InputStatuses, local
  <2> QED
    BY <1>8, <2>1, <2>2, <2>3
<1>9. ASSUME NEW r \in Runs, Stop(w, r) \/ CancelLocalTask(w, r) \/ AttachRead(w, r)
      PROVE  TypeOK'
  <2>1. CASE Stop(w, r)
    <3>1. CancelRequested(run[r], run[r].status, "user") \in RunRow(Runs)
      BY CancelRequestedRow DEF TypeOK, CancelReasons
    <3>2. run' \in [Runs -> RunRow(Runs)]
      BY <2>1, <3>1, OneRow DEF Stop
    <3>3. paused' \in BOOLEAN
      BY <2>1, <3>1 DEF Stop, TypeOK, RunRow
    <3>4. req' \in [Workers -> Request]
      BY <2>1, CancelingType DEF Stop, TypeOK
    <3> QED
      BY <2>1, <3>2, <3>3, <3>4 DEF Stop, TypeOK
  <2>2. CASE CancelLocalTask(w, r)
    <3>1. Poked(task[w][r], "user") \in TaskState
      BY PokedType DEF TypeOK, CancelReasons
    <3>2. task' \in [Workers -> [Runs -> TaskState]]
      BY <2>2, <3>1, OneTask DEF CancelLocalTask
    <3> QED
      BY <2>2, <3>2, NoReqType DEF CancelLocalTask, TypeOK, db
  <2>3. CASE AttachRead(w, r)
    <3>1. [kind |-> "attach", run |-> r, input |-> NoInput, seen |-> run[r].status] \in Request
      BY DEF TypeOK, Request, RunRow
    <3> QED
      BY <2>3, <3>1 DEF AttachRead, TypeOK, db
  <2> QED
    BY <1>9, <2>1, <2>2, <2>3
<1> QED
  BY <1>1, <1>2, <1>3, <1>4, <1>5, <1>6, <1>7, <1>8, <1>9 DEF RequestStep

LEMMA TypeQueue ==
    ASSUME TypeOK, NEW w \in Workers, QueueStep(w)
    PROVE  TypeOK'
<1> USE DEF NoRun
<1>1. CASE Dispatch(w)
  <2>1. CASE ClaimNext(w)
    <3>1. PICK r \in Runs, i \in Inputs :
             /\ CreateRun(r, "queue", NoRun)
             /\ input' = [input EXCEPT ![i].status = "claimed", ![i].run = r]
             /\ launch' = [launch EXCEPT ![w] = @ \cup {r}]
      BY <2>1 DEF ClaimNext
    <3>2. run' \in [Runs -> RunRow(Runs)]
      BY <3>1, CreateRunType
    <3>3. [input[i] EXCEPT !.status = "claimed", !.run = r] \in InputRow
      BY RebindType DEF TypeOK, InputStatuses
    <3>4. input' = [input EXCEPT ![i] = [input[i] EXCEPT !.status = "claimed", !.run = r]]
      BY <3>1 DEF TypeOK
    <3>5. input' \in [Inputs -> InputRow]
      BY <3>3, <3>4 DEF TypeOK
    <3>6. launch' \in [Workers -> SUBSET Runs]
      BY <3>1 DEF TypeOK
    <3>7. /\ paused' = paused /\ proc' = proc /\ task' = task /\ req' = req
          /\ due' = [due EXCEPT ![w] = FALSE]
      BY <1>1, <2>1 DEF Dispatch, ClaimNext
    <3> QED
      BY <3>2, <3>5, <3>6, <3>7 DEF TypeOK
  <2>2. CASE ClaimNothing
    BY <1>1, <2>2 DEF Dispatch, ClaimNothing, TypeOK
  <2> QED
    BY <1>1, <2>1, <2>2 DEF Dispatch
<1>2. CASE RecoverScan(w)
  <2>1. Recoverable(w) \subseteq Runs
    BY DEF Recoverable
  <2> QED
    BY <1>2, <2>1 DEF RecoverScan, TypeOK, db
<1>3. CASE Sweep(w)
  <2>1. \A r \in Runs : Terminated(run[r], "stale", NoWorker, FALSE) \in RunRow(Runs)
    BY TerminatedRow DEF TypeOK, TerminalStatuses
  <2>2. run' \in [Runs -> RunRow(Runs)]
    BY <1>3, <2>1 DEF Sweep, TypeOK
  <2>3. paused' \in BOOLEAN
    BY <1>3 DEF Sweep, Uncertain, TypeOK
  <2> QED
    BY <1>3, <2>2, <2>3 DEF Sweep, TypeOK, local
<1>4. ASSUME NEW r \in Runs, FinalizeWorkerless(w, r)
      PROVE  TypeOK'
  <2>1. Terminated(run[r], "canceled", NoWorker, TRUE) \in RunRow(Runs)
    BY TerminatedRow DEF TypeOK, TerminalStatuses
  <2>2. run' \in [Runs -> RunRow(Runs)]
    BY <1>4, <2>1, OneRow DEF FinalizeWorkerless
  <2>0. \A i \in Inputs : [input[i] EXCEPT !.status = "canceled", !.run = NoRun] \in InputRow
    BY RebindType DEF TypeOK, InputStatuses
  <2>3. input' \in [Inputs -> InputRow]
    BY <1>4, <2>0 DEF FinalizeWorkerless, TypeOK
  <2> QED
    BY <1>4, <2>2, <2>3 DEF FinalizeWorkerless, TypeOK, local
<1>5. ASSUME NEW r \in Runs, LaunchTask(w, r)
      PROVE  TypeOK'
  <2>1. task' \in [Workers -> [Runs -> TaskState]]
    BY <1>5, NoTaskType DEF LaunchTask, TypeOK
  <2> QED
    BY <1>5, <2>1 DEF LaunchTask, TypeOK, db
<1>6. ASSUME NEW r \in Runs, FailClaimedInput(w, r)
      PROVE  TypeOK'
  <2>1. Terminated(run[r], "failed", NoWorker, FALSE) \in RunRow(Runs)
    BY TerminatedRow DEF TypeOK, TerminalStatuses
  <2>2. run' \in [Runs -> RunRow(Runs)]
    BY <1>6, <2>1, OneRow DEF FailClaimedInput, TypeOK
  <2>3. \A i \in Inputs : [input[i] EXCEPT !.status = "failed"] \in InputRow
    <3>1. ASSUME NEW row \in InputRow PROVE [row EXCEPT !.status = "failed"] \in InputRow
      BY DEF InputRow, InputStatuses
    <3> QED
      BY <3>1 DEF TypeOK
  <2>4. input' \in [Inputs -> InputRow]
    BY <1>6, <2>3 DEF FailClaimedInput, TypeOK
  <2> QED
    BY <1>6, <2>2, <2>4 DEF FailClaimedInput, TypeOK
<1> QED
  BY <1>1, <1>2, <1>3, <1>4, <1>5, <1>6 DEF QueueStep

LEMMA BeginRaisesType ==
    ASSUME TypeOK, NEW w \in Workers, NEW r \in Runs, BeginRaises(w, r)
    PROVE  run' \in [Runs -> RunRow(Runs)]
<1>1. Started(run[r], w) \in RunRow(Runs)
  BY StartedRow DEF TypeOK
<1> QED
  BY <1>1, OneRow DEF BeginRaises, TypeOK

LEMMA TypeTask ==
    ASSUME TypeOK, NEW w \in Workers, NEW r \in Runs, TaskStep(w, r)
    PROVE  TypeOK'
<1>1. task[w][r] \in TaskState /\ run[r] \in RunRow(Runs)
  BY DEF TypeOK
<1>2. CASE TaskBegin(w, r)
  <2>1. Started(run[r], w) \in RunRow(Runs)
    BY <1>1, StartedRow
  <2>2. run' \in [Runs -> RunRow(Runs)]
    BY <1>2, <2>1, OneRow DEF TaskBegin, TypeOK
  <2>3. /\ [task[w][r] EXCEPT !.pc = "exec"] \in TaskState
        /\ [task[w][r] EXCEPT !.pc = "final", !.fin = "canceled", !.workerless = TRUE]
               \in TaskState
    BY <1>1 DEF TaskState, TerminalStatuses
  <2>4. task' \in [Workers -> [Runs -> TaskState]]
    BY <1>2, <2>3, SetTaskType, NoTaskType DEF TaskBegin
  <2> QED
    BY <1>2, <2>2, <2>4 DEF TaskBegin, TypeOK
<1>3. CASE TaskBeginCanceled(w, r)
  <2>1. [task[w][r] EXCEPT !.pc = "final", !.cancel = "no",
                           !.fin = CanceledOutcome(task[w][r].cancel)] \in TaskState
    BY <1>1, CanceledOutcomeType DEF TaskState
  <2>2. task' \in [Workers -> [Runs -> TaskState]]
    BY <1>3, <2>1, SetTaskType, NoTaskType DEF TaskBeginCanceled
  <2>3. run' \in [Runs -> RunRow(Runs)]
    BY <1>3, BeginRaisesType DEF TaskBeginCanceled, TypeOK
  <2> QED
    BY <1>3, <2>2, <2>3 DEF TaskBeginCanceled, TypeOK
<1>12. CASE TaskBeginFails(w, r)
  <2>1. [task[w][r] EXCEPT !.pc = "final", !.fin = "failed"] \in TaskState
    BY <1>1 DEF TaskState, TerminalStatuses
  <2>2. task' \in [Workers -> [Runs -> TaskState]]
    BY <1>12, <2>1, SetTaskType DEF TaskBeginFails
  <2>3. run' \in [Runs -> RunRow(Runs)]
    BY <1>12, BeginRaisesType DEF TaskBeginFails
  <2> QED
    BY <1>12, <2>2, <2>3 DEF TaskBeginFails, TypeOK
<1>13. CASE TaskCancelAbsorbed(w, r)
  <2>1. PICK fin \in {task[w][r].fin, CanceledOutcome(task[w][r].cancel)} :
           SetTask(w, r, [task[w][r] EXCEPT !.cancel = "no", !.fin = fin])
    BY <1>13 DEF TaskCancelAbsorbed
  <2>2. [task[w][r] EXCEPT !.cancel = "no", !.fin = fin] \in TaskState
    BY <1>1, CanceledOutcomeType DEF TaskState
  <2>3. task' \in [Workers -> [Runs -> TaskState]]
    BY <2>1, <2>2, SetTaskType
  <2> QED
    BY <1>13, <2>3 DEF TaskCancelAbsorbed, TypeOK, db
<1>4. CASE TaskExhausted(w, r)
  <2>1. \A fin \in {"completed", "interrupted", "failed"} : Unwind(task[w][r], fin) \in TaskState
    BY <1>1, UnwindType DEF TerminalStatuses
  <2>2. task' \in [Workers -> [Runs -> TaskState]]
    BY <1>4, <2>1, SetTaskType DEF TaskExhausted
  <2> QED
    BY <1>4, <2>2 DEF TaskExhausted, TypeOK, db
<1>5. CASE TaskCanceled(w, r)
  <2>1. Unwind(task[w][r], CanceledOutcome(task[w][r].cancel)) \in TaskState
    BY <1>1, UnwindType, CanceledOutcomeType
  <2>2. task' \in [Workers -> [Runs -> TaskState]]
    BY <1>5, <2>1, SetTaskType DEF TaskCanceled
  <2> QED
    BY <1>5, <2>2 DEF TaskCanceled, TypeOK, db
<1>6. CASE TaskFinalize(w, r)
  <2>0. Outcome(w, r) \in RunRow(Runs)
    BY OutcomeRow
  <2>1. run' \in [Runs -> RunRow(Runs)]
    BY <1>6, <2>0, OneRow DEF TaskFinalize, TypeOK
  <2>2. [NoTask EXCEPT !.pc = "wrap"] \in TaskState
    BY DEF NoTask, TaskState, TerminalStatuses, CancelReasons
  <2>3. task' \in [Workers -> [Runs -> TaskState]]
    BY <1>6, <2>2, SetTaskType DEF TaskFinalize
  <2> QED
    BY <1>6, <2>1, <2>3 DEF TaskFinalize, TypeOK
<1>7. CASE TaskWrapUp(w, r)
  <2>1. task' \in [Workers -> [Runs -> TaskState]]
    BY <1>7, SetTaskType, NoTaskType DEF TaskWrapUp
  <2> QED
    BY <1>7, <2>1 DEF TaskWrapUp, TypeOK, db
<1>8. CASE TaskAborted(w, r)
  <2>1. task' \in [Workers -> [Runs -> TaskState]]
    BY <1>8, SetTaskType, NoTaskType DEF TaskAborted
  <2> QED
    BY <1>8, <2>1 DEF TaskAborted, TypeOK, db
<1>9. CASE Heartbeat(w, r)
  <2>1. [run[r] EXCEPT !.old = FALSE] \in RunRow(Runs)
    BY <1>1 DEF RunRow
  <2>2. run' = [run EXCEPT ![r] = [run[r] EXCEPT !.old = FALSE]]
    BY <1>9 DEF Heartbeat
  <2> QED
    BY <1>9, <2>1, <2>2 DEF Heartbeat, TypeOK, local
<1>10. CASE HeartbeatCancel(w, r)
  <2>1. Poked(task[w][r], run[r].why) \in TaskState
    BY <1>1, PokedType DEF RunRow
  <2>2. task' \in [Workers -> [Runs -> TaskState]]
    BY <1>10, <2>1, SetTaskType DEF HeartbeatCancel
  <2> QED
    BY <1>10, <2>2 DEF HeartbeatCancel, TypeOK, db
<1>11. CASE HeartbeatDies(w, r)
  <2>1. [task[w][r] EXCEPT !.pc = "deaf"] \in TaskState
    BY <1>1 DEF TaskState
  <2>2. task' \in [Workers -> [Runs -> TaskState]]
    BY <1>11, <2>1, SetTaskType DEF HeartbeatDies
  <2> QED
    BY <1>11, <2>2 DEF HeartbeatDies, TypeOK, db
<1> QED
  BY <1>2, <1>3, <1>4, <1>5, <1>6, <1>7, <1>8, <1>9, <1>10, <1>11, <1>12, <1>13 DEF TaskStep

LEMMA TypeAge ==
    ASSUME TypeOK, NEW r \in Runs, Age(r)
    PROVE  TypeOK'
<1>0. run[r] \in RunRow(Runs)
  BY DEF TypeOK
<1>1. [run[r] EXCEPT !.old = TRUE] \in RunRow(Runs)
  BY <1>0 DEF RunRow
<1>2. run' = [run EXCEPT ![r] = [run[r] EXCEPT !.old = TRUE]]
  BY DEF Age
<1> QED
  BY <1>1, <1>2 DEF Age, TypeOK, local

LEMMA TypeNext == TypeOK /\ [Next]_vars => TypeOK'
<1> SUFFICES ASSUME TypeOK, [Next]_vars PROVE TypeOK'
  OBVIOUS
<1>1. CASE UNCHANGED vars
  BY <1>1 DEF vars, TypeOK
<1>2. CASE Next
  BY <1>2, TypeProcess, TypeRequest, TypeQueue, TypeTask, TypeAge DEF Next
<1> QED
  BY <1>1, <1>2

(* Every table, registry and request keeps its type: no handler writes a   *)
(* status outside the run's, the input's or the task's.                    *)
THEOREM TypeCorrect == Spec => []TypeOK
<1> QED
  BY TypeInit, TypeNext, PTL DEF Spec

-----------------------------------------------------------------------------
(* The inductive invariant.  OwnerExecutes and AcknowledgedMeansStopped do *)
(* not say why a worker that starts a run displaces no one: a row that may *)
(* still be started has no worker and no cancellation, and a canceled row  *)
(* got there through an acknowledged request.                              *)

RowOK(row) ==
    /\ row.status \in {"absent", "queued"} => row.worker = NoWorker /\ ~row.cancelReq /\ ~row.ack
    /\ row.status = "canceling" => row.cancelReq
    /\ row.status = "canceled" => row.ack

RowsOK == \A r \in Runs : RowOK(run[r])

AcknowledgedIdle == \A r \in Runs : run[r].ack => \A w \in Workers : ~Executing(w, r)

IInv == TypeOK /\ RowsOK /\ OwnerExecutes /\ AcknowledgedIdle

(* A change of a row that moves neither its owner nor its acknowledgment,  *)
(* and does not bring a finished run back.                                 *)
QuietChange(old, new) ==
    /\ RowOK(new)
    /\ new.worker = old.worker /\ new.ack = old.ack
    /\ old.status \in TerminalStatuses => new.status \notin {"queued", "running"}

(* Every step is quiet, starts one run, or settles one.                    *)
NoneStarts == \A w \in Workers, r \in Runs : Executing(w, r)' => Executing(w, r)

(* Execution starts and ends nowhere.                                      *)
NoneMoves == \A w \in Workers, r \in Runs : Executing(w, r)' <=> Executing(w, r)

Quiet == NoneStarts /\ \A r \in Runs : QuietChange(run[r], run'[r])

(* A worker takes a run, and executes it unless its transaction raised.    *)
Starts(w, r) ==
    /\ Startable(run[r])
    /\ run' = [run EXCEPT ![r] = Started(@, w)]
    /\ \E t \in TaskState : task' = [task EXCEPT ![w][r] = t]

Settles(r) ==
    /\ NoneMoves
    /\ \E row \in RunRow(Runs) :
          /\ run' = [run EXCEPT ![r] = row]
          /\ RowOK(row) /\ row.worker = run[r].worker
          /\ run[r].status \in TerminalStatuses => row.status \notin {"queued", "running"}
          /\ run[r].ack => row.ack
          /\ row.ack => run[r].ack \/ \A w \in Workers : ~Executing(w, r)

(* The row operators, quiet or not.                                        *)
LEMMA SameQuiet == ASSUME NEW row, RowOK(row) PROVE QuietChange(row, row)
BY DEF QuietChange, TerminalStatuses

LEMMA CancelRequestedQuiet ==
    ASSUME NEW row \in RunRow(Runs), RowOK(row), NEW seen, NEW why \in CancelReasons
    PROVE  QuietChange(row, CancelRequested(row, seen, why))
<1> DEFINE new == CancelRequested(row, seen, why)
<1>1. new.worker = row.worker /\ new.ack = row.ack
  BY CancelRequestedRow
<1>2. new = row \/ (new.status = "canceling" /\ new.cancelReq)
  BY CancelRequestedRow
<1> HIDE DEF new
<1>3. QuietChange(row, new)
  BY <1>1, <1>2 DEF QuietChange, RowOK, TerminalStatuses
<1> QED
  BY <1>3 DEF new

LEMMA GivenUpQuiet ==
    ASSUME NEW row \in RunRow(Runs), NEW to \in {"stale", "failed"}
    PROVE  QuietChange(row, Terminated(row, to, NoWorker, FALSE))
<1> DEFINE new == Terminated(row, to, NoWorker, FALSE)
<1>1. ~MayAcknowledge(row, NoWorker, FALSE)
  BY DEF MayAcknowledge
<1>2. row.ack \in BOOLEAN
  BY DEF RunRow
<1>3. new = [row EXCEPT !.status = to, !.active = FALSE, !.old = FALSE, !.why = "user",
                        !.ack = row.ack]
  BY <1>1, <1>2 DEF Terminated
<1> HIDE DEF new
<1>4. new \in RunRow(Runs) /\ new.status = to /\ new.worker = row.worker /\ new.ack = row.ack
  BY <1>2, <1>3 DEF RunRow, RunStatuses, TerminalStatuses, CancelReasons
<1>5. QuietChange(row, new)
  BY <1>4 DEF QuietChange, RowOK
<1> QED
  BY <1>5 DEF new

LEMMA QueuedQuiet ==
    ASSUME NEW row \in RunRow(Runs), RowOK(row), row.status = "absent",
           NEW via \in {"direct", "queue", "fork", "resume"}, NEW parent \in Runs \cup {NoRun}
    PROVE  QuietChange(row, QueuedRow(via, parent))
<1> DEFINE new == QueuedRow(via, parent)
<1>1. new \in RunRow(Runs) /\ new.status = "queued" /\ new.worker = NoWorker /\ ~new.cancelReq
      /\ ~new.ack
  BY QueuedRowType
<1> HIDE DEF new
<1>2. new.ack \in BOOLEAN /\ row.ack \in BOOLEAN
  BY <1>1 DEF RunRow
<1>3. QuietChange(row, new)
  BY <1>1, <1>2 DEF QuietChange, RowOK, TerminalStatuses
<1> QED
  BY <1>3 DEF new

LEMMA OneRowQuiet ==
    ASSUME TypeOK, RowsOK, NEW r, NEW row, run' = [run EXCEPT ![r] = row],
           r \in Runs => QuietChange(run[r], row)
    PROVE  \A q \in Runs : QuietChange(run[q], run'[q])
BY SameQuiet DEF RowsOK, TypeOK

LEMMA NoRowQuiet ==
    ASSUME RowsOK, run' = run
    PROVE  \A q \in Runs : QuietChange(run[q], run'[q])
BY SameQuiet DEF RowsOK

LEMMA OneTaskStartsNone ==
    ASSUME TypeOK, NEW w \in Workers, NEW r \in Runs, NEW t, task' = [task EXCEPT ![w][r] = t],
           t.pc \in {"exec", "deaf"} => Executing(w, r)
    PROVE  NoneStarts
BY DEF TypeOK, NoneStarts, Executing

LEMMA NoTaskStartsNone == ASSUME task' = task PROVE NoneStarts
BY DEF NoneStarts, Executing

LEMMA IdleTaskMovesNone ==
    ASSUME TypeOK, NEW w \in Workers, NEW r \in Runs, NEW t, task' = [task EXCEPT ![w][r] = t],
           t.pc \notin {"exec", "deaf"}, ~Executing(w, r)
    PROVE  NoneMoves
BY DEF TypeOK, NoneMoves, Executing

LEMMA NoTaskMovesNone == ASSUME task' = task PROVE NoneMoves
BY DEF NoneMoves, Executing

LEMMA CreateRunQuiet ==
    ASSUME TypeOK, RowsOK, NEW r \in Runs, NEW via \in {"direct", "queue", "fork", "resume"},
           NEW parent \in Runs \cup {NoRun}, CreateRun(r, via, parent)
    PROVE  \A q \in Runs : QuietChange(run[q], run'[q])
<1>1. run[r] \in RunRow(Runs) /\ RowOK(run[r]) /\ run[r].status = "absent"
  BY DEF TypeOK, RowsOK, CreateRun, NextRunId
<1>2. QuietChange(run[r], QueuedRow(via, parent))
  BY <1>1, QueuedQuiet
<1> QED
  BY <1>2, OneRowQuiet DEF CreateRun

(* Which actions are quiet: all but the start of a run, its finalization   *)
(* and the finalization of a run no worker started.                        *)
LEMMA ProcessQuiet ==
    ASSUME IInv, NEW w \in Workers, ProcessStep(w)
    PROVE  Quiet
<1> USE DEF IInv
<1>1. CASE Boot(w)
  BY <1>1, NoRowQuiet, NoTaskStartsNone DEF Boot, Quiet, db, local
<1>2. CASE Crash(w)
  <2>1. NoneStarts
    BY <1>2 DEF Crash, TypeOK, NoneStarts, Executing, NoTask
  <2> QED
    BY <1>2, <2>1, NoRowQuiet DEF Crash, Quiet, db
<1>3. CASE PersistShutdownIntent(w)
  <2>1. \A r \in Runs : QuietChange(run[r], CancelRequested(run[r], run[r].status, "shutdown"))
    BY CancelRequestedQuiet DEF TypeOK, RowsOK, CancelReasons
  <2>2. \A r \in Runs : QuietChange(run[r], run'[r])
    BY <1>3, <2>1, SameQuiet DEF PersistShutdownIntent, RowsOK
  <2> QED
    BY <1>3, <2>2, NoTaskStartsNone DEF PersistShutdownIntent, Quiet, local
<1>4. CASE CancelForShutdown(w)
  <2>1. \A r \in Runs : Poked(task[w][r], "shutdown").pc = task[w][r].pc
    BY PokedType DEF TypeOK, CancelReasons
  <2>2. NoneStarts
    BY <1>4, <2>1 DEF CancelForShutdown, TypeOK, NoneStarts, Executing
  <2> QED
    BY <1>4, <2>2, NoRowQuiet DEF CancelForShutdown, Quiet, db
<1> QED
  BY <1>1, <1>2, <1>3, <1>4 DEF ProcessStep

LEMMA RequestQuiet ==
    ASSUME IInv, NEW w \in Workers, RequestStep(w)
    PROVE  Quiet
<1> USE DEF IInv
<1>1. CASE StartDirect(w)
  <2>1. PICK r \in Runs : CreateRun(r, "direct", NoRun)
    BY <1>1 DEF StartDirect
  <2> QED
    BY <1>1, <2>1, CreateRunQuiet, NoTaskStartsNone DEF StartDirect, Quiet
<1>2. CASE StartFork(w)
  <2>1. PICK r \in Runs : CreateRun(r, "fork", NoRun)
    BY <1>2 DEF StartFork
  <2> QED
    BY <1>2, <2>1, CreateRunQuiet, NoTaskStartsNone DEF StartFork, Quiet
<1>3. CASE Resume(w)
  <2>1. PICK p \in Runs, r \in Runs : CreateRun(r, "resume", p)
    BY <1>3 DEF Resume
  <2> QED
    BY <1>3, <2>1, CreateRunQuiet, NoTaskStartsNone DEF Resume, Quiet
<1>4. CASE Enqueue(w) \/ ResumeQueue(w)
  BY <1>4, NoRowQuiet, NoTaskStartsNone DEF Enqueue, ResumeQueue, Quiet
<1>5. CASE SteerCommit(w)
  <2>1. \A r \in Runs : QuietChange(run[r], CancelRequested(run[r], req[w].seen, "user"))
    BY CancelRequestedQuiet DEF TypeOK, RowsOK, CancelReasons
  <2>2. \A r \in Runs : QuietChange(run[r], run'[r])
    BY <1>5, <2>1, OneRowQuiet DEF SteerCommit
  <2> QED
    BY <1>5, <2>2, NoTaskStartsNone DEF SteerCommit, Quiet
<1>6. CASE AttachMarkStale(w)
  <2>1. \A r \in Runs : QuietChange(run[r], Terminated(run[r], "stale", NoWorker, FALSE))
    BY GivenUpQuiet DEF TypeOK
  <2>2. \A r \in Runs : QuietChange(run[r], run'[r])
    BY <1>6, <2>1, OneRowQuiet DEF AttachMarkStale
  <2> QED
    BY <1>6, <2>2, NoTaskStartsNone DEF AttachMarkStale, Quiet
<1>7. ASSUME NEW i \in Inputs, PromoteIdle(w, i) \/ SteerRead(w, i) \/ DeleteInput(w, i)
      PROVE  Quiet
  <2>1. run' = run /\ task' = task
    BY <1>7 DEF PromoteIdle, SteerRead, DeleteInput, db, local
  <2> QED
    BY <2>1, NoRowQuiet, NoTaskStartsNone DEF Quiet
<1>8. ASSUME NEW r \in Runs, Stop(w, r) \/ CancelLocalTask(w, r) \/ AttachRead(w, r)
      PROVE  Quiet
  <2>1. CASE Stop(w, r)
    <3>1. QuietChange(run[r], CancelRequested(run[r], run[r].status, "user"))
      BY CancelRequestedQuiet DEF TypeOK, RowsOK, CancelReasons
    <3>2. \A q \in Runs : QuietChange(run[q], run'[q])
      BY <2>1, <3>1, OneRowQuiet DEF Stop
    <3> QED
      BY <2>1, <3>2, NoTaskStartsNone DEF Stop, Quiet
  <2>2. CASE CancelLocalTask(w, r)
    <3>1. Poked(task[w][r], "user").pc = task[w][r].pc
      BY PokedType DEF TypeOK, CancelReasons
    <3>2. task' = [task EXCEPT ![w][r] = Poked(task[w][r], "user")]
      BY <2>2 DEF CancelLocalTask, TypeOK
    <3>3. NoneStarts
      BY <3>1, <3>2, OneTaskStartsNone DEF Executing
    <3> QED
      BY <2>2, <3>3, NoRowQuiet DEF CancelLocalTask, Quiet, db
  <2>3. CASE AttachRead(w, r)
    BY <2>3, NoRowQuiet, NoTaskStartsNone DEF AttachRead, Quiet, db
  <2> QED
    BY <1>8, <2>1, <2>2, <2>3
<1> QED
  BY <1>1, <1>2, <1>3, <1>4, <1>5, <1>6, <1>7, <1>8 DEF RequestStep

LEMMA QueueQuiet ==
    ASSUME IInv, NEW w \in Workers, QueueStep(w)
    PROVE  Quiet \/ \E r \in Runs : Settles(r)
<1> USE DEF IInv
<1>1. CASE Dispatch(w)
  <2>1. task' = task
    BY <1>1 DEF Dispatch
  <2>2. \A r \in Runs : QuietChange(run[r], run'[r])
    <3>1. CASE ClaimNothing
      BY <3>1, NoRowQuiet DEF ClaimNothing
    <3>2. CASE ClaimNext(w)
      <4>1. PICK r \in Runs : CreateRun(r, "queue", NoRun)
        BY <3>2 DEF ClaimNext
      <4> QED
        BY <4>1, CreateRunQuiet
    <3> QED
      BY <1>1, <3>1, <3>2 DEF Dispatch
  <2> QED
    BY <2>1, <2>2, NoTaskStartsNone DEF Quiet
<1>2. CASE RecoverScan(w)
  BY <1>2, NoRowQuiet, NoTaskStartsNone DEF RecoverScan, Quiet, db
<1>3. CASE Sweep(w)
  <2>1. \A r \in Runs : QuietChange(run[r], Terminated(run[r], "stale", NoWorker, FALSE))
    BY GivenUpQuiet DEF TypeOK
  <2>2. \A r \in Runs : QuietChange(run[r], run'[r])
    BY <1>3, <2>1, SameQuiet DEF Sweep, RowsOK
  <2> QED
    BY <1>3, <2>2, NoTaskStartsNone DEF Sweep, Quiet, local
<1>4. ASSUME NEW r \in Runs, FinalizeWorkerless(w, r)
      PROVE  Settles(r)
  <2> DEFINE row == Terminated(run[r], "canceled", NoWorker, TRUE)
  <2>1. run[r] \in RunRow(Runs) /\ RowOK(run[r])
    BY DEF TypeOK, RowsOK
  <2>2. run[r].status = "canceling" /\ run[r].worker = NoWorker /\ run[r].cancelReq
    BY <1>4, <2>1 DEF FinalizeWorkerless, WorkerlessCancel, RowOK
  <2>5. row \in RunRow(Runs) /\ row.status = "canceled" /\ row.worker = run[r].worker /\ row.ack
    BY <2>1, <2>2, WorkerlessRow
  <2>7. \A v \in Workers : ~Executing(v, r)
    BY <2>2, NoWorkerAssumption DEF OwnerExecutes
  <2>8. run' = [run EXCEPT ![r] = row] /\ task' = task
    BY <1>4 DEF FinalizeWorkerless, TypeOK, local
  <2> HIDE DEF row
  <2>9. RowOK(row)
    BY <2>5 DEF RowOK
  <2>10. row.status \notin {"queued", "running"}
    BY <2>5
  <2> QED
    BY <2>5, <2>7, <2>8, <2>9, <2>10, NoTaskMovesNone DEF Settles
<1>5. ASSUME NEW r \in Runs, LaunchTask(w, r)
      PROVE  Quiet
  <2>1. NoneStarts
    BY <1>5 DEF LaunchTask, TypeOK, NoneStarts, Executing, NewTask, NoTask
  <2> QED
    BY <1>5, <2>1, NoRowQuiet DEF LaunchTask, Quiet, db
<1>6. ASSUME NEW r \in Runs, FailClaimedInput(w, r)
      PROVE  Quiet
  <2>1. QuietChange(run[r], Terminated(run[r], "failed", NoWorker, FALSE))
    BY GivenUpQuiet DEF TypeOK
  <2>2. \/ run' = run
        \/ run' = [run EXCEPT ![r] = Terminated(run[r], "failed", NoWorker, FALSE)]
    BY <1>6 DEF FailClaimedInput, TypeOK
  <2>3. \A q \in Runs : QuietChange(run[q], run'[q])
    BY <2>1, <2>2, NoRowQuiet, OneRowQuiet
  <2> QED
    BY <1>6, <2>3, NoTaskStartsNone DEF FailClaimedInput, Quiet
<1> QED
  BY <1>1, <1>2, <1>3, <1>4, <1>5, <1>6 DEF QueueStep

(* The write of an outcome acknowledges a cancellation only when the run   *)
(* is not being executed: the worker that writes it is in its finally      *)
(* block, and it is the owner or there is none.                            *)
LEMMA FinalizeSettles ==
    ASSUME IInv, NEW w \in Workers, NEW r \in Runs, TaskFinalize(w, r),
           run' = [run EXCEPT ![r] = Outcome(w, r)]
    PROVE  Settles(r)
<1> USE DEF IInv
<1> DEFINE t == task[w][r]
           eff == EffectiveStatus(run[r], t.fin, w, t.workerless)
           row == Outcome(w, r)
           may == MayAcknowledge(run[r], w, t.workerless)
<1>1. run[r] \in RunRow(Runs) /\ RowOK(run[r]) /\ t.workerless \in BOOLEAN
  BY DEF TypeOK, RowsOK, TaskState
<1>2. row \in RunRow(Runs) /\ row.worker = run[r].worker /\ row.cancelReq = run[r].cancelReq
  BY OutcomeRow
<1>3. NoneMoves
  <2>1. task[w][r].pc = "final" /\ task' = [task EXCEPT ![w][r] = [NoTask EXCEPT !.pc = "wrap"]]
    BY DEF TaskFinalize, SetTask
  <2>2. [NoTask EXCEPT !.pc = "wrap"].pc = "wrap"
    BY DEF NoTask
  <2>3. ~Executing(w, r)
    BY <2>1 DEF Executing
  <2> QED
    BY <2>1, <2>2, <2>3, IdleTaskMovesNone
<1>4. CASE row = run[r]
  BY <1>1, <1>2, <1>3, <1>4 DEF Settles, RowOK, TerminalStatuses
<1>5. CASE row # run[r]
  <2>1. /\ row = Terminated(run[r], eff, w, t.workerless)
        /\ CanTerminate(run[r], eff, w, t.workerless)
        /\ eff \in TerminalStatuses
    BY <1>5, OutcomeRow
  <2>2. w # NoWorker
    BY NoWorkerAssumption
  <2>3. /\ row.status = eff
        /\ run[r].ack => row.ack
        /\ row.ack => run[r].ack \/ (run[r].cancelReq /\ may)
        /\ run[r].cancelReq /\ may => row.ack
    <3>1. row.status = eff
      BY <1>1, <2>1, TerminatedRow
    <3>2. run[r].ack => row.ack
      BY <1>1, <2>1, TerminatedRow
    <3>3. row.ack => run[r].ack \/ (run[r].cancelReq /\ may)
      BY <1>1, <2>1, TerminatedRow
    <3>4. run[r].cancelReq /\ may => row.ack
      BY <1>1, <2>1, TerminatedRow
    <3> QED
      BY <3>1, <3>2, <3>3, <3>4
  <2>4. may => \A v \in Workers : ~Executing(v, r)
    BY NoWorkerAssumption DEF MayAcknowledge, OwnerExecutes, TaskFinalize, Executing
  <2>5. run[r].cancelReq => may
    BY <2>1, <2>2 DEF CanTerminate
  <2>6. row.status = "canceled" => row.ack
    <3>1. Allowed(run[r].status, eff)
      BY <2>1 DEF CanTerminate
    <3>2. eff = "canceled" => run[r].status = "canceling"
      BY <3>1 DEF Allowed
    <3> QED
      BY <1>1, <2>3, <2>5, <3>2 DEF RowOK
  <2>7. row.status \in TerminalStatuses
    BY <2>1, <2>3
  <2> HIDE DEF row, eff, may
  <2>8. RowOK(row)
    BY <2>6, <2>7 DEF RowOK, TerminalStatuses
  <2>9. row.status \notin {"queued", "running"}
    BY <2>7 DEF TerminalStatuses
  <2> QED
    BY <1>2, <1>3, <2>3, <2>4, <2>8, <2>9 DEF Settles, row
<1> QED
  BY <1>4, <1>5

(* A first transaction that raises: quiet, or a start nobody executes.     *)
LEMMA RaisedKinds ==
    ASSUME IInv, NEW w \in Workers, NEW r \in Runs, BeginRaises(w, r),
           NEW t \in TaskState, t.pc = "final", task' = [task EXCEPT ![w][r] = t]
    PROVE  Quiet \/ Starts(w, r)
<1>1. CASE run' = run
  <2>1. NoneStarts
    BY OneTaskStartsNone DEF IInv
  <2> QED
    BY <1>1, <2>1, NoRowQuiet DEF Quiet, IInv
<1>2. CASE Startable(run[r]) /\ run' = [run EXCEPT ![r] = Started(@, w)]
  BY <1>2 DEF Starts
<1> QED
  BY <1>1, <1>2 DEF BeginRaises

LEMMA TaskKinds ==
    ASSUME IInv, NEW w \in Workers, NEW r \in Runs, TaskStep(w, r)
    PROVE  Quiet \/ Starts(w, r) \/ Settles(r)
<1> USE DEF IInv
<1>0. task[w][r] \in TaskState
  BY DEF TypeOK
<1>1. CASE TaskBegin(w, r)
  <2>1. CASE Startable(run[r])
    <3> DEFINE t == [task[w][r] EXCEPT !.pc = "exec"]
    <3>1. t \in TaskState
      BY <1>0 DEF TaskState
    <3>2. run' = [run EXCEPT ![r] = Started(@, w)] /\ SetTask(w, r, t)
      BY <1>1, <2>1 DEF TaskBegin, Startable
    <3> HIDE DEF t
    <3> QED
      BY <2>1, <3>1, <3>2 DEF Starts, SetTask
  <2>2. CASE ~Startable(run[r])
    <3>1. run' = run
      BY <1>1, <2>2 DEF TaskBegin
    <3>2. PICK t \in {NoTask, [task[w][r] EXCEPT !.pc = "final", !.fin = "canceled",
                                                  !.workerless = TRUE]} :
             task' = [task EXCEPT ![w][r] = t]
      BY <1>1, <2>2 DEF TaskBegin, SetTask
    <3>3. t.pc \in {"none", "final"}
      <4>1. task[w][r] \in TaskState /\ NoTask \in TaskState /\ NoTask.pc = "none"
        BY NoTaskType DEF TypeOK, NoTask
      <4>2. \A x \in TaskState : [x EXCEPT !.pc = "final", !.fin = "canceled",
                                         !.workerless = TRUE].pc = "final"
        BY DEF TaskState
      <4> QED
        BY <4>1, <4>2
    <3>4. NoneStarts
      BY <3>2, <3>3, OneTaskStartsNone
    <3> QED
      BY <3>1, <3>4, NoRowQuiet DEF Quiet
  <2> QED
    BY <2>1, <2>2
<1>2. CASE TaskBeginCanceled(w, r)
  <2>1. CASE SetTask(w, r, NoTask) /\ UNCHANGED run
    <3>1. NoneStarts
      BY <2>1, OneTaskStartsNone DEF SetTask, NoTask
    <3> QED
      BY <2>1, <3>1, NoRowQuiet DEF Quiet
  <2>2. CASE /\ SetTask(w, r, [task[w][r] EXCEPT !.pc = "final", !.cancel = "no",
                                      !.fin = CanceledOutcome(task[w][r].cancel)])
             /\ BeginRaises(w, r)
    <3> DEFINE t == [task[w][r] EXCEPT !.pc = "final", !.cancel = "no",
                                       !.fin = CanceledOutcome(task[w][r].cancel)]
    <3>1. t \in TaskState /\ t.pc = "final"
      BY <1>0, CanceledOutcomeType DEF TaskState
    <3>2. task' = [task EXCEPT ![w][r] = t] /\ BeginRaises(w, r)
      BY <2>2 DEF SetTask
    <3> HIDE DEF t
    <3> QED
      BY <3>1, <3>2, RaisedKinds
  <2> QED
    BY <1>2, <2>1, <2>2 DEF TaskBeginCanceled
<1>10. CASE TaskBeginFails(w, r)
  <2> DEFINE t == [task[w][r] EXCEPT !.pc = "final", !.fin = "failed"]
  <2>1. t \in TaskState /\ t.pc = "final"
    BY <1>0 DEF TaskState, TerminalStatuses
  <2>2. task' = [task EXCEPT ![w][r] = t] /\ BeginRaises(w, r)
    BY <1>10 DEF SetTask, TaskBeginFails
  <2> HIDE DEF t
  <2> QED
    BY <2>1, <2>2, RaisedKinds
<1>11. CASE TaskCancelAbsorbed(w, r)
  <2>1. PICK fin : SetTask(w, r, [task[w][r] EXCEPT !.cancel = "no", !.fin = fin])
    BY <1>11 DEF TaskCancelAbsorbed
  <2>2. [task[w][r] EXCEPT !.cancel = "no", !.fin = fin].pc = "final"
    BY <1>11 DEF TaskCancelAbsorbed, TypeOK, TaskState
  <2>3. NoneStarts
    BY <2>1, <2>2, OneTaskStartsNone DEF SetTask
  <2> QED
    BY <1>11, <2>3, NoRowQuiet DEF TaskCancelAbsorbed, Quiet, db
<1>3. CASE TaskExhausted(w, r)
  <2>1. PICK fin \in {"completed", "interrupted", "failed"} :
           SetTask(w, r, Unwind(task[w][r], fin))
    BY <1>3 DEF TaskExhausted
  <2>2. Unwind(task[w][r], fin).pc \in {"none", "final"}
    BY UnwindType DEF TypeOK, TerminalStatuses
  <2>3. NoneStarts
    BY <2>1, <2>2, OneTaskStartsNone DEF SetTask
  <2> QED
    BY <1>3, <2>3, NoRowQuiet DEF TaskExhausted, Quiet, db
<1>4. CASE TaskCanceled(w, r)
  <2>1. Unwind(task[w][r], CanceledOutcome(task[w][r].cancel)).pc \in {"none", "final"}
    BY UnwindType, CanceledOutcomeType DEF TypeOK
  <2>2. NoneStarts
    BY <1>4, <2>1, OneTaskStartsNone DEF TaskCanceled, SetTask
  <2> QED
    BY <1>4, <2>2, NoRowQuiet DEF TaskCanceled, Quiet, db
<1>5. CASE TaskFinalize(w, r)
  <2>1. CASE run' = [run EXCEPT ![r] = Outcome(w, r)]
    BY <1>5, <2>1, FinalizeSettles
  <2>2. CASE run' = run
    <3>1. NoneStarts
      BY <1>5, OneTaskStartsNone DEF TaskFinalize, SetTask, NoTask
    <3> QED
      BY <2>2, <3>1, NoRowQuiet DEF Quiet
  <2> QED
    BY <1>5, <2>1, <2>2 DEF TaskFinalize
<1>6. CASE TaskWrapUp(w, r) \/ TaskAborted(w, r)
  <2>1. NoneStarts
    BY <1>6, OneTaskStartsNone DEF TaskWrapUp, TaskAborted, SetTask, NoTask
  <2> QED
    BY <1>6, <2>1, NoRowQuiet DEF TaskWrapUp, TaskAborted, Quiet, db
<1>7. CASE Heartbeat(w, r)
  <2>1. run[r] \in RunRow(Runs) /\ RowOK(run[r])
    BY DEF TypeOK, RowsOK
  <2>2. QuietChange(run[r], [run[r] EXCEPT !.old = FALSE])
    BY <2>1 DEF QuietChange, RowOK, RunRow, TerminalStatuses
  <2>3. run' = [run EXCEPT ![r] = [run[r] EXCEPT !.old = FALSE]]
    BY <1>7 DEF Heartbeat
  <2>4. \A q \in Runs : QuietChange(run[q], run'[q])
    BY <2>2, <2>3, OneRowQuiet
  <2> QED
    BY <1>7, <2>4, NoTaskStartsNone DEF Heartbeat, Quiet, local
<1>8. CASE HeartbeatCancel(w, r)
  <2>1. Poked(task[w][r], run[r].why).pc = task[w][r].pc
    BY PokedType DEF TypeOK, RunRow
  <2>2. NoneStarts
    BY <1>8, <2>1, OneTaskStartsNone DEF HeartbeatCancel, SetTask, Executing
  <2> QED
    BY <1>8, <2>2, NoRowQuiet DEF HeartbeatCancel, Quiet, db
<1>9. CASE HeartbeatDies(w, r)
  <2>1. Executing(w, r)
    BY <1>9 DEF HeartbeatDies, Executing
  <2>2. NoneStarts
    BY <1>9, <2>1, OneTaskStartsNone DEF HeartbeatDies, SetTask
  <2> QED
    BY <1>9, <2>2, NoRowQuiet DEF HeartbeatDies, Quiet, db
<1> QED
  BY <1>1, <1>2, <1>3, <1>4, <1>5, <1>6, <1>7, <1>8, <1>9, <1>10, <1>11 DEF TaskStep

LEMMA StepKinds ==
    ASSUME IInv, Next
    PROVE  \/ Quiet
           \/ \E w \in Workers, r \in Runs : Starts(w, r)
           \/ \E r \in Runs : Settles(r)
<1>1. ASSUME NEW r \in Runs, Age(r) PROVE Quiet
  <2>1. run[r] \in RunRow(Runs) /\ RowOK(run[r])
    BY DEF IInv, TypeOK, RowsOK
  <2>2. QuietChange(run[r], [run[r] EXCEPT !.old = TRUE])
    BY <2>1 DEF QuietChange, RowOK, RunRow, TerminalStatuses
  <2>3. run' = [run EXCEPT ![r] = [run[r] EXCEPT !.old = TRUE]]
    BY <1>1 DEF Age
  <2>4. \A q \in Runs : QuietChange(run[q], run'[q])
    BY <2>2, <2>3, OneRowQuiet DEF IInv
  <2> QED
    BY <1>1, <2>4, NoTaskStartsNone DEF Age, Quiet, local
<1> QED
  BY <1>1, ProcessQuiet, RequestQuiet, QueueQuiet, TaskKinds DEF Next

-----------------------------------------------------------------------------
(* The invariant is inductive.                                             *)

LEMMA IInvInit == Init => IInv
<1> SUFFICES ASSUME Init PROVE IInv
  OBVIOUS
<1>1. TypeOK
  BY TypeInit
<1>2. \A w \in Workers, r \in Runs : ~Executing(w, r)
  BY DEF Init, Executing, NoTask
<1>3. \A r \in Runs : run[r] = AbsentRow
  BY DEF Init
<1>4. RowOK(AbsentRow)
  BY AbsentRowType DEF RowOK
<1> QED
  BY <1>1, <1>2, <1>3, <1>4, AbsentRowType DEF IInv, RowsOK, OwnerExecutes, AcknowledgedIdle

LEMMA QuietKeepsIInv ==
    ASSUME IInv, TypeOK', Quiet
    PROVE  IInv'
<1>1. \A r \in Runs : RowOK(run'[r]) /\ run'[r].worker = run[r].worker /\ run'[r].ack = run[r].ack
  BY DEF Quiet, QuietChange
<1>2. \A w \in Workers, r \in Runs : Executing(w, r)' => Executing(w, r)
  BY DEF Quiet, NoneStarts
<1>3. RowsOK'
  BY <1>1 DEF RowsOK
<1>4. OwnerExecutes'
  BY <1>1, <1>2 DEF OwnerExecutes, IInv
<1>5. AcknowledgedIdle'
  BY <1>1, <1>2 DEF AcknowledgedIdle, IInv
<1> QED
  BY <1>3, <1>4, <1>5 DEF IInv

(* A start displaces no one: the row had no worker, so no one executed it, *)
(* and no cancellation, so none was acknowledged.                          *)
LEMMA StartEffect ==
    ASSUME IInv, NEW w \in Workers, NEW r \in Runs, Starts(w, r)
    PROVE  /\ run[r].status = "queued" /\ run[r].worker = NoWorker /\ ~run[r].ack
           /\ \A v \in Workers : ~Executing(v, r)
           /\ RowOK(run'[r]) /\ run'[r].worker = w /\ ~run'[r].ack
           /\ \A q \in Runs \ {r} : run'[q] = run[q]
           /\ \A v \in Workers, q \in Runs :
                 /\ Executing(v, q)' => Executing(v, q) \/ (v = w /\ q = r)
                 /\ Executing(v, q) => Executing(v, q)'
<1> USE DEF IInv
<1>1. run[r] \in RunRow(Runs) /\ RowOK(run[r]) /\ run[r].status = "queued"
  BY DEF TypeOK, RowsOK, Starts, Startable
<1>2. run[r].worker = NoWorker /\ ~run[r].cancelReq /\ ~run[r].ack
  BY <1>1 DEF RowOK
<1>3. \A v \in Workers : ~Executing(v, r)
  BY <1>2, NoWorkerAssumption DEF OwnerExecutes
<1>4. run'[r] = Started(run[r], w) /\ \A q \in Runs \ {r} : run'[q] = run[q]
  BY DEF Starts, TypeOK
<1>5. /\ run'[r].status = "running" /\ run'[r].worker = w
      /\ run'[r].ack = run[r].ack
  BY <1>1, <1>4, StartedRow
<1>6. RowOK(run'[r])
  BY <1>5 DEF RowOK
<1>7. PICK t \in TaskState : task' = [task EXCEPT ![w][r] = t]
  BY DEF Starts
<1>8. \A v \in Workers, q \in Runs :
         /\ Executing(v, q)' => Executing(v, q) \/ (v = w /\ q = r)
         /\ Executing(v, q) => Executing(v, q)'
  BY <1>3, <1>7 DEF TypeOK, Executing
<1> QED
  BY <1>1, <1>2, <1>3, <1>4, <1>5, <1>6, <1>8

LEMMA StartKeepsIInv ==
    ASSUME IInv, TypeOK', NEW w \in Workers, NEW r \in Runs, Starts(w, r)
    PROVE  IInv'
<1>1. RowsOK'
  BY StartEffect DEF IInv, RowsOK
<1>2. OwnerExecutes'
  BY StartEffect DEF IInv, OwnerExecutes
<1>3. AcknowledgedIdle'
  BY StartEffect DEF IInv, AcknowledgedIdle
<1> QED
  BY <1>1, <1>2, <1>3 DEF IInv

LEMMA SettleEffect ==
    ASSUME IInv, NEW r \in Runs, Settles(r)
    PROVE  /\ \A v \in Workers, q \in Runs : Executing(v, q)' <=> Executing(v, q)
           /\ \A q \in Runs \ {r} : run'[q] = run[q]
           /\ RowOK(run'[r]) /\ run'[r].worker = run[r].worker
           /\ run[r].status \in TerminalStatuses => run'[r].status \notin {"queued", "running"}
           /\ run[r].ack => run'[r].ack
           /\ run'[r].ack => run[r].ack \/ \A v \in Workers : ~Executing(v, r)
           /\ run'[r] \in RunRow(Runs)
<1>1. PICK row \in RunRow(Runs) :
          /\ run' = [run EXCEPT ![r] = row]
          /\ RowOK(row) /\ row.worker = run[r].worker
          /\ run[r].status \in TerminalStatuses => row.status \notin {"queued", "running"}
          /\ run[r].ack => row.ack
          /\ row.ack => run[r].ack \/ \A w \in Workers : ~Executing(w, r)
  BY DEF Settles
<1>2. run'[r] = row /\ \A q \in Runs \ {r} : run'[q] = run[q]
  BY <1>1 DEF IInv, TypeOK
<1>3. \A v \in Workers, q \in Runs : Executing(v, q)' <=> Executing(v, q)
  BY DEF Settles, NoneMoves
<1> QED
  BY <1>1, <1>2, <1>3

LEMMA SettleKeepsIInv ==
    ASSUME IInv, TypeOK', NEW r \in Runs, Settles(r)
    PROVE  IInv'
<1>1. RowsOK'
  BY SettleEffect DEF IInv, RowsOK
<1>2. OwnerExecutes'
  BY SettleEffect DEF IInv, OwnerExecutes
<1>3. AcknowledgedIdle'
  BY SettleEffect DEF IInv, AcknowledgedIdle
<1> QED
  BY <1>1, <1>2, <1>3 DEF IInv

LEMMA IInvNext == IInv /\ [Next]_vars => IInv'
<1> SUFFICES ASSUME IInv, [Next]_vars PROVE IInv'
  OBVIOUS
<1>1. TypeOK'
  BY TypeNext DEF IInv
<1>2. CASE UNCHANGED vars
  BY <1>2 DEF vars, IInv, TypeOK, RowsOK, OwnerExecutes, AcknowledgedIdle, Executing
<1>3. CASE Next
  BY <1>1, <1>3, StepKinds, QuietKeepsIInv, StartKeepsIInv, SettleKeepsIInv
<1> QED
  BY <1>2, <1>3

LEMMA InvCorrect == Spec => []IInv
<1> QED
  BY IInvInit, IInvNext, PTL DEF Spec

(* A run is executed by its owning worker only, for any number of          *)
(* processes launching it.                                                 *)
THEOREM Ownership == Spec => []OwnerExecutes
<1>1. IInv => OwnerExecutes
  BY DEF IInv
<1> QED
  BY <1>1, InvCorrect, PTL

(* An acknowledged or canceled run has stopped: no process executes it,    *)
(* then or later.                                                          *)
THEOREM Acknowledgment == Spec => []AcknowledgedMeansStopped
<1>1. IInv => AcknowledgedMeansStopped
  BY DEF IInv, RowsOK, RowOK, AcknowledgedIdle, AcknowledgedMeansStopped
<1> QED
  BY <1>1, InvCorrect, PTL

-----------------------------------------------------------------------------
(* What no step does.                                                      *)

LEMMA NextRestartsNone ==
    ASSUME IInv, [Next]_vars
    PROVE  [\A r \in Runs :
              /\ run[r].status \in TerminalStatuses => run'[r].status \notin {"queued", "running"}
              /\ run[r].worker # NoWorker => run'[r].worker = run[r].worker]_vars
<1>1. CASE Quiet
  BY <1>1 DEF Quiet, QuietChange
<1>2. ASSUME NEW w \in Workers, NEW r \in Runs, Starts(w, r)
      PROVE  \A q \in Runs :
                /\ run[q].status \in TerminalStatuses => run'[q].status \notin {"queued", "running"}
                /\ run[q].worker # NoWorker => run'[q].worker = run[q].worker
  <2> SUFFICES ASSUME NEW q \in Runs
               PROVE  /\ run[q].status \in TerminalStatuses
                            => run'[q].status \notin {"queued", "running"}
                      /\ run[q].worker # NoWorker => run'[q].worker = run[q].worker
    OBVIOUS
  <2>1. CASE q = r
    BY <1>2, <2>1, StartEffect DEF TerminalStatuses
  <2>2. CASE q # r
    BY <1>2, <2>2, StartEffect DEF TerminalStatuses
  <2> QED
    BY <2>1, <2>2
<1>3. ASSUME NEW r \in Runs, Settles(r)
      PROVE  \A q \in Runs :
                /\ run[q].status \in TerminalStatuses => run'[q].status \notin {"queued", "running"}
                /\ run[q].worker # NoWorker => run'[q].worker = run[q].worker
  <2> SUFFICES ASSUME NEW q \in Runs
               PROVE  /\ run[q].status \in TerminalStatuses
                            => run'[q].status \notin {"queued", "running"}
                      /\ run[q].worker # NoWorker => run'[q].worker = run[q].worker
    OBVIOUS
  <2>1. CASE q = r
    BY <1>3, <2>1, SettleEffect
  <2>2. CASE q # r
    BY <1>3, <2>2, SettleEffect DEF TerminalStatuses
  <2> QED
    BY <2>1, <2>2
<1> QED
  BY <1>1, <1>2, <1>3, StepKinds

(* A run that is over is never executed again, and a run never changes     *)
(* hands.                                                                  *)
THEOREM NoRestart == Spec => NeverRestarted
<1> QED
  BY InvCorrect, NextRestartsNone, PTL DEF Spec, NeverRestarted

-----------------------------------------------------------------------------
(* The run protocol implements RunContract.                                *)

LEMMA ContractInit == Init => Contract!Init
<1> SUFFICES ASSUME Init PROVE Contract!Init
  OBVIOUS
<1>1. \A r \in Runs : run[r].worker = NoWorker /\ ~run[r].ack
  BY AbsentRowType DEF Init
<1>2. \A w \in Workers, r \in Runs : ~Executing(w, r)
  BY DEF Init, Executing, NoTask
<1> QED
  BY <1>1, <1>2 DEF Contract!Init

LEMMA ContractHalt ==
    ASSUME IInv, Quiet
    PROVE  Contract!Next
<1> DEFINE Exec == {r \in Runs : \E w \in Workers : Executing(w, r)}
<1>1. \A r \in Runs : run'[r].worker = run[r].worker /\ run'[r].ack = run[r].ack
  BY DEF Quiet, QuietChange
<1>2. Exec' \subseteq Exec
  BY DEF Quiet, NoneStarts
<1>3. Contract!Halt(Exec \ Exec')
  BY <1>1, <1>2 DEF Contract!Halt
<1> QED
  BY <1>3 DEF Contract!Next

LEMMA ContractBegin ==
    ASSUME IInv, NEW w \in Workers, NEW r \in Runs, Starts(w, r)
    PROVE  Contract!Next
<1> DEFINE Exec == {q \in Runs : \E v \in Workers : Executing(v, q)}
<1>1. run[r].worker = NoWorker /\ ~run[r].ack
  BY StartEffect
<1>2. [q \in Runs |-> run[q].worker]' = [[q \in Runs |-> run[q].worker] EXCEPT ![r] = w]
  <2>1. run'[r].worker = w /\ \A q \in Runs \ {r} : run'[q] = run[q]
    BY StartEffect
  <2>2. [q \in Runs |-> run'[q].worker] = [q \in Runs |-> IF q = r THEN w ELSE run[q].worker]
    BY <2>1
  <2> QED
    BY <2>2
<1>3. Exec' \in {Exec, Exec \cup {r}}
  BY StartEffect
<1>4. {q \in Runs : run[q].ack}' = {q \in Runs : run[q].ack}
  BY StartEffect
<1>5. Contract!Begin(r, w)
  BY <1>1, <1>2, <1>3, <1>4 DEF Contract!Begin
<1> QED
  BY <1>5 DEF Contract!Next

(* The step that acknowledges moves no execution and finds the run idle;   *)
(* one that acknowledges nothing leaves the contract's state alone.        *)
LEMMA ContractSettle ==
    ASSUME IInv, NEW r \in Runs, Settles(r)
    PROVE  Contract!Next
<1> DEFINE Exec == {q \in Runs : \E v \in Workers : Executing(v, q)}
           Owner == [q \in Runs |-> run[q].worker]
           Settled == {q \in Runs : run[q].ack}
<1>1. Exec' = Exec
  BY SettleEffect
<1>2. \A q \in Runs : run'[q].worker = run[q].worker
  BY SettleEffect
<1>3. Owner' = Owner
  BY <1>2
<1>4. CASE run[r].ack \/ ~run'[r].ack
  <2>1. Settled' = Settled
    BY <1>4, SettleEffect
  <2>2. Contract!Halt({})
    BY <1>1, <1>3, <2>1 DEF Contract!Halt
  <2> QED
    BY <2>2 DEF Contract!Next
<1>5. CASE ~run[r].ack /\ run'[r].ack
  <2>1. Settled' = Settled \cup {r}
    BY <1>5, SettleEffect
  <2>2. r \notin Exec
    BY <1>5, SettleEffect
  <2>3. Contract!Settle(r)
    BY <1>1, <1>3, <2>1, <2>2 DEF Contract!Settle
  <2> QED
    BY <2>3 DEF Contract!Next
<1> QED
  BY <1>4, <1>5

LEMMA ContractNext == IInv /\ [Next]_vars => [Contract!Next]_(Contract!vars)
<1> SUFFICES ASSUME IInv, [Next]_vars PROVE [Contract!Next]_(Contract!vars)
  OBVIOUS
<1>1. CASE UNCHANGED vars
  <2>1. run' = run /\ task' = task
    BY <1>1 DEF vars
  <2> QED
    BY <2>1 DEF Contract!vars, Executing
<1>2. CASE Next
  BY <1>2, StepKinds, ContractHalt, ContractBegin, ContractSettle
<1> QED
  BY <1>1, <1>2

(* Whatever the handlers, dispatchers and recovery jobs do, a run is given *)
(* to one worker at most, once, is executed by no one else, and is not     *)
(* executed once its cancellation is acknowledged.                         *)
THEOREM ContractKept == Spec => KeepsContract
<1> QED
  BY InvCorrect, ContractInit, ContractNext, PTL DEF Spec, KeepsContract, Contract!Spec
-----------------------------------------------------------------------------
(* The queue, its inputs and the runs beside each other.  The invariants   *)
(* of this part rest on the conversation lock: at most one run is active,  *)
(* and a handler that holds the lock over an active run keeps any other    *)
(* from being created before it writes its cancellation.                   *)

RowLive(row) ==
    /\ row.status \in {"queued", "running"} => row.active
    /\ row.status = "absent" => ~row.active

RowsLive == \A r \in Runs : RowLive(run[r])

OneActive == \A r, q \in Runs : run[r].active /\ run[q].active => r = q

(* The steering handler in possession of the lock: there is one, no run    *)
(* but the one it has loaded is active, and its input is not claimed.      *)
SteerHolds ==
    \A w \in Workers : req[w].kind = "steer" =>
        /\ \A v \in Workers : req[v].kind = "steer" => v = w
        /\ \A r \in Runs : run[r].active => r = req[w].run
        /\ req[w].input \in Inputs /\ input[req[w].input].status \in {"absent", "pending"}

(* Every request to cancel has been acknowledged where a run of the queue  *)
(* is active beside it.                                                    *)
RequestsAnswered ==
    \A r, p \in Runs :
        run[r].active /\ run[r].via = "queue" /\ p # r /\ run[p].cancelReq => run[p].ack

InputsBound == \A i \in Inputs : input[i].run # NoRun => run[input[i].run].status # "absent"

(* What the row of an executed run says: it is active, or it was given up  *)
(* or failed by someone else, or canceled after that.                      *)
LostStatuses == {"stale", "canceling"} \cup {s \in {"failed"} : "startfail" \in Offered}
Lives(r) == run[r].active \/ run[r].status \in LostStatuses
ExecutedLives == \A w \in Workers, r \in Runs : Executing(w, r) => Lives(r)

(* A task that is about to write an answer of its executor is the owner's. *)
(* The task that is about to write a failure need not be, when its first   *)
(* transaction can raise.                                                  *)
IsAnswer(fin) == fin \notin {"canceled", "stale"} /\ fin \notin LostStatuses
AnswerIsOwners ==
    \A w \in Workers, r \in Runs :
        task[w][r].pc = "final" /\ IsAnswer(task[w][r].fin) => run[r].worker = w

CInv ==
    /\ IInv /\ RowsLive /\ OneActive /\ SteerHolds /\ RequestsAnswered
    /\ InputsBound /\ LiveRunKeepsItsInput /\ ResumedOnce
    /\ ExecutedLives /\ AnswerIsOwners

(* A step creates a run, or runs only fade: none gets active, and none is  *)
(* asked to cancel that neither was active nor is held by a steering       *)
(* handler.                                                                *)
RowFades(old, new) ==
    /\ new.active => old.active
    /\ new.via = old.via /\ new.parent = old.parent
    /\ new.status \in {"queued", "running"} => old.status \in {"queued", "running"} /\ new.active
    /\ new.status = "absent" => old.status = "absent"
    /\ old.ack => new.ack

Steers(w, r) == req[w].kind = "steer" /\ req[w].run = r

RowsFade ==
    \A r \in Runs :
        /\ RowFades(run[r], run'[r])
        /\ run'[r].cancelReq => run[r].cancelReq \/ run[r].active \/ \E w \in Workers : Steers(w, r)

(* An input that is bound is released only when its run is no longer on    *)
(* its way to an answer, and none is bound.                                *)
InputFades(i) ==
    /\ input'[i].run \in {input[i].run, NoRun}
    /\ input'[i].run # NoRun <=> input'[i].status \in {"claimed", "failed"}
    /\ input[i].status = "claimed" /\ run'[input[i].run].status \in {"queued", "running"}
           => input'[i].status = "claimed" /\ input'[i].run = input[i].run

SteersKept ==
    \A w \in Workers : req'[w].kind = "steer" =>
        req'[w] = req[w] /\ input'[req[w].input] = input[req[w].input]

Fade == RowsFade /\ (\A i \in Inputs : InputFades(i)) /\ SteersKept

Creates(r) ==
    /\ LockFree /\ NoActiveRun /\ run[r].status = "absent"
    /\ req' = req
    /\ \E via \in {"direct", "queue", "fork", "resume"}, parent \in Runs \cup {NoRun} :
          /\ run' = [run EXCEPT ![r] = QueuedRow(via, parent)]
          /\ parent # NoRun => \A c \in Runs : run[c].parent # parent
          /\ via = "queue" => \A p \in Runs : ~Unacknowledged(p)
          /\ \/ via \in {"fork", "resume"} /\ input' = input
             \/ \E i \in Inputs :
                   /\ input[i].status \in {"absent", "pending"}
                   /\ input'[i].status = "claimed" /\ input'[i].run = r
                   /\ \A j \in Inputs \ {i} : input'[j] = input[j]

(* The row operators fade.                                                 *)
LEMMA SameFades == ASSUME NEW row \in RunRow(Runs), RowLive(row) PROVE RowFades(row, row)
BY DEF RowFades, RowLive

LEMMA CancelRequestedFades ==
    ASSUME NEW row \in RunRow(Runs), RowLive(row), NEW seen, NEW why \in CancelReasons
    PROVE  LET new == CancelRequested(row, seen, why)
           IN  /\ RowFades(row, new)
               /\ seen = row.status => (new.cancelReq => row.cancelReq \/ row.active)
<1> DEFINE new == [row EXCEPT !.status = "canceling", !.cancelReq = TRUE, !.why = why]
<1>1. CASE seen \in {"queued", "running"}
  <2>1. CancelRequested(row, seen, why) = new
    BY <1>1 DEF CancelRequested
  <2>2. RowFades(row, new)
    BY DEF RowFades, RunRow
  <2>3. seen = row.status => row.active
    BY <1>1 DEF RowLive
  <2> QED
    BY <2>1, <2>2, <2>3
<1>2. CASE seen \notin {"queued", "running"}
  BY <1>2, SameFades DEF CancelRequested
<1> QED
  BY <1>1, <1>2

LEMMA TerminatedFades ==
    ASSUME NEW row \in RunRow(Runs), NEW to \in TerminalStatuses,
           NEW ackBy, NEW workerless \in BOOLEAN
    PROVE  LET new == Terminated(row, to, ackBy, workerless)
           IN  RowFades(row, new) /\ new.cancelReq = row.cancelReq /\ new.status = to
<1> DEFINE ack == row.ack \/ (row.cancelReq /\ MayAcknowledge(row, ackBy, workerless))
           new == Terminated(row, to, ackBy, workerless)
<1>1. new = [row EXCEPT !.status = to, !.active = FALSE, !.old = FALSE, !.why = "user",
                        !.ack = ack]
  BY DEF Terminated, RunRow
<1>2. row.ack => ack
  OBVIOUS
<1> HIDE DEF ack, new
<1>3. /\ ~new.active /\ new.via = row.via /\ new.parent = row.parent
      /\ new.status = to /\ new.ack = ack /\ new.cancelReq = row.cancelReq
  BY <1>1 DEF RunRow
<1>4. RowFades(row, new)
  BY <1>2, <1>3 DEF RowFades, TerminalStatuses
<1> QED
  BY <1>3, <1>4 DEF new

LEMMA StartedFades ==
    ASSUME NEW row \in RunRow(Runs), RowLive(row), Startable(row), NEW w \in Workers
    PROVE  LET new == Started(row, w)
           IN  RowFades(row, new) /\ new.cancelReq = row.cancelReq /\ new.active
BY DEF RowFades, RunRow, RowLive, Startable, Started

LEMMA AgeFades ==
    ASSUME NEW row \in RunRow(Runs), RowLive(row), NEW old \in BOOLEAN
    PROVE  LET new == [row EXCEPT !.old = old]
           IN  RowFades(row, new) /\ new.cancelReq = row.cancelReq
BY DEF RowFades, RunRow, RowLive

(* A step that writes one row, or none.                                    *)
LEMMA OneRowFades ==
    ASSUME CInv, NEW r, NEW row, run' = [run EXCEPT ![r] = row],
           r \in Runs => /\ RowFades(run[r], row)
                         /\ row.cancelReq => run[r].cancelReq \/ run[r].active
                                              \/ \E w \in Workers : Steers(w, r)
    PROVE  RowsFade
BY SameFades DEF RowsFade, CInv, IInv, TypeOK, RowsLive

LEMMA NoRowFades == ASSUME CInv, run' = run PROVE RowsFade
BY SameFades DEF RowsFade, CInv, IInv, TypeOK, RowsLive

LEMMA NoInputFades == ASSUME CInv, input' = input PROVE \A i \in Inputs : InputFades(i)
BY DEF InputFades, CInv, LiveRunKeepsItsInput

LEMMA SameSteers == ASSUME req' = req, input' = input \/ LockFree PROVE SteersKept
BY DEF SteersKept, LockFree

(* Which steps create a run, load one to steer over it, or only fade.      *)
LEMMA ProcessFades ==
    ASSUME CInv, NEW w \in Workers, ProcessStep(w)
    PROVE  Fade
<1> USE DEF CInv, IInv
<1>1. CASE Boot(w) \/ CancelForShutdown(w)
  <2>1. run' = run /\ input' = input /\ req' = req
    BY <1>1 DEF Boot, CancelForShutdown, db, local
  <2> QED
    BY <2>1, NoRowFades, NoInputFades, SameSteers DEF Fade
<1>2. CASE Crash(w)
  <2>1. run' = run /\ input' = input /\ req' = [req EXCEPT ![w] = NoReq]
    BY <1>2 DEF Crash, db
  <2>2. SteersKept
    BY <2>1 DEF SteersKept, TypeOK, NoReq
  <2> QED
    BY <2>1, <2>2, NoRowFades, NoInputFades DEF Fade
<1>3. CASE PersistShutdownIntent(w)
  <2>1. input' = input /\ req' = req
    BY <1>3 DEF PersistShutdownIntent, local
  <2>2. ASSUME NEW r \in Runs
        PROVE  LET new == CancelRequested(run[r], run[r].status, "shutdown")
               IN  /\ RowFades(run[r], new)
                   /\ new.cancelReq => run[r].cancelReq \/ run[r].active
    <3>1. run[r] \in RunRow(Runs) /\ RowLive(run[r]) /\ "shutdown" \in CancelReasons
      BY DEF TypeOK, RowsLive, CancelReasons
    <3> QED
      BY <3>1, CancelRequestedFades
  <2>3. \A r \in Runs : \/ run'[r] = run[r]
                        \/ run'[r] = CancelRequested(run[r], run[r].status, "shutdown")
    BY <1>3 DEF PersistShutdownIntent, TypeOK
  <2>4. \A r \in Runs : RowFades(run[r], run[r])
    BY SameFades DEF TypeOK, RowsLive
  <2>5. RowsFade
    BY <2>2, <2>3, <2>4 DEF RowsFade
  <2> QED
    BY <2>1, <2>5, NoInputFades, SameSteers DEF Fade
<1> QED
  BY <1>1, <1>2, <1>3 DEF ProcessStep

(* A run created for no input: a fork or a resume.                         *)
LEMMA CreatesAlone ==
    ASSUME CInv, NEW r \in Runs, NEW via \in {"fork", "resume"}, NEW parent \in Runs \cup {NoRun},
           CreateRun(r, via, parent), input' = input, req' = req,
           parent # NoRun => \A c \in Runs : run[c].parent # parent
    PROVE  Creates(r)
BY DEF CreateRun, NextRunId, Creates

(* A run created for an input that was not bound yet.                      *)
LEMMA CreatesBound ==
    ASSUME CInv, NEW r \in Runs, NEW i \in Inputs, NEW via \in {"direct", "queue"},
           CreateRun(r, via, NoRun), req' = req,
           input[i].status \in {"absent", "pending"},
           input'[i].status = "claimed", input'[i].run = r,
           \A j \in Inputs \ {i} : input'[j] = input[j],
           via = "queue" => \A p \in Runs : ~Unacknowledged(p)
    PROVE  Creates(r)
BY DEF CreateRun, NextRunId, Creates

(* Writing one input that is not bound, before or after.                   *)
LEMMA FreeInputFades ==
    ASSUME CInv, NEW i \in Inputs, NEW row, input' = [input EXCEPT ![i] = row],
           input[i].status \in {"absent", "pending"},
           row.run = NoRun, row.status \notin {"claimed", "failed"}
    PROVE  \A j \in Inputs : InputFades(j)
BY DEF InputFades, CInv, IInv, TypeOK, LiveRunKeepsItsInput

LEMMA CreatingRequests ==
    ASSUME CInv, NEW w \in Workers, StartDirect(w) \/ StartFork(w) \/ Resume(w)
    PROVE  \E r \in Runs : Creates(r)
<1> USE DEF CInv, IInv
<1>1. CASE StartDirect(w)
  <2>1. PICK r \in Runs, i \in Inputs :
           /\ CreateRun(r, "direct", NoRun)
           /\ NextInputId(i)
           /\ input' = [input EXCEPT ![i] = [status |-> "claimed", run |-> r, prio |-> 0]]
    BY <1>1 DEF StartDirect
  <2>2. /\ input'[i].status = "claimed" /\ input'[i].run = r
        /\ \A j \in Inputs \ {i} : input'[j] = input[j]
    BY <2>1 DEF TypeOK
  <2>3. input[i].status = "absent"
    BY <2>1 DEF NextInputId
  <2>4. req' = req
    BY <1>1 DEF StartDirect
  <2> QED
    BY <2>1, <2>2, <2>3, <2>4, CreatesBound
<1>2. CASE StartFork(w)
  <2>1. PICK r \in Runs : CreateRun(r, "fork", NoRun)
    BY <1>2 DEF StartFork
  <2>2. input' = input /\ req' = req
    BY <1>2 DEF StartFork
  <2> QED
    BY <2>1, <2>2, CreatesAlone
<1>3. CASE Resume(w)
  <2>1. PICK p \in Runs, r \in Runs : LatestInterrupted(p) /\ CreateRun(r, "resume", p)
    BY <1>3 DEF Resume
  <2>2. \A c \in Runs : run[c].parent # p
    BY <2>1 DEF LatestInterrupted, Unresolved
  <2>3. input' = input /\ req' = req
    BY <1>3 DEF Resume
  <2> QED
    BY <2>1, <2>2, <2>3, CreatesAlone
<1> QED
  BY <1>1, <1>2, <1>3

LEMMA QueueingRequests ==
    ASSUME CInv, NEW w \in Workers,
           \/ Enqueue(w) \/ ResumeQueue(w)
           \/ \E i \in Inputs : PromoteIdle(w, i) \/ DeleteInput(w, i)
    PROVE  Fade
<1> USE DEF CInv, IInv
<1>1. CASE ResumeQueue(w)
  <2>1. run' = run /\ input' = input /\ req' = req
    BY <1>1 DEF ResumeQueue
  <2> QED
    BY <2>1, NoRowFades, NoInputFades, SameSteers DEF Fade
<1>2. CASE Enqueue(w)
  <2>1. LockFree /\ run' = run /\ req' = req
    BY <1>2 DEF Enqueue
  <2>2. PICK i \in Inputs, prio \in {0, SteerPriority} :
           /\ NextInputId(i)
           /\ input' = [input EXCEPT ![i] = [status |-> "pending", run |-> NoRun, prio |-> prio]]
    BY <1>2 DEF Enqueue
  <2> DEFINE row == [status |-> "pending", run |-> NoRun, prio |-> prio]
  <2>3. \A j \in Inputs : InputFades(j)
    <3>1. row.run = NoRun /\ row.status = "pending" /\ input[i].status = "absent"
      BY <2>2 DEF NextInputId
    <3>2. input' = [input EXCEPT ![i] = row]
      BY <2>2
    <3> HIDE DEF row
    <3> QED
      BY <3>1, <3>2, FreeInputFades
  <2> QED
    BY <2>1, <2>3, NoRowFades, SameSteers DEF Fade
<1>3. ASSUME NEW i \in Inputs, PromoteIdle(w, i) \/ DeleteInput(w, i)
      PROVE  Fade
  <2>1. LockFree /\ run' = run /\ req' = req /\ input[i].status = "pending"
    BY <1>3 DEF PromoteIdle, DeleteInput, local, Pending
  <2>2. PICK row \in {[input[i] EXCEPT !.prio = SteerPriority],
                      [input[i] EXCEPT !.status = "canceled"]} :
           input' = [input EXCEPT ![i] = row]
    BY <1>3 DEF PromoteIdle, DeleteInput
  <2>3. input[i] \in InputRow /\ input[i].run = NoRun
    BY <2>1 DEF TypeOK, LiveRunKeepsItsInput
  <2>4. row.run = NoRun /\ row.status \in {"pending", "canceled"}
    BY <2>1, <2>3 DEF InputRow
  <2>5. \A j \in Inputs : InputFades(j)
    BY <2>1, <2>2, <2>4, FreeInputFades
  <2> QED
    BY <2>1, <2>5, NoRowFades, SameSteers DEF Fade
<1> QED
  BY <1>1, <1>2, <1>3

(* The handler that steered asks for the cancellation of the run it has    *)
(* loaded, and lets go of the lock.                                        *)
LEMMA SteerCommitFades == ASSUME CInv, NEW w \in Workers, SteerCommit(w) PROVE Fade
<1> USE DEF CInv, IInv
<1> DEFINE r == req[w].run
           i == req[w].input
<1>1. req[w].kind = "steer" /\ i \in Inputs /\ input[i].status \in {"absent", "pending"}
  BY DEF SteerCommit, SteerHolds
<1>2. \A q \in Runs : RowFades(run[q], CancelRequested(run[q], req[w].seen, "user"))
  BY CancelRequestedFades DEF TypeOK, RowsLive, CancelReasons
<1>3. run' = [run EXCEPT ![r] = CancelRequested(run[r], req[w].seen, "user")]
  BY DEF SteerCommit
<1>4. Steers(w, r)
  BY <1>1 DEF Steers
<1>5. RowsFade
  BY <1>2, <1>3, <1>4, OneRowFades
<1>6. input' = [input EXCEPT ![i] = [status |-> "pending", run |-> NoRun, prio |-> SteerPriority]]
  BY DEF SteerCommit
<1>7. \A j \in Inputs : InputFades(j)
  <2> DEFINE row == [status |-> "pending", run |-> NoRun, prio |-> SteerPriority]
  <2>1. row.run = NoRun /\ row.status = "pending" /\ input' = [input EXCEPT ![i] = row]
    BY <1>6
  <2> HIDE DEF row
  <2> QED
    BY <1>1, <2>1, FreeInputFades
<1>8. SteersKept
  <2>1. req' = [req EXCEPT ![w] = Canceling(r)] /\ Canceling(r).kind = "cancel"
    BY DEF SteerCommit, Canceling, NoReq
  <2>2. \A v \in Workers : req'[v].kind # "steer"
    BY <1>1, <2>1 DEF TypeOK, SteerHolds
  <2> QED
    BY <2>2 DEF SteersKept
<1> QED
  BY <1>5, <1>7, <1>8 DEF Fade

LEMMA RequestFades ==
    ASSUME CInv, NEW w \in Workers, RequestStep(w)
    PROVE  \/ Fade
           \/ \E r \in Runs : Creates(r)
           \/ \E i \in Inputs : SteerRead(w, i)
<1> USE DEF CInv, IInv
<1>1. CASE AttachMarkStale(w)
  <2>1. input' = input
    BY <1>1 DEF AttachMarkStale
  <2>2. \A r \in Runs : LET new == Terminated(run[r], "stale", NoWorker, FALSE)
                        IN  RowFades(run[r], new) /\ new.cancelReq = run[r].cancelReq
    <3>1. \A r \in Runs : run[r] \in RunRow(Runs)
      BY DEF TypeOK
    <3>2. "stale" \in TerminalStatuses
      BY DEF TerminalStatuses
    <3> QED
      BY <3>1, <3>2, TerminatedFades
  <2>3. run' = [run EXCEPT ![req[w].run] = Terminated(run[req[w].run], "stale", NoWorker, FALSE)]
    BY <1>1 DEF AttachMarkStale
  <2>4. RowsFade
    BY <2>2, <2>3, OneRowFades
  <2>5. SteersKept
    BY <1>1 DEF AttachMarkStale, SteersKept, TypeOK, NoReq
  <2> QED
    BY <2>1, <2>4, <2>5, NoInputFades DEF Fade
<1>2. ASSUME NEW r \in Runs, Stop(w, r)
      PROVE  Fade
  <2>1. input' = input
    BY <1>2 DEF Stop
  <2>2. /\ RowFades(run[r], CancelRequested(run[r], run[r].status, "user"))
        /\ CancelRequested(run[r], run[r].status, "user").cancelReq
              => run[r].cancelReq \/ run[r].active
    BY CancelRequestedFades DEF TypeOK, RowsLive, CancelReasons
  <2>3. run' = [run EXCEPT ![r] = CancelRequested(run[r], run[r].status, "user")]
    BY <1>2 DEF Stop
  <2>4. RowsFade
    BY <2>2, <2>3, OneRowFades
  <2>5. SteersKept
    BY <1>2, <2>1 DEF Stop, SteersKept, TypeOK, Canceling, NoReq
  <2> QED
    BY <2>1, <2>4, <2>5, NoInputFades DEF Fade
<1>3. ASSUME NEW r \in Runs, CancelLocalTask(w, r) \/ AttachRead(w, r)
      PROVE  Fade
  <2>1. run' = run /\ input' = input
    BY <1>3 DEF CancelLocalTask, AttachRead, db
  <2>2. SteersKept
    BY <1>3, <2>1 DEF CancelLocalTask, AttachRead, SteersKept, TypeOK, NoReq
  <2> QED
    BY <2>1, <2>2, NoRowFades, NoInputFades DEF Fade
<1> QED
  BY <1>1, <1>2, <1>3, CreatingRequests, QueueingRequests, SteerCommitFades DEF RequestStep

(* Giving a claimed input up, or canceling a run no worker started, ends   *)
(* the run together with the binding of its input.                         *)
LEMMA FinalizeWorkerlessFades ==
    ASSUME CInv, NEW w \in Workers, NEW r \in Runs, FinalizeWorkerless(w, r)
    PROVE  Fade
<1> USE DEF CInv, IInv
<1> DEFINE row == Terminated(run[r], "canceled", NoWorker, TRUE)
<1>1. run[r] \in RunRow(Runs) /\ "canceled" \in TerminalStatuses
  BY DEF TypeOK, TerminalStatuses
<1>2. RowFades(run[r], row) /\ row.cancelReq = run[r].cancelReq /\ row.status = "canceled"
  BY <1>1, TerminatedFades
<1>3. run' = [run EXCEPT ![r] = row] /\ LockFree /\ req' = req
  BY DEF FinalizeWorkerless, local
<1> HIDE DEF row
<1>4. RowsFade
  BY <1>2, <1>3, OneRowFades
<1>5. run'[r].status = "canceled"
  BY <1>2, <1>3 DEF TypeOK
<1>6. ASSUME NEW i \in Inputs PROVE InputFades(i)
  <2>1. CASE input[i].run = r
    <3>1. input'[i] = [input[i] EXCEPT !.status = "canceled", !.run = NoRun]
      BY <2>1 DEF FinalizeWorkerless
    <3>2. input'[i].status = "canceled" /\ input'[i].run = NoRun
      BY <3>1 DEF TypeOK, InputRow
    <3> QED
      BY <1>5, <2>1, <3>2 DEF InputFades
  <2>2. CASE input[i].run # r
    <3>1. input'[i] = input[i]
      BY <2>2 DEF FinalizeWorkerless
    <3> QED
      BY <3>1 DEF InputFades, LiveRunKeepsItsInput
  <2> QED
    BY <2>1, <2>2
<1> QED
  BY <1>3, <1>4, <1>6, SameSteers DEF Fade

LEMMA FailClaimedInputFades ==
    ASSUME CInv, NEW w \in Workers, NEW r \in Runs, FailClaimedInput(w, r)
    PROVE  Fade
<1> USE DEF CInv, IInv
<1>1. LockFree /\ req' = req
  BY DEF FailClaimedInput
<1>2. PICK i \in Inputs :
         /\ input[i].status = "claimed" /\ input[i].run = r
         /\ \/ input' = input /\ run' = run
            \/ /\ input' = [input EXCEPT ![i].status = "failed"]
               /\ run' = [run EXCEPT ![r] = Terminated(@, "failed", NoWorker, FALSE)]
  BY DEF FailClaimedInput
<1>3. CASE input' = input /\ run' = run
  BY <1>1, <1>3, NoRowFades, NoInputFades, SameSteers DEF Fade
<1>4. CASE /\ input' = [input EXCEPT ![i].status = "failed"]
           /\ run' = [run EXCEPT ![r] = Terminated(@, "failed", NoWorker, FALSE)]
  <2> DEFINE row == Terminated(run[r], "failed", NoWorker, FALSE)
  <2>1. run[r] \in RunRow(Runs) /\ "failed" \in TerminalStatuses
    BY DEF TypeOK, TerminalStatuses
  <2>2. RowFades(run[r], row) /\ row.cancelReq = run[r].cancelReq /\ row.status = "failed"
    BY <2>1, TerminatedFades
  <2>3. run' = [run EXCEPT ![r] = row]
    BY <1>4
  <2> HIDE DEF row
  <2>4. RowsFade
    BY <2>2, <2>3, OneRowFades
  <2>5. run'[r].status = "failed"
    BY <2>2, <2>3 DEF TypeOK
  <2>6. input'[i].status = "failed" /\ input'[i].run = r
    BY <1>2, <1>4 DEF TypeOK, InputRow
  <2>7. \A j \in Inputs \ {i} : input'[j] = input[j]
    BY <1>4 DEF TypeOK
  <2>8. \A j \in Inputs : InputFades(j)
    BY <1>2, <2>5, <2>6, <2>7 DEF InputFades, LiveRunKeepsItsInput
  <2> QED
    BY <1>1, <2>4, <2>8, SameSteers DEF Fade
<1> QED
  BY <1>2, <1>3, <1>4

LEMMA QueueFades ==
    ASSUME CInv, NEW w \in Workers, QueueStep(w)
    PROVE  Fade \/ \E r \in Runs : Creates(r)
<1> USE DEF CInv, IInv
<1>1. CASE Dispatch(w)
  <2>1. req' = req
    BY <1>1 DEF Dispatch
  <2>2. CASE ClaimNothing
    <3>1. run' = run /\ input' = input
      BY <2>2 DEF ClaimNothing
    <3> QED
      BY <2>1, <3>1, NoRowFades, NoInputFades, SameSteers DEF Fade
  <2>3. CASE ClaimNext(w)
    <3>1. PICK r \in Runs, i \in Inputs :
             /\ NextPending(i)
             /\ CreateRun(r, "queue", NoRun)
             /\ input' = [input EXCEPT ![i].status = "claimed", ![i].run = r]
      BY <2>3 DEF ClaimNext
    <3>2. input[i].status = "pending"
      BY <3>1 DEF NextPending, Pending
    <3>3. /\ input'[i].status = "claimed" /\ input'[i].run = r
          /\ \A j \in Inputs \ {i} : input'[j] = input[j]
      BY <3>1 DEF TypeOK, InputRow
    <3>4. \A p \in Runs : ~Unacknowledged(p)
      BY <2>3 DEF ClaimNext
    <3> QED
      BY <2>1, <3>1, <3>2, <3>3, <3>4, CreatesBound
  <2> QED
    BY <1>1, <2>2, <2>3 DEF Dispatch
<1>2. CASE RecoverScan(w)
  <2>1. run' = run /\ input' = input /\ req' = req
    BY <1>2 DEF RecoverScan, db
  <2> QED
    BY <2>1, NoRowFades, NoInputFades, SameSteers DEF Fade
<1>3. CASE Sweep(w)
  <2>1. input' = input /\ req' = req
    BY <1>3 DEF Sweep, local
  <2>2. ASSUME NEW r \in Runs
        PROVE  LET new == Terminated(run[r], "stale", NoWorker, FALSE)
               IN  RowFades(run[r], new) /\ new.cancelReq = run[r].cancelReq
    <3>1. run[r] \in RunRow(Runs) /\ "stale" \in TerminalStatuses
      BY DEF TypeOK, TerminalStatuses
    <3> QED
      BY <3>1, TerminatedFades
  <2>3. \A r \in Runs : \/ run'[r] = run[r]
                        \/ run'[r] = Terminated(run[r], "stale", NoWorker, FALSE)
    BY <1>3 DEF Sweep
  <2>4. \A r \in Runs : RowFades(run[r], run[r])
    BY SameFades DEF TypeOK, RowsLive
  <2>5. RowsFade
    BY <2>2, <2>3, <2>4 DEF RowsFade
  <2> QED
    BY <2>1, <2>5, NoInputFades, SameSteers DEF Fade
<1>4. ASSUME NEW r \in Runs, LaunchTask(w, r)
      PROVE  Fade
  <2>1. run' = run /\ input' = input /\ req' = req
    BY <1>4 DEF LaunchTask, db
  <2> QED
    BY <2>1, NoRowFades, NoInputFades, SameSteers DEF Fade
<1> QED
  BY <1>1, <1>2, <1>3, <1>4, FinalizeWorkerlessFades, FailClaimedInputFades DEF QueueStep

LEMMA TaskFades ==
    ASSUME CInv, NEW w \in Workers, NEW r \in Runs, TaskStep(w, r)
    PROVE  Fade
<1> USE DEF CInv, IInv
<1>1. input' = input /\ req' = req
  BY DEF TaskStep, TaskBegin, TaskBeginCanceled, TaskBeginFails, TaskExhausted, TaskCanceled,
         TaskFinalize, TaskWrapUp, TaskCancelAbsorbed, TaskAborted, Heartbeat, HeartbeatCancel,
         HeartbeatDies, db, local
<1>2. RowLive(run[r]) /\ run[r] \in RunRow(Runs)
  BY DEF TypeOK, RowsLive
<1>3. CASE run' = run
  BY <1>1, <1>3, NoRowFades, NoInputFades, SameSteers DEF Fade
<1>4. ASSUME NEW row, run' = [run EXCEPT ![r] = row],
             RowFades(run[r], row), row.cancelReq = run[r].cancelReq
      PROVE  Fade
  <2>1. RowsFade
    BY <1>4, OneRowFades
  <2> QED
    BY <1>1, <2>1, NoInputFades, SameSteers DEF Fade
<1>5. CASE TaskBegin(w, r)
  <2>1. CASE Startable(run[r])
    <3>1. run' = [run EXCEPT ![r] = Started(run[r], w)]
      BY <1>5, <2>1 DEF TaskBegin, Startable
    <3> QED
      BY <1>2, <1>4, <2>1, <3>1, StartedFades
  <2>2. CASE ~Startable(run[r])
    BY <1>3, <1>5, <2>2 DEF TaskBegin
  <2> QED
    BY <2>1, <2>2
<1>6. CASE TaskFinalize(w, r)
  <2>1. RowFades(run[r], Outcome(w, r)) /\ Outcome(w, r).cancelReq = run[r].cancelReq
    <3> DEFINE t == task[w][r]
               eff == EffectiveStatus(run[r], t.fin, w, t.workerless)
    <3>1. \/ Outcome(w, r) = run[r]
          \/ /\ Outcome(w, r) = Terminated(run[r], eff, w, t.workerless)
             /\ eff \in TerminalStatuses
      BY OutcomeRow
    <3>2. t.workerless \in BOOLEAN
      BY DEF TypeOK, TaskState
    <3> HIDE DEF eff
    <3> QED
      BY <1>2, <3>1, <3>2, SameFades, TerminatedFades
  <2> QED
    BY <1>3, <1>4, <1>6, <2>1 DEF TaskFinalize
<1>7. CASE Heartbeat(w, r)
  <2>1. run' = [run EXCEPT ![r] = [run[r] EXCEPT !.old = FALSE]]
    BY <1>7 DEF Heartbeat
  <2> QED
    BY <1>2, <1>4, <2>1, AgeFades
<1>8. CASE BeginRaises(w, r)
  <2>1. CASE Startable(run[r]) /\ run' = [run EXCEPT ![r] = Started(run[r], w)]
    BY <1>2, <1>4, <2>1, StartedFades
  <2> QED
    BY <1>3, <1>8, <2>1 DEF BeginRaises
<1> QED
  BY <1>3, <1>5, <1>6, <1>7, <1>8
  DEF TaskStep, TaskBeginCanceled, TaskBeginFails, TaskExhausted, TaskCanceled,
      TaskWrapUp, TaskCancelAbsorbed, TaskAborted, HeartbeatCancel, HeartbeatDies, db

LEMMA StepFades ==
    ASSUME CInv, Next
    PROVE  \/ Fade
           \/ \E r \in Runs : Creates(r)
           \/ \E w \in Workers, i \in Inputs : SteerRead(w, i)
<1>1. ASSUME NEW r \in Runs, Age(r) PROVE Fade
  <2>1. RowLive(run[r]) /\ run[r] \in RunRow(Runs)
    BY DEF CInv, IInv, TypeOK, RowsLive
  <2>2. run' = [run EXCEPT ![r] = [run[r] EXCEPT !.old = TRUE]] /\ input' = input /\ req' = req
    BY <1>1 DEF Age, local
  <2>3. RowsFade
    BY <2>1, <2>2, AgeFades, OneRowFades
  <2> QED
    BY <2>2, <2>3, NoInputFades, SameSteers DEF Fade
<1> QED
  BY <1>1, ProcessFades, RequestFades, QueueFades, TaskFades DEF Next

-----------------------------------------------------------------------------
(* A step that only fades keeps what the conversation lock protects.       *)

Locked ==
    /\ RowsLive /\ OneActive /\ SteerHolds /\ RequestsAnswered
    /\ InputsBound /\ LiveRunKeepsItsInput /\ ResumedOnce

LEMMA FadeKeepsRows ==
    ASSUME CInv, Fade
    PROVE  (RowsLive /\ OneActive /\ SteerHolds /\ RequestsAnswered /\ ResumedOnce)'
<1> USE DEF CInv, Fade
<1>1. \A r \in Runs : RowFades(run[r], run'[r])
  BY DEF RowsFade
<1>2. RowsLive'
  BY <1>1 DEF RowsLive, RowLive, RowFades
<1>3. OneActive'
  BY <1>1 DEF OneActive, RowFades
<1>4. SteerHolds'
  BY <1>1 DEF SteerHolds, SteersKept, RowFades
<1>5. RequestsAnswered'
  <2> SUFFICES ASSUME NEW r \in Runs, NEW p \in Runs,
                      run'[r].active, run'[r].via = "queue", p # r, run'[p].cancelReq
               PROVE  run'[p].ack
    BY DEF RequestsAnswered
  <2>1. run[r].active /\ run[r].via = "queue"
    BY <1>1 DEF RowFades
  <2>2. ~run[p].active
    BY <2>1 DEF OneActive
  <2>3. \A w \in Workers : ~Steers(w, p)
    BY <2>1 DEF SteerHolds, Steers
  <2>4. run[p].cancelReq
    BY <2>2, <2>3 DEF RowsFade
  <2>5. run[p].ack
    BY <2>1, <2>4 DEF RequestsAnswered
  <2> QED
    BY <1>1, <2>5 DEF RowFades
<1>6. ResumedOnce'
  BY <1>1 DEF ResumedOnce, RowFades
<1> QED
  BY <1>2, <1>3, <1>4, <1>5, <1>6

LEMMA FadeKeepsInputs ==
    ASSUME CInv, Fade
    PROVE  (InputsBound /\ LiveRunKeepsItsInput)'
<1> USE DEF CInv, IInv, Fade
<1>1. \A r \in Runs : RowFades(run[r], run'[r])
  BY DEF RowsFade
<1>2. \A i \in Inputs : input[i].run \in Runs \cup {NoRun}
  BY DEF TypeOK, InputRow
<1>3. \A i \in Inputs : input'[i].run # NoRun => input'[i].run = input[i].run
  BY DEF InputFades
<1>4. InputsBound'
  BY <1>1, <1>2, <1>3 DEF InputsBound, RowFades
<1>5. ASSUME NEW r \in Runs, run'[r].via \in {"direct", "queue"},
             run'[r].status \in {"queued", "running"}
      PROVE  \E i \in Inputs : input'[i].status = "claimed" /\ input'[i].run = r
  <2>1. run[r].via \in {"direct", "queue"} /\ run[r].status \in {"queued", "running"}
    BY <1>1, <1>5 DEF RowFades
  <2>2. PICK i \in Inputs : input[i].status = "claimed" /\ input[i].run = r
    BY <2>1 DEF LiveRunKeepsItsInput
  <2>3. input'[i].status = "claimed" /\ input'[i].run = r
    BY <1>5, <2>2 DEF InputFades
  <2> QED
    BY <2>3
<1>6. \A i \in Inputs : input'[i].run # NoRun <=> input'[i].status \in {"claimed", "failed"}
  BY DEF InputFades
<1>7. \A i, j \in Inputs : input'[i].run # NoRun /\ input'[i].run = input'[j].run => i = j
  BY <1>3 DEF LiveRunKeepsItsInput
<1> QED
  BY <1>4, <1>5, <1>6, <1>7 DEF LiveRunKeepsItsInput

(* So does the creation of a run: it finds no other active, no handler     *)
(* with the lock and, if the queue creates it, no request unanswered.      *)
LEMMA CreateKeepsLocked == ASSUME CInv, NEW r \in Runs, Creates(r) PROVE Locked'
<1> USE DEF CInv, IInv
<1>1. PICK via \in {"direct", "queue", "fork", "resume"}, parent \in Runs \cup {NoRun} :
         /\ run' = [run EXCEPT ![r] = QueuedRow(via, parent)]
         /\ parent # NoRun => \A c \in Runs : run[c].parent # parent
         /\ via = "queue" => \A p \in Runs : ~Unacknowledged(p)
         /\ \/ via \in {"fork", "resume"} /\ input' = input
            \/ \E i \in Inputs :
                  /\ input[i].status \in {"absent", "pending"}
                  /\ input'[i].status = "claimed" /\ input'[i].run = r
                  /\ \A j \in Inputs \ {i} : input'[j] = input[j]
  BY DEF Creates
<1>2. /\ run'[r].status = "queued" /\ run'[r].active
      /\ run'[r].via = via /\ run'[r].parent = parent
  BY <1>1 DEF TypeOK, QueuedRow, AbsentRow
<1>3. \A q \in Runs \ {r} : run'[q] = run[q] /\ ~run[q].active
  BY <1>1 DEF Creates, NoActiveRun
<1>4. run[r].status = "absent"
  BY DEF Creates
<1>5. RowsLive'
  BY <1>2, <1>3 DEF RowsLive, RowLive
<1>6. OneActive'
  BY <1>3 DEF OneActive
<1>7. SteerHolds'
  BY DEF Creates, LockFree, SteerHolds
<1>8. RequestsAnswered'
  BY <1>1, <1>2, <1>3 DEF RequestsAnswered, Unacknowledged
<1>9. ResumedOnce'
  BY <1>1, <1>2, <1>3 DEF ResumedOnce
<1>10. \A i \in Inputs : input[i].run # r
  BY <1>4 DEF InputsBound, Runs, NoRun
<1>11. CASE via \in {"fork", "resume"} /\ input' = input
  <2>1. InputsBound'
    BY <1>2, <1>3, <1>10, <1>11 DEF InputsBound, TypeOK, InputRow
  <2>2. LiveRunKeepsItsInput'
    BY <1>2, <1>3, <1>11 DEF LiveRunKeepsItsInput
  <2> QED
    BY <1>5, <1>6, <1>7, <1>8, <1>9, <2>1, <2>2 DEF Locked
<1>12. ASSUME NEW i \in Inputs,
              input[i].status \in {"absent", "pending"},
              input'[i].status = "claimed", input'[i].run = r,
              \A j \in Inputs \ {i} : input'[j] = input[j]
       PROVE  Locked'
  <2>1. r # NoRun
    BY DEF Runs, NoRun
  <2>2. InputsBound'
    BY <1>2, <1>3, <1>10, <1>12 DEF InputsBound, TypeOK, InputRow
  <2>3. ASSUME NEW q \in Runs, run'[q].via \in {"direct", "queue"},
               run'[q].status \in {"queued", "running"}
        PROVE  \E j \in Inputs : input'[j].status = "claimed" /\ input'[j].run = q
    <3>1. CASE q = r
      BY <1>12, <3>1
    <3>2. CASE q # r
      <4>1. run[q].active
        BY <1>3, <2>3, <3>2 DEF RowsLive, RowLive
      <4> QED
        BY <1>3, <3>2, <4>1
    <3> QED
      BY <3>1, <3>2
  <2>4. \A j \in Inputs : input'[j].run # NoRun <=> input'[j].status \in {"claimed", "failed"}
    BY <1>12, <2>1 DEF LiveRunKeepsItsInput
  <2>5. \A j, k \in Inputs : input'[j].run # NoRun /\ input'[j].run = input'[k].run => j = k
    BY <1>10, <1>12 DEF LiveRunKeepsItsInput
  <2>6. LiveRunKeepsItsInput'
    BY <2>3, <2>4, <2>5 DEF LiveRunKeepsItsInput
  <2> QED
    BY <1>5, <1>6, <1>7, <1>8, <1>9, <2>2, <2>6 DEF Locked
<1> QED
  BY <1>1, <1>11, <1>12

(* And the handler that takes the lock, which loads the run it finds       *)
(* active: there is no other.                                              *)
LEMMA SteerReadKeepsLocked ==
    ASSUME CInv, NEW w \in Workers, NEW i \in Inputs, SteerRead(w, i)
    PROVE  Locked'
<1> USE DEF CInv, IInv
<1>1. run' = run /\ input' = input
  BY DEF SteerRead, db
<1>2. PICK r \in Runs : /\ run[r].active
                        /\ req' = [req EXCEPT ![w] = [kind |-> "steer", run |-> r, input |-> i,
                                                      seen |-> run[r].status]]
  BY DEF SteerRead
<1>3. req'[w].kind = "steer" /\ req'[w].run = r /\ req'[w].input = i
  BY <1>2 DEF TypeOK
<1>4. \A v \in Workers \ {w} : req'[v] = req[v] /\ req[v].kind # "steer"
  BY <1>2 DEF TypeOK, SteerRead, LockFree
<1>5. input[i].status \in {"absent", "pending"}
  BY DEF SteerRead, NextInputId, Pending
<1>6. \A q \in Runs : run[q].active => q = r
  BY <1>2 DEF OneActive
<1>7. SteerHolds'
  BY <1>1, <1>3, <1>4, <1>5, <1>6 DEF SteerHolds
<1>8. (RowsLive /\ OneActive /\ RequestsAnswered /\ ResumedOnce)'
  BY <1>1 DEF RowsLive, OneActive, RequestsAnswered, ResumedOnce
<1>9. (InputsBound /\ LiveRunKeepsItsInput)'
  BY <1>1 DEF InputsBound, LiveRunKeepsItsInput
<1> QED
  BY <1>7, <1>8, <1>9 DEF Locked

LEMMA LockedNext == CInv /\ Next => Locked'
<1> SUFFICES ASSUME CInv, Next PROVE Locked'
  OBVIOUS
<1>1. CASE Fade
  BY <1>1, FadeKeepsRows, FadeKeepsInputs DEF Locked
<1> QED
  BY <1>1, StepFades, CreateKeepsLocked, SteerReadKeepsLocked

-----------------------------------------------------------------------------
(* What the row of an executed run says.                                   *)

Executed(r) == \E w \in Workers : Executing(w, r)

LivesKept == \A r \in Runs : Executed(r) => Lives(r)'

(* A run no worker owns is not executed.                                   *)
LEMMA UnownedIdle ==
    ASSUME IInv, NEW r \in Runs,
           run[r].status \in {"absent", "queued"} \/ run[r].worker = NoWorker
    PROVE  ~Executed(r)
BY NoWorkerAssumption DEF IInv, RowsOK, RowOK, OwnerExecutes, Executed

LEMMA SameLives == ASSUME CInv, run' = run PROVE LivesKept
BY DEF CInv, ExecutedLives, LivesKept, Executed, Lives

LEMMA OneRowLives ==
    ASSUME CInv, NEW r, NEW row, run' = [run EXCEPT ![r] = row],
           r \in Runs /\ Executed(r) => row.active \/ row.status \in LostStatuses
    PROVE  LivesKept
BY DEF CInv, IInv, TypeOK, ExecutedLives, LivesKept, Executed, Lives

LEMMA CancelRequestedLives ==
    ASSUME CInv, NEW r \in Runs, NEW seen, NEW why \in CancelReasons, Executed(r)
    PROVE  LET new == CancelRequested(run[r], seen, why)
           IN  new.active \/ new.status \in LostStatuses
<1>1. run[r] \in RunRow(Runs) /\ Lives(r)
  BY DEF CInv, IInv, TypeOK, ExecutedLives, Executed
<1>2. \/ CancelRequested(run[r], seen, why) = run[r]
      \/ CancelRequested(run[r], seen, why).status = "canceling"
  BY <1>1, CancelRequestedRow
<1> QED
  BY <1>1, <1>2 DEF Lives, LostStatuses

LEMMA GivenUpLives ==
    ASSUME NEW row \in RunRow(Runs)
    PROVE  Terminated(row, "stale", NoWorker, FALSE).status \in LostStatuses
BY TerminatedFades DEF TerminalStatuses, LostStatuses

(* The outcome of another task than the one that executes the run gives it *)
(* up as stale or records a failure at most: only the owner may acknowledge *)
(* a cancellation, and only the owner has an answer to write.              *)
LEMMA FinalizeLives ==
    ASSUME CInv, NEW w \in Workers, NEW r \in Runs, TaskFinalize(w, r),
           run' = [run EXCEPT ![r] = Outcome(w, r)]
    PROVE  LivesKept
<1> USE DEF CInv, IInv
<1> DEFINE t == task[w][r]
           eff == EffectiveStatus(run[r], t.fin, w, t.workerless)
<1> SUFFICES ASSUME Executed(r)
             PROVE  Outcome(w, r).active \/ Outcome(w, r).status \in LostStatuses
  BY OneRowLives
<1>1. PICK v \in Workers : Executing(v, r)
  BY DEF Executed
<1>2. run[r].worker = v /\ v # w
  BY <1>1 DEF OwnerExecutes, TaskFinalize, Executing
<1>3. ~MayAcknowledge(run[r], w, t.workerless)
  BY <1>2, NoWorkerAssumption DEF MayAcknowledge
<1>4. eff = t.fin
  BY <1>3 DEF EffectiveStatus
<1>5. t.fin = "canceled" \/ t.fin \in LostStatuses
  BY <1>2 DEF AnswerIsOwners, TaskFinalize, IsAnswer, LostStatuses
<1>6. CASE Outcome(w, r) = run[r]
  BY <1>1, <1>6 DEF ExecutedLives, Lives
<1>7. CASE Outcome(w, r) # run[r]
  <2>1. /\ Outcome(w, r) = Terminated(run[r], eff, w, t.workerless)
        /\ CanTerminate(run[r], eff, w, t.workerless)
        /\ eff \in TerminalStatuses
    BY <1>7, OutcomeRow
  <2>2. ~run[r].cancelReq
    BY <1>3, <2>1, NoWorkerAssumption DEF CanTerminate
  <2>3. run[r].status # "canceling"
    BY <2>2 DEF RowsOK, RowOK
  <2>4. eff # "canceled"
    BY <2>1, <2>3 DEF CanTerminate, Allowed
  <2>5. run[r] \in RunRow(Runs) /\ t.workerless \in BOOLEAN
    BY DEF TypeOK, TaskState
  <2> HIDE DEF eff
  <2>6. Outcome(w, r).status = eff
    BY <2>1, <2>5, TerminatedFades
  <2>7. eff \in LostStatuses
    BY <1>4, <1>5, <2>4
  <2> QED
    BY <2>6, <2>7
<1> QED
  BY <1>6, <1>7

LEMMA ProcessLives == ASSUME CInv, NEW w \in Workers, ProcessStep(w) PROVE LivesKept
<1>1. CASE Boot(w) \/ Crash(w) \/ CancelForShutdown(w)
  BY <1>1, SameLives DEF Boot, Crash, CancelForShutdown, db
<1>2. CASE PersistShutdownIntent(w)
  <2> SUFFICES ASSUME NEW r \in Runs, Executed(r) PROVE Lives(r)'
    BY DEF LivesKept
  <2>1. LET new == CancelRequested(run[r], run[r].status, "shutdown")
        IN  new.active \/ new.status \in LostStatuses
    BY CancelRequestedLives DEF CancelReasons
  <2>2. \/ run'[r] = run[r]
        \/ run'[r] = CancelRequested(run[r], run[r].status, "shutdown")
    BY <1>2 DEF PersistShutdownIntent
  <2>3. Lives(r)
    BY DEF CInv, ExecutedLives, Executed
  <2> QED
    BY <2>1, <2>2, <2>3 DEF Lives
<1> QED
  BY <1>1, <1>2 DEF ProcessStep

LEMMA RequestLives == ASSUME CInv, NEW w \in Workers, RequestStep(w) PROVE LivesKept
<1>1. ASSUME NEW r \in Runs, NEW via, NEW parent, CreateRun(r, via, parent)
      PROVE  LivesKept
  <2>1. ~Executed(r)
    BY <1>1, UnownedIdle DEF CreateRun, NextRunId, CInv
  <2> QED
    BY <1>1, <2>1, OneRowLives DEF CreateRun
<1>2. CASE SteerCommit(w)
  <2>1. req[w].run \in Runs /\ Executed(req[w].run) =>
          LET new == CancelRequested(run[req[w].run], req[w].seen, "user")
          IN  new.active \/ new.status \in LostStatuses
    BY CancelRequestedLives DEF CancelReasons
  <2> QED
    BY <1>2, <2>1, OneRowLives DEF SteerCommit
<1>3. CASE AttachMarkStale(w)
  <2>1. \A r \in Runs : Terminated(run[r], "stale", NoWorker, FALSE).status \in LostStatuses
    BY GivenUpLives DEF CInv, IInv, TypeOK
  <2>2. run' = [run EXCEPT ![req[w].run] = Terminated(run[req[w].run], "stale", NoWorker, FALSE)]
    BY <1>3 DEF AttachMarkStale
  <2> QED
    BY <2>1, <2>2, OneRowLives
<1>4. ASSUME NEW r \in Runs, Stop(w, r)
      PROVE  LivesKept
  <2>1. Executed(r) => LET new == CancelRequested(run[r], run[r].status, "user")
                       IN  new.active \/ new.status \in LostStatuses
    BY CancelRequestedLives DEF CancelReasons
  <2> QED
    BY <1>4, <2>1, OneRowLives DEF Stop
<1>5. CASE run' = run
  BY <1>5, SameLives
<1> QED
  BY <1>1, <1>2, <1>3, <1>4, <1>5
  DEF RequestStep, StartDirect, StartFork, Resume, Enqueue, ResumeQueue, PromoteIdle,
      SteerRead, DeleteInput, CancelLocalTask, AttachRead, db

LEMMA QueueLives == ASSUME CInv, NEW w \in Workers, QueueStep(w) PROVE LivesKept
<1>1. CASE Dispatch(w)
  <2>1. CASE ClaimNothing
    BY <2>1, SameLives DEF ClaimNothing
  <2>2. CASE ClaimNext(w)
    <3>1. PICK r \in Runs : CreateRun(r, "queue", NoRun)
      BY <2>2 DEF ClaimNext
    <3>2. ~Executed(r)
      BY <3>1, UnownedIdle DEF CreateRun, NextRunId, CInv
    <3> QED
      BY <3>1, <3>2, OneRowLives DEF CreateRun
  <2> QED
    BY <1>1, <2>1, <2>2 DEF Dispatch
<1>2. CASE Sweep(w)
  <2> SUFFICES ASSUME NEW r \in Runs, Executed(r) PROVE Lives(r)'
    BY DEF LivesKept
  <2>1. Terminated(run[r], "stale", NoWorker, FALSE).status \in LostStatuses
    BY GivenUpLives DEF CInv, IInv, TypeOK
  <2>2. run'[r] = run[r] \/ run'[r] = Terminated(run[r], "stale", NoWorker, FALSE)
    BY <1>2 DEF Sweep
  <2>3. Lives(r)
    BY DEF CInv, ExecutedLives, Executed
  <2> QED
    BY <2>1, <2>2, <2>3 DEF Lives
<1>3. ASSUME NEW r \in Runs, FinalizeWorkerless(w, r)
      PROVE  LivesKept
  <2>1. ~Executed(r)
    BY <1>3, UnownedIdle DEF FinalizeWorkerless, WorkerlessCancel, CInv
  <2> QED
    BY <1>3, <2>1, OneRowLives DEF FinalizeWorkerless
<1>4. ASSUME NEW r \in Runs, FailClaimedInput(w, r)
      PROVE  LivesKept
  <2>1. CASE run[r].status = "queued"
    <3>1. ~Executed(r)
      BY <2>1, UnownedIdle DEF CInv
    <3> QED
      BY <1>4, <2>1, <3>1, OneRowLives DEF FailClaimedInput
  <2>2. CASE run[r].status # "queued"
    BY <1>4, <2>2, SameLives DEF FailClaimedInput
  <2> QED
    BY <2>1, <2>2
<1> QED
  BY <1>1, <1>2, <1>3, <1>4, SameLives DEF QueueStep, RecoverScan, LaunchTask, db

LEMMA TaskLives == ASSUME CInv, NEW w \in Workers, NEW r \in Runs, TaskStep(w, r) PROVE LivesKept
<1>1. CASE TaskBegin(w, r)
  <2>1. CASE Startable(run[r])
    <3>1. ~Executed(r)
      BY <2>1, UnownedIdle DEF Startable, CInv
    <3> QED
      BY <1>1, <2>1, <3>1, OneRowLives DEF TaskBegin, Startable
  <2>2. CASE ~Startable(run[r])
    BY <1>1, <2>2, SameLives DEF TaskBegin
  <2> QED
    BY <2>1, <2>2
<1>2. CASE TaskFinalize(w, r)
  BY <1>2, FinalizeLives, SameLives DEF TaskFinalize
<1>3. CASE Heartbeat(w, r)
  <2>1. run[r].active /\ run[r] \in RunRow(Runs)
    BY <1>3 DEF Heartbeat, CInv, IInv, TypeOK
  <2>2. [run[r] EXCEPT !.old = FALSE].active
    BY <2>1 DEF RunRow
  <2>3. run' = [run EXCEPT ![r] = [run[r] EXCEPT !.old = FALSE]]
    BY <1>3 DEF Heartbeat
  <2> QED
    BY <2>2, <2>3, OneRowLives
<1>4. CASE BeginRaises(w, r)
  <2>1. CASE Startable(run[r]) /\ run' = [run EXCEPT ![r] = Started(run[r], w)]
    <3>1. ~Executed(r)
      BY <2>1, UnownedIdle DEF Startable, CInv
    <3> QED
      BY <2>1, <3>1, OneRowLives
  <2> QED
    BY <1>4, <2>1, SameLives DEF BeginRaises
<1> QED
  BY <1>1, <1>2, <1>3, <1>4, SameLives
  DEF TaskStep, TaskBeginCanceled, TaskBeginFails, TaskExhausted, TaskCanceled,
      TaskWrapUp, TaskCancelAbsorbed, TaskAborted, HeartbeatCancel, HeartbeatDies, db

LEMMA ExecutedLivesNext == CInv /\ Next => ExecutedLives'
<1> SUFFICES ASSUME CInv, Next PROVE ExecutedLives'
  OBVIOUS
<1>1. ASSUME NEW r \in Runs, Age(r) PROVE LivesKept
  <2>1. run[r] \in RunRow(Runs)
    BY DEF CInv, IInv, TypeOK
  <2>2. LET new == [run[r] EXCEPT !.old = TRUE]
        IN  new.active = run[r].active /\ new.status = run[r].status
    BY <2>1 DEF RunRow
  <2>3. Executed(r) => Lives(r)
    BY DEF CInv, ExecutedLives, Executed
  <2>4. run' = [run EXCEPT ![r] = [run[r] EXCEPT !.old = TRUE]]
    BY <1>1 DEF Age
  <2> QED
    BY <2>2, <2>3, <2>4, OneRowLives DEF Lives
<1>2. LivesKept
  BY <1>1, ProcessLives, RequestLives, QueueLives, TaskLives DEF Next
<1>3. ASSUME NEW w \in Workers, NEW r \in Runs, Executing(w, r)'
      PROVE  Executing(w, r) \/ Starts(w, r)
  <2>1. IInv
    BY DEF CInv
  <2>2. CASE Quiet
    BY <1>3, <2>2 DEF Quiet, NoneStarts
  <2>3. ASSUME NEW v \in Workers, NEW q \in Runs, Starts(v, q)
        PROVE  Executing(w, r) \/ Starts(w, r)
    BY <1>3, <2>1, <2>3, StartEffect
  <2>4. ASSUME NEW q \in Runs, Settles(q)
        PROVE  Executing(w, r)
    BY <1>3, <2>1, <2>4, SettleEffect
  <2> QED
    BY <2>1, <2>2, <2>3, <2>4, StepKinds
<1>4. ASSUME NEW w \in Workers, NEW r \in Runs, Starts(w, r)
      PROVE  Lives(r)'
  <2>1. run'[r] = Started(run[r], w) /\ run[r] \in RunRow(Runs) /\ RowLive(run[r])
    BY <1>4 DEF Starts, CInv, IInv, TypeOK, RowsLive
  <2>2. run'[r].active
    BY <1>4, <2>1, StartedFades DEF Starts
  <2> QED
    BY <2>2 DEF Lives
<1> QED
  BY <1>2, <1>3, <1>4 DEF ExecutedLives, LivesKept, Executed

-----------------------------------------------------------------------------
(* Whose answer it is.                                                     *)

AnswerFrom(w, r, t) ==
    t.pc = "final" /\ IsAnswer(t.fin) =>
        Executing(w, r) \/ (task[w][r].pc = "final" /\ task[w][r].fin = t.fin)

AnswersKept == \A w \in Workers, r \in Runs : AnswerFrom(w, r, task'[w][r])

LEMMA SameAnswers == ASSUME task' = task PROVE AnswersKept
BY DEF AnswersKept, AnswerFrom

LEMMA OneTaskAnswers ==
    ASSUME TypeOK, NEW w \in Workers, NEW r \in Runs, NEW t,
           task' = [task EXCEPT ![w][r] = t], AnswerFrom(w, r, t)
    PROVE  AnswersKept
BY DEF TypeOK, AnswersKept, AnswerFrom

LEMMA PokedAnswers ==
    ASSUME NEW t \in TaskState, NEW why
    PROVE  Poked(t, why).pc = t.pc /\ Poked(t, why).fin = t.fin
BY DEF Poked, TaskState

LEMMA TaskAnswers ==
    ASSUME TypeOK, NEW w \in Workers, NEW r \in Runs, TaskStep(w, r)
    PROVE  AnswersKept
<1>1. task[w][r] \in TaskState
  BY DEF TypeOK
<1>2. NoTask.pc = "none" /\ [NoTask EXCEPT !.pc = "wrap"].pc = "wrap"
  BY DEF NoTask
<1>3. ASSUME NEW t, SetTask(w, r, t), AnswerFrom(w, r, t)
      PROVE  AnswersKept
  BY <1>3, OneTaskAnswers DEF SetTask
<1>4. AnswerFrom(w, r, NoTask) /\ AnswerFrom(w, r, [NoTask EXCEPT !.pc = "wrap"])
  BY <1>2 DEF AnswerFrom
<1>5. CASE TaskBegin(w, r)
  <2>1. [task[w][r] EXCEPT !.pc = "exec"].pc = "exec"
    BY <1>1 DEF TaskState
  <2>2. [task[w][r] EXCEPT !.pc = "final", !.fin = "canceled", !.workerless = TRUE].fin = "canceled"
    BY <1>1 DEF TaskState
  <2>3. AnswerFrom(w, r, [task[w][r] EXCEPT !.pc = "exec"])
    BY <2>1 DEF AnswerFrom
  <2>4. AnswerFrom(w, r, [task[w][r] EXCEPT !.pc = "final", !.fin = "canceled",
                                            !.workerless = TRUE])
    BY <2>2 DEF AnswerFrom, IsAnswer
  <2> QED
    BY <1>3, <1>4, <1>5, <2>3, <2>4 DEF TaskBegin
<1>6. CASE TaskBeginCanceled(w, r)
  <2> DEFINE fin == CanceledOutcome(task[w][r].cancel)
  <2>1. fin \in {"canceled", "stale"}
    BY DEF CanceledOutcome
  <2> HIDE DEF fin
  <2>2. [task[w][r] EXCEPT !.pc = "final", !.cancel = "no", !.fin = fin].fin = fin
    BY <1>1 DEF TaskState
  <2>3. AnswerFrom(w, r, [task[w][r] EXCEPT !.pc = "final", !.cancel = "no", !.fin = fin])
    BY <2>1, <2>2 DEF AnswerFrom, IsAnswer
  <2> QED
    BY <1>3, <1>4, <1>6, <2>3 DEF TaskBeginCanceled, fin
<1>11. CASE TaskBeginFails(w, r)
  <2> DEFINE t == [task[w][r] EXCEPT !.pc = "final", !.fin = "failed"]
  <2>1. t.fin = "failed"
    BY <1>1 DEF TaskState
  <2>2. "failed" \in LostStatuses
    BY <1>11 DEF TaskBeginFails, LostStatuses
  <2>3. AnswerFrom(w, r, t)
    BY <2>1, <2>2 DEF AnswerFrom, IsAnswer
  <2> QED
    BY <1>3, <1>11, <2>3 DEF TaskBeginFails
<1>12. CASE TaskCancelAbsorbed(w, r)
  <2>1. PICK fin \in {task[w][r].fin, CanceledOutcome(task[w][r].cancel)} :
           SetTask(w, r, [task[w][r] EXCEPT !.cancel = "no", !.fin = fin])
    BY <1>12 DEF TaskCancelAbsorbed
  <2> DEFINE t == [task[w][r] EXCEPT !.cancel = "no", !.fin = fin]
  <2>2. task[w][r].pc = "final" /\ t.fin = fin
    BY <1>1, <1>12 DEF TaskState, TaskCancelAbsorbed
  <2>3. AnswerFrom(w, r, t)
    BY <2>2 DEF AnswerFrom, IsAnswer, CanceledOutcome
  <2> QED
    BY <1>3, <2>1, <2>3
<1>7. CASE TaskExhausted(w, r) \/ TaskCanceled(w, r)
  <2>1. Executing(w, r)
    BY <1>7 DEF TaskExhausted, TaskCanceled
  <2>2. \A t : AnswerFrom(w, r, t)
    BY <2>1 DEF AnswerFrom
  <2> QED
    BY <1>3, <1>7, <2>2 DEF TaskExhausted, TaskCanceled
<1>8. CASE TaskFinalize(w, r) \/ TaskWrapUp(w, r) \/ TaskAborted(w, r)
  BY <1>3, <1>4, <1>8 DEF TaskFinalize, TaskWrapUp, TaskAborted
<1>9. CASE HeartbeatCancel(w, r) \/ HeartbeatDies(w, r)
  <2>1. Executing(w, r)
    BY <1>9 DEF HeartbeatCancel, HeartbeatDies, Executing
  <2>2. \A t : AnswerFrom(w, r, t)
    BY <2>1 DEF AnswerFrom
  <2> QED
    BY <1>3, <1>9, <2>2 DEF HeartbeatCancel, HeartbeatDies
<1>10. CASE Heartbeat(w, r)
  BY <1>10, SameAnswers DEF Heartbeat, local
<1> QED
  BY <1>5, <1>6, <1>7, <1>8, <1>9, <1>10, <1>11, <1>12 DEF TaskStep

LEMMA NextAnswers == ASSUME TypeOK, Next PROVE AnswersKept
<1>1. ASSUME NEW w \in Workers, Crash(w)
      PROVE  AnswersKept
  BY <1>1 DEF Crash, AnswersKept, AnswerFrom, TypeOK, NoTask
<1>2. ASSUME NEW w \in Workers, CancelForShutdown(w)
      PROVE  AnswersKept
  <2>1. \A r \in Runs : /\ Poked(task[w][r], "shutdown").pc = task[w][r].pc
                        /\ Poked(task[w][r], "shutdown").fin = task[w][r].fin
    BY PokedAnswers DEF TypeOK
  <2>2. \A v \in Workers, r \in Runs : task'[v][r].pc = task[v][r].pc
                                      /\ task'[v][r].fin = task[v][r].fin
    BY <1>2, <2>1 DEF CancelForShutdown, TypeOK
  <2> QED
    BY <2>2 DEF AnswersKept, AnswerFrom
<1>3. ASSUME NEW w \in Workers, NEW r \in Runs, CancelLocalTask(w, r)
      PROVE  AnswersKept
  <2>1. task' = [task EXCEPT ![w][r] = Poked(task[w][r], "user")]
    BY <1>3 DEF CancelLocalTask, TypeOK
  <2>2. AnswerFrom(w, r, Poked(task[w][r], "user"))
    BY PokedAnswers DEF AnswerFrom, TypeOK
  <2> QED
    BY <2>1, <2>2, OneTaskAnswers
<1>4. ASSUME NEW w \in Workers, NEW r \in Runs, LaunchTask(w, r)
      PROVE  AnswersKept
  <2>1. PICK t \in {NewTask, task[w][r]} : task' = [task EXCEPT ![w][r] = t]
    BY <1>4 DEF LaunchTask, TypeOK
  <2>2. AnswerFrom(w, r, t)
    BY DEF AnswerFrom, NewTask, NoTask
  <2> QED
    BY <2>1, <2>2, OneTaskAnswers
<1>5. ASSUME NEW w \in Workers, ProcessStep(w) \/ RequestStep(w) \/ QueueStep(w)
      PROVE  AnswersKept
  BY <1>1, <1>2, <1>3, <1>4, <1>5, SameAnswers
  DEF ProcessStep, Boot, PersistShutdownIntent, RequestStep, StartDirect, StartFork, Resume,
      Enqueue, SteerCommit, ResumeQueue, AttachMarkStale, PromoteIdle, SteerRead, DeleteInput,
      Stop, AttachRead, QueueStep, Dispatch, RecoverScan, Sweep, FinalizeWorkerless,
      FailClaimedInput, local
<1>6. ASSUME NEW r \in Runs, Age(r)
      PROVE  AnswersKept
  BY <1>6, SameAnswers DEF Age, local
<1> QED
  BY <1>5, <1>6, TaskAnswers DEF Next

LEMMA AnswerIsOwnersNext == CInv /\ Next => AnswerIsOwners'
<1> SUFFICES ASSUME CInv, Next,
                    NEW w \in Workers, NEW r \in Runs,
                    task'[w][r].pc = "final", IsAnswer(task'[w][r].fin)
             PROVE  run'[r].worker = w
  BY DEF AnswerIsOwners
<1>1. IInv /\ TypeOK
  BY DEF CInv, IInv
<1>2. AnswersKept
  BY <1>1, NextAnswers
<1>3. Executing(w, r) \/ (task[w][r].pc = "final" /\ IsAnswer(task[w][r].fin))
  BY <1>2 DEF AnswersKept, AnswerFrom
<1>4. run[r].worker = w
  BY <1>1, <1>3 DEF IInv, OwnerExecutes, CInv, AnswerIsOwners
<1>5. run[r].worker # NoWorker => run'[r].worker = run[r].worker
  <2>1. CASE UNCHANGED vars
    BY <2>1 DEF vars
  <2>2. CASE ~UNCHANGED vars
    BY <1>1, <2>2, NextRestartsNone
  <2> QED
    BY <2>1, <2>2
<1> QED
  BY <1>4, <1>5, NoWorkerAssumption

-----------------------------------------------------------------------------
(* The invariants of the conversation.                                     *)

LEMMA CInvInit == Init => CInv
<1> SUFFICES ASSUME Init PROVE CInv
  OBVIOUS
<1>1. IInv
  BY IInvInit
<1>2. \A r \in Runs : /\ run[r].status = "absent" /\ ~run[r].active /\ run[r].via = "none"
                      /\ run[r].parent = NoRun
  BY DEF Init, AbsentRow
<1>3. \A i \in Inputs : input[i].status = "absent" /\ input[i].run = NoRun
  BY DEF Init, AbsentInput
<1>4. \A w \in Workers : req[w].kind = "none"
  BY DEF Init, NoReq
<1>5. \A w \in Workers, r \in Runs : task[w][r].pc = "none"
  BY DEF Init, NoTask
<1>6. RowsLive /\ OneActive /\ SteerHolds /\ RequestsAnswered /\ InputsBound
  BY <1>2, <1>3, <1>4 DEF RowsLive, RowLive, OneActive, SteerHolds, RequestsAnswered, InputsBound
<1>7. LiveRunKeepsItsInput /\ ResumedOnce
  BY <1>2, <1>3 DEF LiveRunKeepsItsInput, ResumedOnce
<1>8. ExecutedLives /\ AnswerIsOwners
  BY <1>5 DEF ExecutedLives, AnswerIsOwners, Executing
<1> QED
  BY <1>1, <1>6, <1>7, <1>8 DEF CInv

LEMMA CInvNext == CInv /\ [Next]_vars => CInv'
<1> SUFFICES ASSUME CInv, [Next]_vars PROVE CInv'
  OBVIOUS
<1>1. IInv'
  BY IInvNext DEF CInv
<1>2. CASE Next
  BY <1>1, <1>2, LockedNext, ExecutedLivesNext, AnswerIsOwnersNext DEF CInv, Locked
<1>3. CASE UNCHANGED vars
  <2>1. run' = run /\ input' = input /\ req' = req /\ task' = task
    BY <1>3 DEF vars
  <2>2. (RowsLive /\ OneActive /\ RequestsAnswered /\ InputsBound)'
    BY <2>1 DEF CInv, RowsLive, OneActive, RequestsAnswered, InputsBound
  <2>3. (SteerHolds /\ LiveRunKeepsItsInput /\ ResumedOnce)'
    BY <2>1 DEF CInv, SteerHolds, LiveRunKeepsItsInput, ResumedOnce
  <2>4. (ExecutedLives /\ AnswerIsOwners)'
    BY <2>1 DEF CInv, ExecutedLives, Executing, Lives, AnswerIsOwners
  <2> QED
    BY <1>1, <2>2, <2>3, <2>4 DEF CInv
<1> QED
  BY <1>2, <1>3

LEMMA CInvCorrect == Spec => []CInv
<1> QED
  BY CInvInit, CInvNext, PTL DEF Spec

(* A run the queue started never runs beside a predecessor somebody asked  *)
(* to cancel: while it is active every request to cancel another run has   *)
(* been acknowledged, and an acknowledged run is not executed.             *)
THEOREM SuccessorWaits == Spec => []SuccessorWaitsForAck
<1>1. CInv => SuccessorWaitsForAck
  BY DEF CInv, IInv, RequestsAnswered, AcknowledgedIdle, SuccessorWaitsForAck
<1> QED
  BY <1>1, CInvCorrect, PTL

(* Two runs are executed at once only when the server has lost track of    *)
(* one of them: of two executed runs one is not active, and the row of an  *)
(* executed run that is not active says stale, or failed where a second    *)
(* task's first transaction may raise, or that a cancel was written over   *)
(* it.                                                                     *)
THEOREM NoOverlap == Spec => []OverlapOnlyBehindLost
<1>1. CInv => OverlapOnlyBehindLost
  <2> SUFFICES ASSUME CInv, NEW r \in Runs, NEW q \in Runs, r # q,
                      NEW w \in Workers, NEW v \in Workers, Executing(w, r), Executing(v, q)
               PROVE  GivenUp(r) \/ GivenUp(q)
    BY DEF OverlapOnlyBehindLost
  <2>1. Lives(r) /\ Lives(q)
    BY DEF CInv, ExecutedLives
  <2>2. ~run[r].active \/ ~run[q].active
    BY DEF CInv, OneActive
  <2> QED
    BY <2>1, <2>2 DEF Lives, GivenUp, LostStatuses
<1> QED
  BY <1>1, CInvCorrect, PTL

(* A run on its way to an answer keeps the input it was created for, and   *)
(* no input is bound to two runs or two to one.                            *)
THEOREM InputKept == Spec => []LiveRunKeepsItsInput
<1>1. CInv => LiveRunKeepsItsInput
  BY DEF CInv
<1> QED
  BY <1>1, CInvCorrect, PTL

(* An approval is answered at most once, whichever clients answer it.      *)
THEOREM AnsweredOnce == Spec => []ResumedOnce
<1>1. CInv => ResumedOnce
  BY DEF CInv
<1> QED
  BY <1>1, CInvCorrect, PTL
=============================================================================
