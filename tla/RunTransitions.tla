--------------------------- MODULE RunTransitions ---------------------------
(***************************************************************************)
(* The row of table conversation_runs and the rules every writer of it     *)
(* goes through: transition_run, request_cancel_run and the worker's       *)
(* _effective_terminal_status.  Constant-level operators only: the modules *)
(* that model the processes decide when each rule is applied.              *)
(***************************************************************************)
EXTENDS Naturals

CONSTANTS
    Workers,    \* worker_instance_id values, one per server process lifetime
    NoWorker    \* worker_instance_id IS NULL

ASSUME NoWorkerAssumption == NoWorker \notin Workers

-----------------------------------------------------------------------------
(* Statuses of a run; "absent" stands for an id without a row.             *)

ActiveStatuses   == {"queued", "running", "canceling"}
TerminalStatuses == {"completed", "failed", "interrupted", "canceled", "stale"}
RunStatuses      == ActiveStatuses \cup TerminalStatuses \cup {"absent"}

(* Why a cancellation was asked for.  cancel_reason stop and steer are told *)
(* apart by no reader of the column, so both are "user".                    *)
CancelReasons == {"user", "shutdown"}

NoRun == 0      \* parent_run_id IS NULL, run_id IS NULL

(* One row.  via is the path that created it (source and metadata_json):   *)
(* a direct message, the input queue, an edit or regenerate fork, a resume. *)
(* old says that heartbeat_at, started_at or created_at, the first that is  *)
(* set, is past the stale threshold.  No one reads why or old of a run that *)
(* is over, so both are tracked while the status is active only.           *)
RunRow(RunIds) ==
    [status    : RunStatuses,
     active    : BOOLEAN,
     worker    : Workers \cup {NoWorker},
     via       : {"none", "direct", "queue", "fork", "resume"},
     parent    : RunIds \cup {NoRun},
     cancelReq : BOOLEAN,
     why       : CancelReasons,
     ack       : BOOLEAN,
     old       : BOOLEAN]

AbsentRow ==
    [status |-> "absent", active |-> FALSE, worker |-> NoWorker, via |-> "none",
     parent |-> NoRun, cancelReq |-> FALSE, why |-> "user", ack |-> FALSE, old |-> FALSE]

(* The row create_run inserts.                                             *)
QueuedRow(via, parent) ==
    [AbsentRow EXCEPT !.status = "queued", !.active = TRUE, !.via = via, !.parent = parent]

-----------------------------------------------------------------------------
(* ALLOWED_TRANSITIONS.                                                    *)
Allowed(from, to) ==
    \/ from = "queued"    /\ to \in {"running", "failed", "stale", "canceling"}
    \/ from = "running"   /\ to \in {"completed", "failed", "interrupted", "canceling", "stale"}
    \/ from = "canceling" /\ to \in {"canceled", "failed", "stale"}

(* Mutant: any worker may acknowledge, not only the owner.                 *)
MayAcknowledge_AnyWorker(row, ackBy, workerless) == ackBy # NoWorker \/ workerless

(* The two grounds on which a cancellation may be acknowledged: the caller *)
(* is the owning worker, or no worker ever owned the run.                  *)
MayAcknowledge(row, ackBy, workerless) ==
    \/ ackBy # NoWorker /\ row.worker = ackBy
    \/ workerless /\ row.worker = NoWorker

(* transition_run to a terminal status: it raises, and nothing is written, *)
(* when the transition is not allowed or when an acknowledgment is offered *)
(* on neither ground.                                                      *)
CanTerminate(row, to, ackBy, workerless) ==
    /\ Allowed(row.status, to)
    /\ row.cancelReq /\ (ackBy # NoWorker \/ workerless)
           => MayAcknowledge(row, ackBy, workerless)

Terminated(row, to, ackBy, workerless) ==
    [row EXCEPT !.status = to, !.active = FALSE, !.old = FALSE, !.why = "user",
                !.ack = @ \/ (row.cancelReq /\ MayAcknowledge(row, ackBy, workerless))]

(* Mutant: a run that is running may be started again (no row lock).       *)
Startable_Twice(row) == row.status \in {"queued", "running"}

(* Mutant: recovery also starts a run the sweep has given up.              *)
Startable_Stale(row) == row.status \in {"queued", "stale"}

(* _transition_to_running by worker w, under the row lock.                 *)
Startable(row) == row.status = "queued"

Started(row, w) ==
    [row EXCEPT !.status = "running", !.active = TRUE, !.worker = w, !.old = FALSE]

(* request_cancel_run: a no-op on a terminal run and on one already        *)
(* canceling.  seen is the status the session holds for the row, which is  *)
(* what the code tests; the UPDATE then writes the columns it changed.     *)
(* is_active is TRUE in every row a handler has seen active, so the UPDATE *)
(* does not name it.                                                       *)
CancelRequested(row, seen, why) ==
    IF seen \in {"queued", "running"}
    THEN [row EXCEPT !.status = "canceling", !.cancelReq = TRUE, !.why = why]
    ELSE row

(* _effective_terminal_status: a worker about to record the outcome of a   *)
(* run that is being canceled records "canceled", unless it proposes       *)
(* "stale" or may not acknowledge.                                         *)
EffectiveStatus(row, proposed, ackBy, workerless) ==
    IF /\ proposed # "stale"
       /\ row.status = "canceling"
       /\ MayAcknowledge(row, ackBy, workerless)
    THEN "canceled"
    ELSE proposed
=============================================================================
