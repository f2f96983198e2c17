# Verification of the backend's concurrent protocols

TLA+ models, TLC runs and TLAPS proofs for the backend of Agent Project Maker (`src/backend/app`).
Paths below are relative to `src/backend/app` unless they start with `src/`.

Most of the backend is request handlers that read and write rows of one user in one transaction,
and code that builds prompts and agents. The part that is hard to get right by testing is where
several actors act on the same rows over time: *conversation runs*, which outlive their request,
are canceled, queued, resumed, lost with their process and streamed to clients that come and go;
the *input queue* that clients edit while it is dispatched; the *evaluation and optimisation of
agent projects*, with 40 minute jobs, retries by request id and a bootstrap that reads and writes
what people edit; the *skill evaluation worker* with its in-memory queue and leader lock; *scheduled
triggers*, whose runs are claimed by fires and by people at once and end with a copy of the trigger
that may be an hour old; and the *rotation of refresh tokens* by racing tabs. Several server processes act on the same rows, each
step is a transaction or a stretch of a coroutine between awaits, and nearly every handler reads a
row in one step and acts on it in a later one.

## 1. Inventory

| Component | Source | State | Operations | Hard behaviour | Must be true |
|---|---|---|---|---|---|
| Run rows | `services/conversation_run_service.py`, `models/conversation_run.py` | `conversation_runs`: status, `is_active`, worker, cancel request and acknowledgment, heartbeat, parent | `create_run`, `transition_run`, `request_cancel_run`, `heartbeat_run`, stale sweep | read-modify-write by many processes | one active run per conversation; terminal is final; acknowledged means stopped |
| Run worker | `services/conversation_run_worker.py` | `RunTaskRegistry`, the coroutine and its heartbeat task | launch, start, execute, cancel, finalise, shut down | cancellation at every await, including in `finally` | a run is executed by its owner, once; the outcome gets written |
| Queue dispatch and recovery | `services/conversation_run_queue_service.py`, `..._queue_worker.py`, `..._cancellation_recovery.py` | `conversation_run_inputs`, `queue_paused` | enqueue, claim, launch, fail, recover, acknowledge workerless cancels | crash between claim and launch; two dispatchers | inputs and runs stay paired; the queue moves; a successor waits for its predecessor |
| Queue editing | `services/conversation_run_queue_mutations.py`, `..._queue_promotion.py`, `routers/conversation_run_inputs.py` | priority, position, revision of an input | enqueue with replay, edit, delete, reorder, promote, resume | optimistic revisions of clients that saw any earlier state, bulk reorders, the dispatcher | a revision names what was seen; the order is total; a request id is queued and run once |
| Commands | `routers/conversation_agent_protocol_commands.py`, `routers/conversation_run_cancel.py` and the older POST endpoints | none of their own | start (reject, enqueue, interrupt), fork, respond, stop | commit first, then cancel the local task | an approval is answered once |
| Run stream | `routers/conversation_runs.py`, `..._agent_protocol_stale.py` | the client's cursor | attach live, replay, mark stale | broker closed between lookup and subscribe | no unexplained hole; the end is the truth |
| EventBroker | `agent_runtime/event_broker.py` | ring buffer, listener queues, closed flag; the registry of brokers | publish, subscribe, close; evict, cap | slow listeners, evicted cursors | every listener is released |
| Delivery and trace | `agent_runtime/langgraph_event_delivery.py`, `services/conversation_run_terminal_delivery.py`, `services/trace_storage.py` | persist buffer, background flush, held terminal event, stored chunks | emit, flush, retry, close, append | failed and concurrent writes | the trace is in order and ends with the run's end |
| Project evaluation and bootstrap | `services/agent_project_evaluation.py`, `agent_project_semantic.py`, `agent_project_practice.py`, `builder_project_lifecycle.py`, `routers/agent_projects.py` | requirements, plan, stage, evaluation sets, evaluation runs; background jobs in memory | write and judge sets, edit requirements, generate a plan or cases, submit, claim, execute, expire; bootstrap in six stages | what a handler loaded before the project lock; retries; expiry racing a slow worker; a crash in the bootstrap | a run stands on frozen approved cases of the requirements it names; it is executed once; it only moves forward |
| Proposals and regression | `services/agent_project_proposals.py`, `agent_project_service.py` | versions, proposals of a run, decisions, runs of a version | capture, generate, accept, reject, note, regress | two reviewers, retried acceptances, two ways to a regression | versions are a chain; an accepted proposal is one version and one regression; a decision is final |
| Skill evaluation worker | `services/skill_evaluation_worker.py`, `skill_evaluation_worker_*.py`, `skill_evaluation_service.py`, `routers/skill_evaluations.py` | row status, cancel request, usage event; in each process a queue, reserved slots, a loop, tasks; the leader lock | reserve, create, enqueue, cancel; start, reconcile, stop; pop, load, grade, complete, bill | cancellation at any point of the task; takeover; lost lock | a cancelled run is not completed or billed; slots are not lost; one worker per run; the queue moves |
| Refresh tokens | `services/auth_service.py`, `refresh_token_gc.py`, `routers/auth.py` | `refresh_tokens`: revoked, replaced by, expiry | login, rotate, follow a chain, burn, log out, expire, collect | racing tabs; row locks over attributes loaded earlier | chains lead forward; a login has one live token |
| Triggers and their runs | `agent_runtime/trigger_executor.py`, `services/trigger_service.py`, `routers/triggers.py`, `scheduler_runtime.py` | `agent_triggers`: status, counters, limits; `agent_trigger_runs` | fire, run now, claim, refuse, execute, finish; create, update, delete; reconcile | fires and requests at once; rows loaded before an agent ran; dead executors | one run at a time; counters tell what runs did; limits hold; no old copy reactivates a trigger or gives back its limits; a used-up trigger is completed |
| Scheduler | `scheduler.py`, `scheduler_runtime.py` | advisory-lock leadership, jobs | take over, reconcile, run | failover while a job runs | some process leads |
| Others | spend writer, agent construction, marketplace, skills, credentials, MCP, offload storage, frontend | | | | see `components` in PROJECT.json |

How they interact. A *command* commits rows under the conversation's row lock and then calls the
*worker*, which registers a task and a broker. The task's first transaction takes the run
(`queued -> running`); the executor's events go through *delivery* to the *broker* (clients) and
in chunks to the *trace*. The *heartbeat task* keeps the row fresh and notices cancellations
committed by other processes. In its `finally` block the task writes the outcome, together with
the terminal event, announces it, closes the broker, leaves the registry and calls the
*dispatcher*, which claims the next input. The scheduler's leader runs the *recovery* job every
five seconds and the *sweep* every minute; both also run when a process boots.

A *Builder* session creates a project and schedules its *bootstrap*, which generates plan and
benchmark, judges them, and runs the baseline through the same `create_run` and `execute_run` as
people do. Proposals are generated from an ended run; accepting one appends a *version*, whose
regression is again an evaluation run. Skill evaluation and authentication share only the
processes and the database with the rest.

## 2. Modules

| Module | What it is |
|---|---|
| `RunTransitions` | The run row and the rules all writers share: the transition table, the two grounds for an acknowledgment, `transition_run`, `request_cancel_run`, `_effective_terminal_status`. Constant level. |
| `RunLifecycle` | Rows, inputs, pause flag, server processes, tasks, pending launches and suspended handlers of one conversation. 36 actions, one per handler step. |
| `RunContract` | The abstract specification: a run is taken by one worker once, executed by it, and settled only when it is not executed. `RunLifecycle` implements it (`KeepsContract`). |
| `EventStream` | One run's event delivery: delivery, held terminal event, broker, trace, clients. Uses `RunTransitions` for the row. |
| `StreamContract` | The abstract specification of the stream towards its clients: events in order, none twice, one end, the one that was settled. `EventStream` implements it (`KeepsStream`). |
| `InputQueue` | The queue of one conversation with its revisions and positions, any number of clients and the dispatcher. |
| `ProjectEvaluation` | Requirements, plan, sets, runs, background jobs and the bootstrap of one project. |
| `ProjectProposals` | Versions, proposals, decisions and regressions of one project. |
| `SkillEvaluation` | Rows, leader lock, and the memory of each process: queue, slots, loop, tasks. |
| `RefreshTokens` | The tokens of one user and the requests that rotate them, statement by statement. |
| `TriggerRuns` | One scheduled trigger: its row, its runs, the executors, the requests that edit it and the leader's reconciliation. |
| `MCRunLifecycle`, `MCInputQueue` | The symmetry sets for TLC. |
| `RunLifecycleProofs`, `EventStreamProofs`, `InputQueueProofs`, `ProjectEvaluationProofs`, `ProjectProposalsProofs`, `SkillEvaluationProofs`, `RefreshTokensProofs`, `TriggerRunsProofs` | The theorems and their proofs. |

`InputQueue` and `RunLifecycle` overlap on purpose: `RunLifecycle` has the runs in full and inputs
without revisions, `InputQueue` has revisions and positions, and of the runs only whether the last
one is going on, over, or interrupted.

### RunLifecycle: state and actions against the code

* `run`, `input`, `paused` are the tables. `old` abstracts the age of the heartbeat against the
  stale threshold; `via` is the path that created the run; `why` merges the reasons stop and
  steer, which no reader of the column tells apart. `old` and `why` are reset when a run ends,
  because nobody reads them afterwards.
* `task[w][r]` is what process `w`'s registry holds for run `r`: where the coroutine is, its
  `final_status`, and an undelivered `task.cancel()`. `launch[w]` are runs about to be handed to
  `start_conversation_run`; `due[w]` is an outstanding call of
  `dispatch_next_for_conversation`; `req[w]` is the request handler suspended between two awaits.
* A transaction under the conversation lock is one step when everything it writes rests on rows it
  locked. Steering and attaching load the run before the locking select, which does not refresh
  the loaded object, so they are two steps (`SteerRead`/`SteerCommit`,
  `AttachRead`/`AttachMarkStale`), and the second acts on the status seen by the first.
* Requests commit first and cancel the local task afterwards (`CancelLocalTask` is its own step).
* The task: `TaskBegin` (`_transition_to_running` and its answers), `TaskBeginCanceled` (a cancel
  before the first step or inside the first transaction), `TaskBeginFails` (a database error in it:
  `except Exception` leads to `finally` with `failed` as the outcome to write, by a task that has not
  learned whose run it is), `TaskExhausted`/`TaskCanceled` (into `finally`), `TaskFinalize` (the
  locked outcome), `TaskWrapUp` (close, discard, dispatch), `TaskCancelAbsorbed` (a cancel before
  `finally` has got going), `TaskAborted` (a cancel later in `finally`, which nothing catches). A
  first transaction that raises has rolled back, or was applied and only its answer is lost
  (`BeginRaises`). A task is `deaf` once its heartbeat task has died of a
  database error: awaiting that task raises at the top of `finally`, and the rest is skipped.
* `claim_next_input` sets `queue_paused` behind an unacknowledged predecessor, but its caller
  returns without a commit, so `ClaimNothing` changes nothing.
* Processes never come back under the same id (`worker_instance_id` is fresh per process), and the
  last one of `Workers` stays.
* Every live process may run the sweep and the recovery job, a superset of what the leader does.

### EventStream: state and actions against the code

* `Done` stands for whichever terminal event the executor staged (completed, interrupted or
  failed), `Cut` for the event of a canceled run. Events are their positions.
* `phase` is how far `_run_conversation` is. `Emit`/`FlushChunk`/`CloseDelivery` are
  `ProtocolEventDelivery`; `HoldTerminal` is `OwnerTerminalDelivery` swallowing the terminal event;
  `CommitOutcome` writes status and terminal event in one transaction; `AnnounceEnd` publishes it.
* A cancel reaches the executor while it streams (`CancelExecutor`) or while it awaits the close of its
  delivery, on the background flush or on a write of its own, whose chunk may be stored or not
  (`CancelClose`).
* `Publish`, `CloseBroker`, `Subscribe` and `Read` are the broker, with its `deque(maxlen)`, the
  bounded listener queues and the sentinel that displaces the oldest queued event.
* `AttachLive`, `AttachStale`, `AttachReplay` are the branches of `stream_conversation_run`. A
  client asks again with the last event id it received.
* When the timer and length thresholds start a background flush is left open: any time is allowed.
* `told` and `shed` record what a gap marker announced and what the broker dropped from a full
  queue; no action reads them.
* The mapping to `StreamContract`: `last` is the client's cursor, `coming` what its response is going
  to send it (`Coming`: the rest of the snapshot and, of a live response, the queue), and `verdict`
  is settled when the worker commits the end, announces a cancellation or is gone (`Verdict`): no
  client is told before, and a row is not completed before. Losing a connection, being evicted,
  shed, or closed on is a `Route`: it may change what is coming, but only to events that are later
  than the client's last one.

### InputQueue: state and actions against the code

* Every operation holds the conversation's row lock and reads its rows under it, so it is one step.
* `shown[i]` is every row the table ever held for input `i`. A client acts on any of them: answers
  may be delayed, lost or reordered, and requests repeated. `Current(i, seen)` is
  `_pending_input_for_update`: the revision the client sends against the revision of the table.
* An input is known by its client request id, so a repeated enqueue is the `Exists(i)` disjunct of
  `Enqueue`; the 409 for a request id with other contents changes nothing either.
* `FreePosition` is one more than the maximum over *all* rows of the conversation, ended ones
  included; `Reorder` numbers the pending ones from 1 again.
* `Unlaunchable` keeps the link to the run, `Unbind` (the recovery of a workerless cancellation)
  clears it: the CHECK constraint of the table depends on it.

### ProjectEvaluation: state and actions against the code

* A handler loads the project, then takes the project's row lock by an `UPDATE`. The session does
  not expire what it loaded, and only some attributes are refreshed under the lock, so a handler is
  two steps: `Open` stores in `session` what the locked rest will still use, and `Submit`,
  `SaveRequirements`, `SavePlan` and `SaveCases` are the locked rests. Handlers that use only rows
  loaded under the lock (`CreateSet`, `EditSet`, `JudgeSet`, `RemoveSet`) are one step.
* A requirements text is a number (its hash); plans and rubrics are the number of the requirements
  they were generated for. The cases of a set are `sound` or `flawed`, which is all that the
  quality check and the copy into a run tell apart.
* The bootstrap's `progress()` is `BootRefresh` and `BootSave`: a refresh of the requirements and a
  commit of them together with the stage, without the project lock. The advisory lock admits one
  bootstrap at a time (`boot`) and is gone with its process.
* `Claim` is the conditional `UPDATE`; `WorkerEnd` and `BootFinish` write the outcome whatever the
  status is; `Reconciled(old)` is `expire_runs`, in which `old` is any set of unfinished runs.

### ProjectProposals: state and actions against the code

* Rows are known by their place in the order of creation; `parent`, `proposal`, `version` and `run`
  are the references between the three tables.
* Everything is done under the project's lock on rows loaded under it, except the list of decisions
  in `decide`, which is the one loaded before: `Open` and `Record`.
* `Accept` is the first transaction of the accepting request (version, decision, rejected siblings),
  `AutoRegress` its second; the client or the process may go away between them (`Drop`), and
  `Repeat` is the retry. `Regress` is the separate route with a request id of the client's.

### SkillEvaluation: state and actions against the code

* `queue`, `reserved`, `creating`, `loop`, `wake` and `task` are the memory of each process and are
  gone with it; `status`, `requested` and `billed` are the row and its usage event.
* `Reserve`, `CommitRow`, `GiveUp` and `Enqueue` are the route; `GiveUp` may come before or after
  the row is committed. `running` and `grading` are written in one transaction, so the model has
  `grading` only.
* `Load` and `Grade` are two steps: a cancellation between them is overwritten by an `UPDATE` by id.
  `Cancel` and `Complete` are conditional updates.
* `LoseLock` breaks the connection that holds the leader lock without telling its process; `lost` is
  history. A process that did not get the lock at its start never tries again.

### RefreshTokens: state and actions against the code

* A request is one transaction of several statements; `request[u].locks` are the rows it has
  selected `FOR UPDATE`, kept until it ends. `request[u].live` is what its session loaded of the
  chain's head: `Relock` waits for the row's lock but does not reload it, because the row is already
  in the session.
* Tokens are numbered as they are issued. `status` merges `revoked_at` with the race window
  (`revoked` within it, `old` after it). `login` and `forked` are history:
  a login is `forked` once a request has rotated a replacement that another had revoked between its
  load and its lock (`StaleHead`).
* `Collect` is the garbage collection: an expired row goes and the links to it are set to NULL.

### TriggerRuns: state and actions against the code

* `row` is the trigger with the columns that decide something; `present` is false once it is deleted,
  and its runs with it. A run is a record of `runs`; its `behind`, `fit` and `limit` are what was the
  case at its claim, and no action reads them.
* `execute_trigger` holds the row's lock from its first statement to the commit of the inserted run:
  `Enter`, then `Leave` (a run is in flight) or `Look`, then `Start`. From there on it works on
  `executor[e].seen`, the row as first loaded; `Refresh` is the one place that reloads it, when
  `resolve_schedule_conversation` makes the trigger's conversation.
* Sessions do not expire what they have committed, and a commit sets only the columns that the session
  changed: `Written(old, new)`. Every writer goes through it: `Finish` for all ends of a run, `Save`
  and `Sync` for a PATCH, `Reconcile` for the leader. A writer waits for the lock (`locked = NoOne`).
* A fire may come at any time, for a trigger of any status: the leader's jobs lag behind the row, and
  a former leader may fire once more. So schedules, jobs, `max_instances` and the fence in
  `execute_scheduled_trigger` need not be modelled; `next_run_at` is only displayed.
* A refresh after a commit and the commit are one step. That a request may see a row that is newer
  than its commit is covered by `Scan` and `Reconcile`, which do to the row what `Sync` would do.
* `now` counts ticks; `StaleAfter` is the hour after which a run no longer blocks its trigger.

## 3. Runs

All runs finish in under four minutes with two TLC workers. `Offered` and `Faults` switch
optional events off to keep an instance small; `RunLifecycle_takeover` and `EventStream_delivery`
have them all on.

| Run | Instance | Question |
|---|---|---|
| `RunLifecycle_takeover` | 2 processes, 1 run, 1 input, 2 suspended requests, everything offered | Is a run executed by its owner only, once, and stopped when acknowledged (`OwnerExecutes`, `AcknowledgedMeansStopped`, `NeverRestarted`)? Does the protocol implement `RunContract`? |
| `RunLifecycle_handover` | 2 processes, 3 runs, 1 input, steering, first transactions that fail | Does a queued successor wait for the acknowledgment of a canceled predecessor, and do runs overlap only behind one the server has lost track of? |
| `RunLifecycle_history` | 1 process, 3 runs, 2 inputs | Do inputs and runs stay paired, is an approval answered once, and does a pending input move, or is there a reason it does not? |
| `RunLifecycle_recovery` | 2 processes, 1 run, 1 input, stop, steering, fork, crash, shutdown, deaf heartbeat, failed writes | Does an uncanceled run end, and a cancellation of an active run without a worker? |
| `EventStream_delivery` | 1 client, 4 events, ring of 2, queue of 2, all faults | Are holes explained, is the announced end the recorded one, is the trace ordered, is the client released, does the end reach it? Does the stream implement `StreamContract`? |
| `InputQueue_edits` | 3 inputs, 2 texts, client changes up to revision 2 | Does a revision name what was seen, is the order total, is an input run once, whatever is repeated? |
| `ProjectEvaluation_benchmark` | 3 texts of requirements, one set at a time, 1 user, 1 submission with up to 2 jobs, bootstrap, expiry, crash | Does a run stand on approved, frozen cases of the requirements it names, and does one worker execute it, once? |
| `ProjectProposals_review` | 4 versions, 3 runs, 4 proposals from 2 generations, 2 request ids | Are versions a chain, an acceptance one version with one regression, a decision final? |
| `SkillEvaluation_worker` | 2 processes, 2 runs, queue of 1, 1 task at a time, crashes, takeovers, lost lock | Is a cancelled run never completed, are slots accounted for, is a run left to its worker, does the queue move? |
| `RefreshTokens_tabs` | 4 tokens, 2 logins, 2 requests | Do chains lead forward, and has a login one live token until a stale replacement is rotated? |
| `TriggerRuns_fires` | 2 executors, 1 request, 2 runs, limit of 1 or none, 3 instants, end at the last | Are unfinished runs an hour apart, do the counters tell what the runs did, are limits kept, does no commit of a run or of the leader make the trigger active or change its limits, is a used-up trigger completed in the end? |
| `RefreshTokens_orphan` | 4 tokens, 1 login, 2 requests | *Violated:* has a login one live token? |

Why these bounds are enough for the interesting cases.

* `RunLifecycle`: two processes are needed for every takeover (crash, foreign sweep, foreign
  cancel); a third only repeats the second's part. One run per takeover suffices because the rules
  are per run; two runs show a predecessor and its successor; three leave an id to spare for the input
  that steered over the first while the second starts beside it, and show two answers to one approval
  with a run in between. Two inputs show priority against position. In instances of more than one run
  `SpareRunId` stops requests for which there would be no run id left, so that a bound never stands
  in for a blocked queue; with one run it is off, so that the takeover and the recovery run reach
  steering, and neither checks that the queue moves.
* `EventStream`: a ring smaller than the number of events lets a cursor be evicted; a queue of two
  is the smallest from which an event can be shed *and* overtaken.
* `InputQueue`: three inputs let two be reordered around a third that was claimed, deleted or
  enqueued meanwhile; with changes up to revision 2 a row that was shown can be out of date twice
  over, since claims and recoveries raise the revision further.
* `ProjectEvaluation`: with three texts the requirements change twice while one bootstrap or one
  handler is under way. Two jobs for one submission are what a retry makes. One set at a time keeps
  the instance small: sets do not refer to each other, and a run over a set made for other
  requirements still occurs, because the requirements change under it. (Two sets at a time with two
  texts, 4.3 million states, pass as well, in three to five minutes.) One value for `Outcomes`
  suffices because nothing in the code tells one outcome from another.
* `ProjectProposals`: two generations of two drafts give siblings within a run and rival runs of one
  version; four versions allow an acceptance, a capture and another acceptance. One open decision
  request is enough because only its stale list of decisions is kept between steps, and the
  other operations include the retry.
* `SkillEvaluation`: one predecessor and one successor; one slot and one task with two runs let every
  limit be reached.
* `RefreshTokens`: two requests race, and four tokens are a chain whose middle can be collected.
* `TriggerRuns`: two executors race for a claim and one of them can outlive its hour, which is zero
  ticks here, so that two instants before the end give both a blocked and a free second claim. One
  request suffices: it can load, save and synchronise between any two steps of an executor, and the
  next one starts afresh. The user may pause the trigger and change `max_runs`. The pause limit, the
  kind, the end date and reactivation do not vary in this instance and are left to the theorems, which
  cover all of them (instances with those values and one executor pass as well).

`CHECK_DEADLOCK` is off except in `SkillEvaluation_worker`: in the other instances the system really
stops, when ids are used up and every run is over, when the stream has been read to its end, when
every token is gone, or when the trigger is deleted.

### The violation

`RefreshTokens_orphan`: token 1 has been rotated to 2. One tab presents 1, within the grace period, and
loads its replacement 2 without a lock. Another tab presents 2 and rotates it to 3. The first then
locks 2, does not reload it, still sees it live and rotates it again, to 4. The login has two live
tokens, 3 and 4, where the docstring of `rotate_refresh` promises that no orphaned leg is produced.
(Two tabs that present the same token do not get there: its row is held `FOR UPDATE` to the end of the
transaction.) `OneLegUntilStaleHead` says that this is the only way: until a request rotates a
replacement that another had revoked after it was loaded, a login has one live token.

### Further behaviours the models have

These were met while modelling. They are behaviours of the models as they stand, with no property
that would forbid them; the properties named excuse exactly these cases.

* A stop that reaches a task inside its `finally` block ends it before the outcome is written
  (`TaskAborted`): the run stays canceling. `UncanceledRunEnds` speaks of uncanceled runs only.
* When the process of a canceling run dies, no job ends the run: the sweep skips canceling runs.
* Steering writes `canceling` over an outcome that was committed after its first read
  (`SteerRead`/`SteerCommit`): a finished run is canceling again, though no longer active, so another
  run may start beside it. If it was given up as stale while its worker is still at it, two runs are
  executed and neither row says stale; `GivenUp`, and with it `OverlapOnlyBehindLost`, names this
  case, and the dispatcher waits for its acknowledgment (`SuccessorWaitsForAck`).
* The same late write over a run that was swept, or had failed, before any worker started it leaves
  it canceling and inactive for good: `finalize_workerless_cancel_before_start` asks for `is_active`
  (`services/conversation_run_cancellation_recovery.py:22`). `RunLifecycle_recovery` reaches this;
  `WorkerlessCancelEnds` speaks of active runs.
* A run that is launched twice has a second task. When the first transaction of that task raises, it
  writes `failed` over the live run of the other worker, because `transition_run` checks ownership only
  when a cancellation was requested, and dispatches a successor that executes beside it
  (`TaskBeginFails`). `GivenUp` names this case as well.
* Events left out: `RunLifecycle_history` has one process and no steering inputs, forks, attaches,
  crashes, shutdowns, deaf tasks, failures or database errors. `RunLifecycle_handover` has forks,
  steering and failing first transactions and nothing else: of the rest, crashes only end executions,
  and executors that fail or stop for approval end as others do. `RunLifecycle_recovery` has no
  failing first transactions, since endless database errors would keep a run from ever ending, and
  no resumption, promotion, deletion, attaching, approval or unlaunchable input. The safety theorems
  have them all.
* After an outage longer than the stale threshold, the start-up sweep gives up a claimed run before
  recovery sees it, and its input stays claimed.
* The pause that should show a stuck queue is rolled back every time, because the caller of
  `claim_next_input` leaves without a commit.
* An event shed from a full listener queue is never sent, once the client's cursor has passed it;
  `HolesAreExplained` counts it as explained by the shedding.
* The bootstrap reports results over a baseline that is still marked running, or that failed; its
  derived request id returns the failed run on a retry.
* `progress()` of the bootstrap reverts requirements that were committed between its refresh and its
  commit, and the list of decisions loses one that was recorded while `decide` waited for the lock.
* A late worker overwrites the failure that `expire_runs` wrote. `RunMovesForward` allows this one
  change of an end and no other.
* A skill evaluation run that is queued when its process ends, or in a process without the leader
  lock, stays queued until its owner cancels it; an evaluation abandoned by an error that `run_once`
  does not catch stays grading; after a leader has lost its lock unnoticed, a second one may fail the
  runs of the first. `WorkerOwnsItsRun` holds until `lost`.
* Three tabs that race one cookie within the grace period lose it. One rotates 1 to 2, the next follows 1
  to 2 and rotates that to 3, the third follows 1 to 2 and finds it revoked: `_find_race_chain_head`
  wants a live replacement (`services/auth_service.py:239`), so all the user's tokens are burned,
  although the comment at line 284 speaks of following the chain.
* A trigger run's end is computed from the copy its executor loaded: a success completes a trigger that a
  user has paused meanwhile, or by a `max_runs` that was raised meanwhile, and a failure pauses it by
  the old pause limit. `EditsSurvive` says only that no such commit makes the trigger active or writes
  its limits and schedule back.
* A trigger run that is still working after an hour does not block the next one; the commit that comes
  later overwrites the counters of the other. `CountersAgree` and `LimitsKept` speak of histories in
  which this has not happened (`Undisturbed`).
* The reconciliation completes a trigger from the copy it has read, over a limit that was raised
  meanwhile; and a forced run of a paused trigger does not pause it again when a user reactivated it in
  between, because its session changed nothing.

### Fairness

`RunLifecycle`: a process boots; a coroutine that can run does, and an executor ends; a call of the
dispatcher that is outstanding is made. The recovery job, its scan, the workerless acknowledgment
and the sweep keep running on *some* process (`WF_vars(\E w : ...)`), which is what the scheduler's
leader, its failover and the runs at boot provide. A run that no process is beating for gets old.
No client action is fair, no fault is, and heartbeats are not: a stalled process may be given up.

`EventStream`: the worker task runs on; the broker of a task that is gone is collected
(`evict_expired` after the live-age limit); a client comes back and subscribes; and its reads are
strongly fair, that is, its connection does not break every time before anything is read. Stopping,
ageing and faults are not fair.

`SkillEvaluation`: the event loop of a live process runs its loop and its tasks; an evaluation ends,
at the latest by the timeout of the run; a start reconciles and a stop ends by its own timeout.
Starting, crashing, losing the lock and all requests are not fair.

`TriggerRuns`: a claim goes on (`WF` on `Claim`), and some live process leads and reconciles: a used-up
row is read by a pass (`WF` on `Scan`), and the pass gets the row's lock (`SF` on `Reconcile`, since
claims take the lock again and again and the database serves its waiters in turn). Executions, edits and
deaths are not fair, nor is time.

The other modules state no fairness and no liveness.

## 4. Proofs

Each holds for every value of the constants that satisfies the named assumptions of its module
(bounds are naturals, a null value is no row, ids of different kinds are distinct, the set of inputs
is finite, limits are positive).

| Module | Theorems |
|---|---|
| `RunLifecycleProofs` | `TypeCorrect`, `Ownership`, `Acknowledgment`, `NoRestart`, `ContractKept` (the refinement of `RunContract`), `SuccessorWaits`, `NoOverlap`, `InputKept`, `AnsweredOnce` |
| `EventStreamProofs` | `TypeCorrect`, `EndIsTrue`, `TraceStaysOrdered`, `HolesStayExplained`, `StreamKept` (the refinement of `StreamContract`), `EveryoneStaysServed` |
| `InputQueueProofs` | `TypeCorrect`, `RevisionsName`, `TotalOrder`, `OneInput`, `AtMostOnce` |
| `ProjectEvaluationProofs` | `TypeCorrect`, `ApprovedCases`, `RubricFits`, `ExecutedByOne`, `ForwardRuns` |
| `ProjectProposalsProofs` | `TypeCorrect`, `NoBranches`, `OneAcceptance`, `RegressedOnce`, `FinalReview` |
| `SkillEvaluationProofs` | `TypeCorrect`, `CancellationHolds`, `NoSlotLeaks`, `OwnedUntilLost`, `NoLostWakeup` |
| `RefreshTokensProofs` | `TypeCorrect`, `ChainsLead`, `OneLeg` |
| `TriggerRunsProofs` | `TypeCorrect`, `OneRunAtATime`, `CountersAreRight`, `LimitsAreKept`, `EditsAreKept` |

None of the safety properties is inductive by itself; each module has an invariant `IInv`.

**RunLifecycle.** `IInv == TypeOK /\ RowsOK /\ OwnerExecutes /\ AcknowledgedIdle`. `RowsOK` says what
rows can look like: an absent or queued run has no worker, no cancellation request and no
acknowledgment; a canceling run was asked to cancel; a canceled one is acknowledged. It is what
makes a start displace no one, and it survives the lost updates, which *can* turn a finished run
back to `canceling` but never to `queued`. `AcknowledgedIdle` (an acknowledged run is executed by no
process) is the execution half of the acknowledgment; with `RowsOK` it gives
`AcknowledgedMeansStopped`. For the step, the actions fall into three kinds, which the lemmas
`ProcessQuiet`, `RequestQuiet`, `QueueQuiet`, `TaskKinds` and `StepKinds` establish action by
action: a *quiet* step changes no row's worker or acknowledgment and begins no execution; one kind
*starts* a run under the locked transition; one kind *settles* a run that is not being executed.
Each kind preserves the invariant, and each maps to a step of `RunContract` or to a stutter: a start
to `Begin`, a settlement to `Settle`, a crash or the end of an executor to `Halt`.

What the conversation lock protects needs more, in `CInv`: at most one run is active (`OneActive`);
a steering handler that holds the lock keeps every run but the one it has loaded from being active,
and its input from being claimed (`SteerHolds`), which is why its late write hurts no successor;
beside an active run of the queue every request to cancel is acknowledged (`RequestsAnswered`); a
bound input's run exists (`InputsBound`); the row of an executed run is active, stale, canceling or, if first transactions may raise, failed
(`ExecutedLives`), because a task other than the owner's can write nothing but stale, or failed after
its own first transaction has raised: it has no answer (`AnswerIsOwners`) and may not acknowledge. For the rows and inputs the actions fall into
three kinds again: a step *creates* a run with no other active and the lock free, takes the lock to
steer (`SteerRead`), or lets runs and bindings only *fade*, and `StepFades` shows that there is no
other. `SuccessorWaits` follows from `RequestsAnswered` and `AcknowledgedIdle`, `NoOverlap` from
`OneActive` and `ExecutedLives`.

**EventStream.** `Told` is the set of events that may be told at a moment: any ordinary event; `Done`
or `Cut` only once the worker is past the phases in which the outcome is open, and only the one that
agrees with the row. The row and the phase alone decide it, and `TruthKept` shows that no step takes
an event out of it: an outcome, once told, is never changed into one that contradicts it (this is
where an acknowledgment that finds the run already completed, and a stale sweep between commit and
announcement, would show). The rest of the invariant says that whatever is on its way, in the trace,
the ring, a queue, a replayed snapshot or a client, is in `Told`, and that trace, chunk being
flushed and buffer are in order one after the other (`OrderOK`), which is why a chunk that failed
has to go back to the front.

`HolesAreExplained` needs a second invariant, `HInv`, about what a client *has*: what it received,
the rest of its snapshot, and its queue while it is live. `InOrder`: these follow one another, each
part rising, so the holes of today are those of the future. `Gapless`: an event between two the client
has is one it has, or is excused by a gap marker, by shedding or by the trace. `Following`: a
registered listener has everything from its first event on, which is what makes the next publication
leave no hole. `Behind`: a client has nothing beyond the newest event of the ring. `RingOK`: the ring is a
stretch of the stream without holes, up to the newest event while the broker is open. The steps that
are not obvious are the attachments. A cursor the ring no longer has is older than everything in it
(`EvictedCursor`), so replaying the whole ring repeats nothing and the marker names all that is
missing; a cursor it has is followed without a hole (`SliceHolds`); a replay of the trace after a
cursor leaves out only lost events (`TraceGaps`), and what the trace has lost stays lost (`LostGrows`).
A sentinel that displaces an event of a full queue (`SentinelSent`) puts it among the shed.

`StreamKept` reads the contract off the two invariants: what is coming to a client is later than its
cursor (`InOrder`) and was emitted or is the verdict (`Told` with `Behind`); `ReadKinds` shows that a
read ends the response or takes the least of what is coming, `CursorStays` that nothing else moves a
cursor, and `VerdictStays` that a settled end is final.

`EveryoneStaysServed` is the safety half of `ReaderIsReleased`: a live response is registered with the
broker or has the sentinel last in its queue, and the broker of a finished or dead task is closed. What
is left for fairness is that the client reads, and that the registry collects the broker of an aborted
task.

**InputQueue.** The actions fall into four kinds: quiet, `Appended`, `Rewritten` (one row, next
revision, same place) and `Reordered` (all pending rows, next revision). The invariant is the four
safety properties together: `PendingHaveAnOrder` is kept by an append only because the new position
is above *all* rows, and `RevisionNamesContent` because every kind that changes a row raises its
revision. Finiteness of the inputs is what makes the free position exist.

**ProjectEvaluation.** Every handler is shown to leave a frozen set alone (`FrozenKept`) and to do to
runs either an insertion over an approved set or a move forward (`RunStep`). `BootOK` says what the
bootstrap has by each stage, `BootRunOK` that the run it executes exists, `JobsOK` that jobs belong
to submitted runs, `VerdictOK` that only sound cases are approved.

**ProjectProposals.** The invariant follows the references between the three sequences: what a
session, a decision, a version, a run or a proposal names exists (`Named`, `VersionsOK`,
`ProposalsOK`, `RunsOK`), and an acceptance is known to the version and to the proposal alike. That
one source version has one acceptance follows from the chain: an accepted proposal's version is the
successor of its source.

**SkillEvaluation.** `OnePlace`: a run is in one place (request, queue, task) of one process.
`Settled`: a completed or billed run was not cancelled and is in no place that leads to another
write of its row. `Led`: until a lock is lost, loops, tasks and reconciliations belong to the holder
of the lock. `Slots`: the accounting, with the finiteness it needs. `NoLostWakeup` is the safety half
of `QueueMoves`: `LoopKeepsUp`, which is inductive on top of these, says that a loop asleep over a
queue that is not empty has been woken and finds room for a task, and that no process exceeds its
limit of tasks.

**RefreshTokens.** `IssuedOK`: tokens are issued in order, so a new one is newer than everything
linked to it. `RequestsOK`: a locked row is not deleted and a request that rotates holds the lock of
its row. `LocksApart`: no two requests hold one lock. `CopiesOK`: a row that was loaded under its own
lock is as live as it was loaded, and a replacement is loaded by a request that holds another lock.
`ExpiredOK`: only issued tokens expire. A rotation of a live row then revokes the one live token of its
login as it issues the next, and a rotation of a row that is not live is of a stale head, which forks
the login.

**TriggerRuns.** The invariant says that the copy of whoever holds the lock is the row, that while
`Undisturbed` only one executor works, on the last run, with counters equal to the row's, and that an
admitted run has a success to spare below the limit at its claim. Three lemmas carry the steps:
`RowStep` for writers that leave the counters alone, `StartStep` for a claim, and `FinishStep` for the
ends of a run, which reduces each of them to what it does to the counters (`EndStep`).

Every safety property, action property and refinement that a passing run checks is a theorem. Only
model-checked are the seven liveness properties (`ReaderIsReleased`, `EndReachesReader`,
`UncanceledRunEnds`, `WorkerlessCancelEnds`, `PendingInputMoves`, `QueueMoves`, `OverIsCompleted`),
because fairness is outside the prover's reach. `EveryoneStaysServed`,
`NoLostWakeup` and the `TypeCorrect` theorems state no property of a passing run; the invariants of
the first two are written in the proof modules.

## 5. Not modelled, and known limits

* `RunLifecycle` has one conversation: conversations share nothing but the processes. The same goes
  for one project, one trigger, one user's tokens, and one queue.
* The registry of brokers: its capacity and age limits appear only as `ForceClose`. At capacity it
  closes brokers in insertion order, a live one before a younger closed one, against its docstring
  (`agent_runtime/event_broker.py:344`).
* In `EventStream`: the commit of a chunk that is applied but reported as failed (the retry drops the
  events whose ids are stored already), error events, the retry buffer's cap of 5000 events, the stale event of a
  shutdown, `broker_gap` for a first attach without a cursor after the ring has overflowed (the
  client silently starts in the middle), and the thread-stream and AG-UI endpoints.
  A replay with a cursor the trace does not have is empty and unmarked; `EndReachesReader` excuses
  exactly the runs in which the trace lost events. De-duplication by `yielded_ids` in `subscribe` is
  left out: registering and taking the snapshot are one step, so there is nothing to de-duplicate.
* In `ProjectEvaluation`: role configuration changes (they clear the plan as new requirements do),
  the interview, the cases inside a run, and plans and rubrics that old projects keep in
  `eval_spec_json` without a hash of the requirements, which the comparison with the requirements
  passes over (`services/agent_project_evaluation.py:246`). In `ProjectProposals`: what a patch changes, and
  applying a version to the agent. In `SkillEvaluation`: the limit on runs per user. In
  `RefreshTokens`: passwords and access tokens. The limit of five hops is not reached by the code:
  a head is loaded live and stays so, hence the walk ends after one hop.
* In `TriggerRuns`: schedules, conversations and their notifications. That a one-time trigger whose only
  fire was missed or fenced stays active is therefore not in the model.
* The larger part of the repository by lines is not modelled, because it has no behaviour a model
  checker would reach: single-transaction create, read, update and delete (marketplace, skills,
  credentials, MCP registrations, agents), prompt and graph construction, provider adapters, file
  storage, development scripts, and the React frontend. They are listed with their reason in
  PROJECT.json.

## 6. Plan

1. (done) The run core: `RunTransitions`, `RunLifecycle`, `RunContract`, `EventStream`, with proofs of
   ownership, acknowledgment and the contract.
2. (done) `InputQueue`, `ProjectEvaluation`, `ProjectProposals`, `SkillEvaluation`, `RefreshTokens`,
   `TriggerRuns`, each with its run and with proofs of all its safety properties.
3. (done) Proofs of all safety properties of `EventStream` and `RunLifecycle`; `StreamContract` and its
   refinement.
4. `BrokerRegistry`: capacity, age, close per conversation, composed with attach; the cursor rules of
   the thread-stream and AG-UI endpoints.
5. Scheduler leadership and failover, as the source of the fairness that `RunLifecycle` assumes.
