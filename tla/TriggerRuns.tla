----------------------------- MODULE TriggerRuns -----------------------------
(***************************************************************************)
(* The runs of one scheduled trigger: fires of the scheduler and run-now   *)
(* requests that claim, refuse, execute and finish a run, user edits of    *)
(* the trigger meanwhile, its deletion, and the leader's reconciliation.   *)
(*                                                                         *)
(* Code: execute_trigger of backend/app/agent_runtime/trigger_executor.py, *)
(* backend/app/services/trigger_service.py, reconcile_trigger_jobs of      *)
(* scheduler_runtime.py.                                                   *)
(*                                                                         *)
(* A session keeps a row as it loaded it, for as long as an agent may run, *)
(* and a commit writes only the columns it has changed: Written.  Only     *)
(* execute_trigger locks the row, until it has inserted its run.           *)
(*                                                                         *)
(* A fire may come at any time, also for a trigger that is not active: the *)
(* jobs lag behind the row.  behind, fit and limit of a run are history.  *)
(***************************************************************************)
EXTENDS Naturals, FiniteSets

CONSTANTS
    Executors,     \* calls of execute_trigger in progress at a time
    Requests,      \* PATCH requests in progress at a time
    Limits,        \* values of max_runs a user sets
    PauseLimits,   \* values of auto_pause_after_failures a user sets
    UserStatuses,  \* values of status a user sets
    Kinds,         \* TRUE: one-time, FALSE: interval or cron
    EndDates,      \* values of end_at a user sets; Never for none
    NoRow,         \* no row of the trigger
    StaleAfter,    \* TRIGGER_RUN_STALE_AFTER, in ticks of the clock
    MaxNow,        \* bound: ticks of the clock
    MaxRuns        \* bound: runs

ASSUME LimitsArePositive == Limits \subseteq Nat \ {0} /\ PauseLimits \subseteq Nat \ {0}
ASSUME StatusesAreValid == UserStatuses \subseteq {"active", "paused", "completed", "error"}
ASSUME KindsAreBoolean == Kinds \subseteq BOOLEAN
ASSUME BoundsAreNatural == StaleAfter \in Nat /\ MaxNow \in Nat /\ MaxRuns \in Nat

NoLimit == 0
Never == MaxNow + 1
NoOne == "no one"

ASSUME EndDatesAreTicks == EndDates \subseteq 0..Never
ASSUME NoOneIsNoExecutor == NoOne \notin Executors

VARIABLES
    row,       \* the trigger
    present,   \* it has not been deleted
    runs,      \* its runs, in the order of their claims
    count,     \* how many there are
    locked,    \* the executor that holds its row FOR UPDATE
    executor,  \* what each executor has loaded and does
    request,   \* what each PATCH request has loaded and does
    scan,      \* the row as the reconciliation in progress has read it
    now        \* the clock

vars == <<row, present, runs, count, locked, executor, request, scan, now>>

Status == {"active", "paused", "completed", "error"}
\* done is run_count, failures failure_count, limit max_runs, and pauseAfter
\* auto_pause_after_failures; once stands for trigger_type = "one_time"
Trigger == [status: Status, once: BOOLEAN, done: Nat, limit: Limits \cup {NoLimit},
            failures: Nat, pauseAfter: PauseLimits \cup {NoLimit}, endAt: 0..Never]

ASSUME NoRowIsNoTrigger == NoRow \notin Trigger

Unclaimed == [status |-> "unclaimed", at |-> 0, behind |-> FALSE, fit |-> FALSE, limit |-> 0]
Run == [status: {"running", "success", "failed", "skipped"}, at: 0..MaxNow,
        behind: BOOLEAN, fit: BOOLEAN, limit: Limits \cup {NoLimit}]
Idle == [at |-> "idle", force |-> FALSE, seen |-> NoRow, run |-> 0]
Caller == [at: {"locked", "free"}, force: BOOLEAN, seen: Trigger, run: {0}]
Worker == [at: {"claimed", "admitted", "ready"}, force: BOOLEAN, seen: Trigger,
           run: 1..MaxRuns]
Quiet == [at |-> "idle", seen |-> NoRow]
Editor == [at: {"loaded", "saved"}, seen: Trigger]

TypeOK ==
    /\ row \in Trigger
    /\ present \in BOOLEAN
    /\ count \in 0..MaxRuns
    /\ runs \in [1..MaxRuns -> Run \cup {Unclaimed}]
    /\ \A i \in 1..MaxRuns : runs[i] = Unclaimed <=> i > count
    /\ locked \in Executors \cup {NoOne}
    /\ executor \in [Executors -> {Idle} \cup Caller \cup Worker]
    /\ \A e \in Executors : executor[e].run <= count
    /\ request \in [Requests -> {Quiet} \cup Editor]
    /\ scan \in Trigger \cup {NoRow}
    /\ now \in 0..MaxNow

\* the state create_trigger leaves: a new row, to be synchronised by its request
Init ==
    /\ row \in [status: {"active"}, once: Kinds, done: {0}, limit: Limits \cup {NoLimit},
                failures: {0}, pauseAfter: PauseLimits \cup {NoLimit}, endAt: EndDates]
    /\ present = TRUE
    /\ runs = [i \in 1..MaxRuns |-> Unclaimed]
    /\ count = 0
    /\ locked = NoOne
    /\ executor = [e \in Executors |-> Idle]
    /\ \E u \in Requests :
          request = [[v \in Requests |-> Quiet] EXCEPT ![u] = [at |-> "saved", seen |-> row]]
    /\ scan = NoRow
    /\ now = 0

----------------------------------------------------------------------------
\* Mutant: one run more than max_runs.
Spent_OneMore(t) == t.limit # NoLimit /\ t.done > t.limit

Spent(t) == t.limit # NoLimit /\ t.done >= t.limit

Over(t) == Spent(t) \/ t.endAt <= now

Merged(old, new, current) == IF new = old THEN current ELSE new

\* Mutant: the commit writes every column.
Written_Whole(old, new) == [new EXCEPT !.done = Merged(old.done, @, row.done)]

\* the row after the commit of a session that loaded old and made it new
Written(old, new) ==
    [status     |-> Merged(old.status, new.status, row.status),
     once       |-> Merged(old.once, new.once, row.once),
     done       |-> Merged(old.done, new.done, row.done),
     limit      |-> Merged(old.limit, new.limit, row.limit),
     failures   |-> Merged(old.failures, new.failures, row.failures),
     pauseAfter |-> Merged(old.pauseAfter, new.pauseAfter, row.pauseAfter),
     endAt      |-> Merged(old.endAt, new.endAt, row.endAt)]

Completed(t) == [t EXCEPT !.status = "completed"]

----------------------------------------------------------------------------
(* execute_trigger: the claim *)

InFlight == \E i \in 1..count :
    runs[i].status = "running" /\ runs[i].at + StaleAfter >= now

Working(e) == executor[e].at \in {"claimed", "admitted", "ready"}

\* Mutant: the row is read without FOR UPDATE.
Enter_Unlocked(e, force) ==
    /\ executor[e].at = "idle"
    /\ present
    /\ count < MaxRuns
    /\ locked' = e
    /\ executor' = [executor EXCEPT ![e] =
          [at |-> "locked", force |-> force, seen |-> row, run |-> 0]]
    /\ UNCHANGED <<row, present, runs, count, request, scan, now>>

Enter(e, force) ==
    /\ executor[e].at = "idle"
    /\ present /\ locked = NoOne
    /\ count < MaxRuns
    /\ locked' = e
    /\ executor' = [executor EXCEPT ![e] =
          [at |-> "locked", force |-> force, seen |-> row, run |-> 0]]
    /\ UNCHANGED <<row, present, runs, count, request, scan, now>>

\* find_in_flight_run finds a run: the fire is skipped, the request refused
Leave(e) ==
    /\ executor[e].at = "locked"
    /\ InFlight
    /\ executor' = [executor EXCEPT ![e] = Idle]
    /\ locked' = NoOne
    /\ UNCHANGED <<row, present, runs, count, request, scan, now>>

\* ... or finds none
Look(e) ==
    /\ executor[e].at = "locked"
    /\ ~InFlight
    /\ executor' = [executor EXCEPT ![e].at = "free"]
    /\ UNCHANGED <<row, present, runs, count, locked, request, scan, now>>

\* start_trigger_run; its commit frees the row
Start(e) ==
    /\ executor[e].at = "free"
    /\ count' = count + 1
    /\ runs' = [runs EXCEPT ![count + 1] =
          [status |-> "running", at |-> now,
           behind |-> \E x \in Executors : Working(x),
           fit |-> (row.status = "active" \/ executor[e].force) /\ row.endAt > now,
           limit |-> row.limit]]
    /\ executor' = [executor EXCEPT ![e].at = "claimed", ![e].run = count + 1]
    /\ locked' = NoOne
    /\ UNCHANGED <<row, present, request, scan, now>>

----------------------------------------------------------------------------
(* execute_trigger: admission, execution and the end of the run *)

\* finish_trigger_run.  The commit waits for the lock of a claim; when the
\* trigger has been deleted, and its runs with it, it fails.
Finish(e, outcome, new) ==
    /\ locked = NoOne
    /\ IF present
       THEN /\ row' = Written(executor[e].seen, new)
            /\ runs' = [runs EXCEPT ![executor[e].run].status = outcome]
       ELSE UNCHANGED <<row, runs>>
    /\ executor' = [executor EXCEPT ![e] = Idle]
    /\ UNCHANGED <<present, count, locked, request, scan, now>>

Wanted(e) == executor[e].seen.status = "active" \/ executor[e].force

RefuseInactive(e) ==
    /\ executor[e].at = "claimed"
    /\ ~Wanted(e)
    /\ Finish(e, "skipped", executor[e].seen)

\* max_runs or end_at is reached
RefuseOver(e) ==
    /\ executor[e].at = "claimed"
    /\ Wanted(e) /\ Over(executor[e].seen)
    /\ Finish(e, "skipped", Completed(executor[e].seen))

Admit(e) ==
    /\ executor[e].at = "claimed"
    /\ Wanted(e) /\ ~Over(executor[e].seen)
    /\ executor' = [executor EXCEPT ![e].at = "admitted"]
    /\ UNCHANGED <<row, present, runs, count, locked, request, scan, now>>

\* resolve_schedule_conversation creates the conversation of the trigger and
\* refreshes the row
Refresh(e) ==
    /\ executor[e].at = "admitted"
    /\ present /\ locked = NoOne
    /\ executor' = [executor EXCEPT ![e].at = "ready", ![e].seen = row]
    /\ UNCHANGED <<row, present, runs, count, locked, request, scan, now>>

AfterFailure(t) ==
    [t EXCEPT !.failures = @ + 1,
              !.status = IF t.pauseAfter # NoLimit /\ t.failures + 1 >= t.pauseAfter
                         THEN "paused" ELSE @]

\* no model, a blocked tool, an identity or policy error, an agent that raises
Fail(e) ==
    /\ executor[e].at \in {"admitted", "ready"}
    /\ Finish(e, "failed", AfterFailure(executor[e].seen))

\* the agent is not there
FailWithoutAgent(e) ==
    /\ executor[e].at = "admitted"
    /\ Finish(e, "failed", AfterFailure([executor[e].seen EXCEPT !.status = "error"]))

\* Mutant: a success does not end a series of failures.
AfterSuccess_KeepsFailures(t) ==
    [t EXCEPT !.done = @ + 1,
              !.status = IF t.once \/ (t.limit # NoLimit /\ t.done + 1 >= t.limit)
                         THEN "completed" ELSE @]

AfterSuccess(t) ==
    [t EXCEPT !.failures = 0,
              !.done = @ + 1,
              !.status = IF t.once \/ (t.limit # NoLimit /\ t.done + 1 >= t.limit)
                         THEN "completed" ELSE @]

Succeed(e) ==
    /\ executor[e].at \in {"admitted", "ready"}
    /\ Finish(e, "success", AfterSuccess(executor[e].seen))

\* A crash, a cancellation by stop_scheduler or a database error: the run stays
\* as it is, the connection and its lock go.
Abandon(e) ==
    /\ executor[e].at # "idle"
    /\ executor' = [executor EXCEPT ![e] = Idle]
    /\ locked' = IF locked = e THEN NoOne ELSE locked
    /\ UNCHANGED <<row, present, runs, count, request, scan, now>>

----------------------------------------------------------------------------
(* update_trigger, sync_scheduler_for_trigger, delete_trigger *)

Load(u) ==
    /\ request[u].at = "idle"
    /\ present
    /\ request' = [request EXCEPT ![u] = [at |-> "loaded", seen |-> row]]
    /\ UNCHANGED <<row, present, runs, count, locked, executor, scan, now>>

Edits(t) ==
    [status: UserStatuses \cup {t.status}, once: Kinds, done: {t.done},
     limit: Limits \cup {NoLimit}, failures: {t.failures},
     pauseAfter: PauseLimits \cup {NoLimit}, endAt: EndDates]

\* assign, commit, refresh; the commit fails when the trigger has been deleted
Save(u) ==
    /\ request[u].at = "loaded"
    /\ locked = NoOne
    /\ IF present
       THEN \E new \in Edits(request[u].seen) :
               /\ row' = Written(request[u].seen, new)
               /\ request' = [request EXCEPT ![u] = [at |-> "saved", seen |-> row']]
       ELSE /\ request' = [request EXCEPT ![u] = Quiet]
            /\ UNCHANGED row
    /\ UNCHANGED <<present, runs, count, locked, executor, scan, now>>

IsOver(t) == t.status = "active" /\ Over(t)

\* sync_scheduler_for_trigger, as far as the row goes
Sync(u) ==
    /\ request[u].at = "saved"
    /\ locked = NoOne
    /\ row' = IF present /\ IsOver(request[u].seen)
              THEN Written(request[u].seen, Completed(request[u].seen)) ELSE row
    /\ request' = [request EXCEPT ![u] = Quiet]
    /\ UNCHANGED <<present, runs, count, locked, executor, scan, now>>

\* a crash or a database error
Drop(u) ==
    /\ request[u].at # "idle"
    /\ request' = [request EXCEPT ![u] = Quiet]
    /\ UNCHANGED <<row, present, runs, count, locked, executor, scan, now>>

\* its runs go with it: no definition below looks at them again
Delete ==
    /\ present /\ locked = NoOne
    /\ present' = FALSE
    /\ UNCHANGED <<row, runs, count, locked, executor, request, scan, now>>

----------------------------------------------------------------------------
(* reconcile_trigger_jobs, as far as the row goes *)

\* Mutant: only max_runs is looked at.
Scan_OnlyRuns ==
    /\ scan = NoRow
    /\ present /\ row.status = "active" /\ Spent(row)
    /\ scan' = row
    /\ UNCHANGED <<row, present, runs, count, locked, executor, request, now>>

\* The pass reads the row and finds it over.  A pass that fails, or ends with the
\* leader, has done nothing: it is no step.
Scan ==
    /\ scan = NoRow
    /\ present /\ IsOver(row)
    /\ scan' = row
    /\ UNCHANGED <<row, present, runs, count, locked, executor, request, now>>

Reconcile ==
    /\ scan # NoRow
    /\ locked = NoOne
    /\ row' = IF present THEN Written(scan, Completed(scan)) ELSE row
    /\ scan' = NoRow
    /\ UNCHANGED <<present, runs, count, locked, executor, request, now>>

Tick ==
    /\ now < MaxNow
    /\ now' = now + 1
    /\ UNCHANGED <<row, present, runs, count, locked, executor, request, scan>>

----------------------------------------------------------------------------
Claim(e) == Leave(e) \/ Look(e) \/ Start(e)

Execute(e) ==
    \/ RefuseInactive(e) \/ RefuseOver(e) \/ Admit(e) \/ Refresh(e)
    \/ Fail(e) \/ FailWithoutAgent(e) \/ Succeed(e)

Next ==
    \/ \E e \in Executors :
          \/ \E force \in BOOLEAN : Enter(e, force)
          \/ Claim(e) \/ Execute(e) \/ Abandon(e)
    \/ \E u \in Requests : Load(u) \/ Save(u) \/ Sync(u) \/ Drop(u)
    \/ Delete
    \/ Scan \/ Reconcile
    \/ Tick

Spec == Init /\ [][Next]_vars

\* A claim is a few statements, which end.  Some live process leads and reconciles
\* again and again, not every pass fails, and the database serves the waiters for a
\* row in turn.
Fairness ==
    /\ \A e \in Executors : WF_vars(Claim(e))
    /\ WF_vars(Scan) /\ SF_vars(Reconcile)

FairSpec == Spec /\ Fairness

----------------------------------------------------------------------------
(* Properties *)

\* A run that has not ended is more than an hour older than every run claimed after
\* it, whether its executor still works on it or has died: two fires, or a fire and
\* a run-now, never both pass the check.
RunsApart == \A i, j \in 1..count :
    i < j /\ runs[i].status = "running" => runs[i].at + StaleAfter < runs[j].at

\* no run was claimed while an older one was still being worked on
Undisturbed == \A i \in 1..count : ~runs[i].behind

Successes == {i \in 1..count : runs[i].status = "success"}
FailuresInARow == {i \in 1..count :
    runs[i].status = "failed" /\ \A j \in Successes : j < i}

\* As long as no run outlived its hour, the counters of the trigger, which each run
\* computes from the row as it was when the run began, tell what its runs did,
\* whatever users saved meanwhile and whatever died.
CountersAgree == Undisturbed =>
    /\ row.done = Cardinality(Successes)
    /\ row.failures = Cardinality(FailuresInARow)

\* Then, too, a run succeeded only with a trigger that had runs left and time left at
\* its claim, and, unless a user forced it, was active.
LimitsKept == Undisturbed => \A i \in Successes :
    /\ runs[i].fit
    /\ runs[i].limit # NoLimit => Cardinality({j \in Successes : j <= i}) <= runs[i].limit

\* No commit of a run or of the leader makes a trigger active, and none changes its
\* schedule or its limits: a stale copy gives back no trigger that a user paused and
\* no limit that one changed.  It protects neither a pause, which the end of a run may
\* overwrite with completed, nor a limit just raised: a run still completes or pauses
\* the trigger by the limits it has loaded.
EditsSurvive == [][ request' = request =>
    /\ row'.status # row.status => row'.status # "active"
    /\ <<row'.once, row'.limit, row'.pauseAfter, row'.endAt>>
       = <<row.once, row.limit, row.pauseAfter, row.endAt>> ]_vars

\* An active trigger whose runs or time are used up does not stay so: the next pass of
\* the leader completes it, whoever holds an old copy of the row.
OverIsCompleted == (present /\ IsOver(row)) ~> ~(present /\ IsOver(row))

=============================================================================
