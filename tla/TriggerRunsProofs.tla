-------------------------- MODULE TriggerRunsProofs --------------------------
(***************************************************************************)
(* Proofs about TriggerRuns, for any number of executors, requests and     *)
(* runs, any limits and any StaleAfter.  The invariant adds to the         *)
(* properties what the holder of the row lock and the executor of a run    *)
(* may rely on.                                                            *)
(***************************************************************************)
EXTENDS TriggerRuns, FiniteSetTheorems, TLAPS

\* The holder of the lock has read the row as it is, and no run that it has not seen
\* can appear.
CallersOK == \A e \in Executors :
    /\ executor[e].at \in {"locked", "free"} <=> locked = e
    /\ locked = e => present /\ executor[e].seen = row /\ count < MaxRuns
    /\ executor[e].at = "free" =>
          \A i \in 1..count : runs[i].status = "running" => runs[i].at + StaleAfter < now

TimesOK == \A i \in 1..count : runs[i].at <= now

\* an executor works on a run of its own, and what was claimed since is behind
RunsOK == \A e \in Executors : Working(e) =>
    /\ runs[executor[e].run].status = "running"
    /\ \A f \in Executors : Working(f) /\ executor[f].run = executor[e].run => e = f
    /\ \A j \in 1..count : executor[e].run < j => runs[j].behind

\* what it holds in memory, as long as nobody else works
SeenOK == Undisturbed => \A e \in Executors : Working(e) =>
    /\ executor[e].seen.done = row.done
    /\ executor[e].seen.failures = row.failures

AdmittedOK == \A e \in Executors :
    LET x == executor[e]
        r == runs[executor[e].run] IN
    /\ x.at = "claimed" =>
          /\ r.fit <=> (x.seen.status = "active" \/ x.force) /\ x.seen.endAt > r.at
          /\ r.limit = x.seen.limit
    /\ x.at \in {"admitted", "ready"} =>
          /\ r.fit
          /\ Undisturbed /\ r.limit # NoLimit => Cardinality(Successes) < r.limit

IInv == /\ TypeOK /\ CallersOK /\ TimesOK /\ RunsOK /\ SeenOK /\ AdmittedOK
        /\ RunsApart /\ CountersAgree /\ LimitsKept

Bounds == /\ MaxRuns \in Nat /\ MaxNow \in Nat /\ StaleAfter \in Nat
          /\ Limits \subseteq Nat \ {0} /\ PauseLimits \subseteq Nat \ {0}

LEMMA BoundsHold == Bounds
  BY LimitsArePositive, BoundsAreNatural DEF Bounds

(* What the tags say of a record: an executor that works holds a row and a run. *)
LEMMA ExecutorTypes ==
    ASSUME TypeOK, NEW e \in Executors
    PROVE  /\ executor[e] \in {Idle} \cup Caller \cup Worker
           /\ executor[e].at = "idle" <=> executor[e] = Idle
           /\ executor[e].at \in {"locked", "free"} <=> executor[e] \in Caller
           /\ Working(e) <=> executor[e] \in Worker
           /\ executor[e] \in Worker => executor[e].run \in 1..count
<1>1. executor[e] \in {Idle} \cup Caller \cup Worker
  BY DEF TypeOK
<1>2. executor[e].run <= count /\ count \in Nat
  BY BoundsHold DEF TypeOK, Bounds
<1>3. executor[e] \in Worker => executor[e].run \in 1..MaxRuns
  BY DEF Worker
<1>4. executor[e] \in Worker => executor[e].run \in 1..count
  BY <1>2, <1>3, BoundsHold DEF Bounds
<1>5. CASE executor[e] = Idle
  BY <1>5 DEF Idle, Caller, Worker, Working
<1>6. CASE executor[e] \in Caller
  <2>1. executor[e].at \in {"locked", "free"}
    BY <1>6 DEF Caller
  <2>2. executor[e] # Idle /\ executor[e] \notin Worker /\ ~Working(e)
    BY <2>1 DEF Idle, Worker, Working
  <2> QED
    BY <1>6, <2>1, <2>2
<1>7. CASE executor[e] \in Worker
  <2>1. executor[e].at \in {"claimed", "admitted", "ready"}
    BY <1>7 DEF Worker
  <2>2. executor[e] # Idle /\ executor[e] \notin Caller /\ Working(e)
    BY <2>1 DEF Idle, Caller, Working
  <2> QED
    BY <1>4, <1>7, <2>1, <2>2
<1> QED
  BY <1>1, <1>5, <1>6, <1>7

LEMMA SuccessesAreFinite ==
    ASSUME TypeOK
    PROVE  /\ IsFiniteSet(Successes) /\ Cardinality(Successes) \in Nat
           /\ IsFiniteSet(FailuresInARow) /\ Cardinality(FailuresInARow) \in Nat
           /\ Successes \subseteq 1..count /\ FailuresInARow \subseteq 1..count
           /\ \A i \in 1..count : IsFiniteSet({j \in Successes : j <= i})
<1>1. count \in Nat
  BY BoundsHold DEF TypeOK, Bounds
<1>2. IsFiniteSet(1..count)
  BY <1>1, FS_Interval
<1>3. Successes \subseteq 1..count /\ FailuresInARow \subseteq 1..count
  BY DEF Successes, FailuresInARow
<1>4. \A i \in 1..count : {j \in Successes : j <= i} \subseteq 1..count
  BY <1>3
<1> QED
  BY <1>2, <1>3, <1>4, FS_Subset, FS_CardinalityType

LEMMA InitInv == Init => IInv
<1> SUFFICES ASSUME Init PROVE IInv
  OBVIOUS
<1>1. \A e \in Executors : executor[e] = Idle
  BY DEF Init
<1>2. TypeOK
  <2>1. row \in Trigger
    <3>1. row \in [status: {"active"}, once: Kinds, done: {0}, limit: Limits \cup {NoLimit},
                   failures: {0}, pauseAfter: PauseLimits \cup {NoLimit}, endAt: EndDates]
      BY DEF Init
    <3>2. row.once \in BOOLEAN
      BY <3>1, KindsAreBoolean
    <3>3. row.endAt \in 0..Never
      BY <3>1, EndDatesAreTicks
    <3>4. row.status \in Status
      BY <3>1 DEF Status
    <3> QED
      BY <3>1, <3>2, <3>3, <3>4 DEF Trigger
  <2>2. runs \in [1..MaxRuns -> Run \cup {Unclaimed}]
        /\ \A i \in 1..MaxRuns : runs[i] = Unclaimed <=> i > count
    BY BoundsHold DEF Init, Bounds
  <2>3. request \in [Requests -> {Quiet} \cup Editor]
    <3>1. PICK u \in Requests : request = [[v \in Requests |-> Quiet] EXCEPT ![u] = [at |-> "saved", seen |-> row]]
      BY DEF Init
    <3>2. [at |-> "saved", seen |-> row] \in Editor
      BY <2>1 DEF Editor
    <3> QED
      BY <3>1, <3>2
  <2> QED
    BY <2>1, <2>2, <2>3, <1>1, BoundsHold DEF Init, TypeOK, Bounds, Idle
<1>3. 1..count = {} /\ Successes = {} /\ FailuresInARow = {}
  BY DEF Init, Successes, FailuresInARow
<1>4. CallersOK /\ TimesOK /\ RunsOK /\ SeenOK /\ AdmittedOK /\ RunsApart
  BY <1>1, <1>3, NoOneIsNoExecutor DEF Init, CallersOK, TimesOK, RunsOK, SeenOK, AdmittedOK, RunsApart, Working, Idle
<1>5. CountersAgree /\ LimitsKept
  BY <1>3, FS_EmptySet DEF Init, CountersAgree, LimitsKept
<1> QED
  BY <1>2, <1>4, <1>5 DEF IInv

----------------------------------------------------------------------------
(* A step of a user or of the leader, or of the clock: it leaves the runs, *)
(* the executors and the two counters alone, and the row while it is       *)
(* locked.                                                                 *)
LEMMA RowStep ==
    ASSUME IInv, UNCHANGED <<runs, count, locked, executor>>,
           row' \in Trigger, row'.done = row.done, row'.failures = row.failures,
           present' \in BOOLEAN, UNCHANGED <<row, present>> \/ locked = NoOne,
           now' \in 0..MaxNow, now' >= now,
           request' \in [Requests -> {Quiet} \cup Editor], scan' \in Trigger \cup {NoRow}
    PROVE  IInv'
<1>1. TypeOK'
  BY DEF IInv, TypeOK
<1>2. CallersOK'
  <2> SUFFICES ASSUME NEW e \in Executors
               PROVE  /\ executor[e].at \in {"locked", "free"} <=> locked = e
                      /\ locked = e => present' /\ executor[e].seen = row' /\ count < MaxRuns
                      /\ executor[e].at = "free" => \A i \in 1..count :
                            runs[i].status = "running" => runs[i].at + StaleAfter < now'
    BY DEF CallersOK
  <2>1. /\ executor[e].at \in {"locked", "free"} <=> locked = e
        /\ locked = e => present' /\ executor[e].seen = row' /\ count < MaxRuns
    BY NoOneIsNoExecutor DEF IInv, CallersOK
  <2>2. ASSUME executor[e].at = "free", NEW i \in 1..count, runs[i].status = "running"
        PROVE  runs[i].at + StaleAfter < now'
    <3>1. runs[i].at + StaleAfter < now
      BY <2>2 DEF IInv, CallersOK
    <3>2. runs[i] \in Run /\ now \in 0..MaxNow
      BY <2>2, BoundsHold DEF IInv, TypeOK, Bounds, Unclaimed
    <3>3. runs[i].at \in Nat
      BY <3>2, BoundsHold DEF Run, Bounds
    <3> QED
      BY <3>1, <3>2, <3>3, BoundsHold DEF Bounds
  <2> QED
    BY <2>1, <2>2
<1>3. TimesOK'
  <2> SUFFICES ASSUME NEW i \in 1..count PROVE runs[i].at <= now'
    BY DEF TimesOK
  <2>1. runs[i].at <= now
    BY DEF IInv, TimesOK
  <2>2. runs[i] \in Run /\ now \in 0..MaxNow
    BY BoundsHold DEF IInv, TypeOK, Bounds
  <2>3. runs[i].at \in Nat
    BY <2>2, BoundsHold DEF Run, Bounds
  <2> QED
    BY <2>1, <2>2, <2>3, BoundsHold DEF Bounds
<1>4. Successes' = Successes /\ FailuresInARow' = FailuresInARow /\ Undisturbed' = Undisturbed
  BY DEF Successes, FailuresInARow, Undisturbed
<1>5. RunsOK' /\ RunsApart'
  BY DEF IInv, RunsOK, RunsApart, Working
<1>6. SeenOK'
  BY <1>4 DEF IInv, SeenOK, Working
<1>7. AdmittedOK'
  BY <1>4 DEF IInv, AdmittedOK
<1>8. CountersAgree' /\ LimitsKept'
  BY <1>4 DEF IInv, CountersAgree, LimitsKept
<1> QED
  BY <1>1, <1>2, <1>3, <1>5, <1>6, <1>7, <1>8 DEF IInv

(* A commit leaves the columns alone that its session has not changed.     *)
LEMMA WrittenKeeps ==
    ASSUME row \in Trigger, NEW old \in Trigger, NEW new \in Trigger
    PROVE  /\ Written(old, new) \in Trigger
           /\ new.done = old.done => Written(old, new).done = row.done
           /\ new.failures = old.failures => Written(old, new).failures = row.failures
  BY DEF Written, Merged, Trigger

LEMMA CompletedType ==
    ASSUME NEW t \in Trigger
    PROVE  /\ Completed(t) \in Trigger
           /\ Completed(t).done = t.done /\ Completed(t).failures = t.failures
  BY DEF Completed, Trigger, Status

LEMMA EditsAreTriggers ==
    ASSUME NEW t \in Trigger, NEW new \in Edits(t)
    PROVE  new \in Trigger /\ new.done = t.done /\ new.failures = t.failures
<1>1. new \in [status: UserStatuses \cup {t.status}, once: Kinds, done: {t.done},
               limit: Limits \cup {NoLimit}, failures: {t.failures},
               pauseAfter: PauseLimits \cup {NoLimit}, endAt: EndDates]
  BY DEF Edits
<1>2. t.status \in Status /\ t.done \in Nat /\ t.failures \in Nat
  BY DEF Trigger
<1>3. new.status \in Status
  BY <1>1, <1>2, StatusesAreValid DEF Status
<1>4. new.once \in BOOLEAN
  BY <1>1, KindsAreBoolean
<1>5. new.endAt \in 0..Never
  BY <1>1, EndDatesAreTicks
<1> QED
  BY <1>1, <1>2, <1>3, <1>4, <1>5 DEF Trigger

LEMMA EditorTypes ==
    ASSUME TypeOK, NEW u \in Requests, request[u].at # "idle"
    PROVE  request[u] \in Editor /\ request[u].seen \in Trigger
  BY DEF TypeOK, Quiet, Editor

LEMMA UserStep ==
    ASSUME IInv,
           \/ \E u \in Requests : Load(u) \/ Save(u) \/ Sync(u) \/ Drop(u)
           \/ Delete \/ Scan \/ Reconcile \/ Tick
    PROVE  IInv'
<1>1. /\ row \in Trigger /\ present \in BOOLEAN /\ now \in 0..MaxNow
      /\ request \in [Requests -> {Quiet} \cup Editor] /\ scan \in Trigger \cup {NoRow}
  BY DEF IInv, TypeOK
<1>2. now \in Nat /\ now >= now
  BY <1>1, BoundsHold DEF Bounds
<1>3. CASE \E u \in Requests : Load(u) \/ Drop(u)
  <2>1. [at |-> "loaded", seen |-> row] \in Editor
    BY <1>1 DEF Editor
  <2>2. request' \in [Requests -> {Quiet} \cup Editor]
    BY <1>3, <1>1, <2>1 DEF Load, Drop
  <2> QED
    BY <1>1, <1>2, <1>3, <2>2, RowStep DEF Load, Drop
<1>4. ASSUME NEW u \in Requests, Save(u) PROVE IInv'
  <2>1. CASE present
    <3>1. PICK new \in Edits(request[u].seen) :
             /\ row' = Written(request[u].seen, new)
             /\ request' = [request EXCEPT ![u] = [at |-> "saved", seen |-> row']]
      BY <1>4, <2>1 DEF Save
    <3>2. request[u].seen \in Trigger
      BY <1>4, EditorTypes DEF Save, IInv
    <3>3. row' \in Trigger /\ row'.done = row.done /\ row'.failures = row.failures
      BY <1>1, <3>1, <3>2, EditsAreTriggers, WrittenKeeps
    <3>4. [at |-> "saved", seen |-> row'] \in Editor
      BY <3>3 DEF Editor
    <3>5. request' \in [Requests -> {Quiet} \cup Editor]
      BY <1>1, <3>1, <3>4
    <3> QED
      BY <1>1, <1>2, <1>4, <3>3, <3>5, RowStep DEF Save
  <2>2. CASE ~present
    <3>1. request' \in [Requests -> {Quiet} \cup Editor] /\ row' = row
      BY <1>1, <1>4, <2>2 DEF Save
    <3> QED
      BY <1>1, <1>2, <1>4, <3>1, RowStep DEF Save
  <2> QED
    BY <2>1, <2>2
<1>5. ASSUME NEW u \in Requests, Sync(u) PROVE IInv'
  <2>1. request[u].seen \in Trigger
    BY <1>5, EditorTypes DEF Sync, IInv
  <2>2. row' \in Trigger /\ row'.done = row.done /\ row'.failures = row.failures
    BY <1>1, <1>5, <2>1, CompletedType, WrittenKeeps DEF Sync
  <2>3. request' \in [Requests -> {Quiet} \cup Editor]
    BY <1>1, <1>5 DEF Sync
  <2> QED
    BY <1>1, <1>2, <1>5, <2>2, <2>3, RowStep DEF Sync
<1>6. CASE Delete
  BY <1>1, <1>2, <1>6, RowStep DEF Delete
<1>7. CASE Scan
  BY <1>1, <1>2, <1>7, RowStep DEF Scan
<1>8. CASE Reconcile
  <2>1. scan \in Trigger
    BY <1>1, <1>8 DEF Reconcile
  <2>2. row' \in Trigger /\ row'.done = row.done /\ row'.failures = row.failures
    BY <1>1, <1>8, <2>1, CompletedType, WrittenKeeps DEF Reconcile
  <2> QED
    BY <1>1, <1>2, <1>8, <2>2, RowStep DEF Reconcile
<1>9. CASE Tick
  <2>1. now' \in 0..MaxNow /\ now' >= now
    BY <1>1, <1>9, BoundsHold DEF Tick, Bounds
  <2> QED
    BY <1>1, <1>9, <2>1, RowStep DEF Tick
<1> QED
  BY <1>3, <1>4, <1>5, <1>6, <1>7, <1>8, <1>9

----------------------------------------------------------------------------
(* A step of an executor that writes only what it remembers, and the lock. *)
LEMMA ExecutorStep ==
    ASSUME IInv, NEW e \in Executors, NEW x \in {Idle} \cup Caller \cup Worker,
           executor' = [executor EXCEPT ![e] = x],
           UNCHANGED <<row, present, runs, count, request, scan, now>>,
           locked' = locked \/ {locked, locked'} \subseteq {e, NoOne},
           x.at \in {"locked", "free"} <=> locked' = e,
           x.at \in {"locked", "free"} => present /\ x.seen = row /\ count < MaxRuns,
           x.at = "free" =>
              \A i \in 1..count : runs[i].status = "running" => runs[i].at + StaleAfter < now,
           x \in Worker =>
              /\ executor[e] \in Worker /\ x.run = executor[e].run
              /\ x.seen \in {executor[e].seen, row}
              /\ x.at \in {"admitted", "ready"}
              /\ runs[x.run].fit
              /\ Undisturbed /\ runs[x.run].limit # NoLimit =>
                    Cardinality(Successes) < runs[x.run].limit
    PROVE  IInv'
<1>1. executor \in [Executors -> {Idle} \cup Caller \cup Worker] /\ count \in Nat
  BY BoundsHold DEF IInv, TypeOK, Bounds
<1>2. executor'[e] = x /\ \A f \in Executors : f # e => executor'[f] = executor[f]
  BY <1>1
<1>3. x.run <= count
  <2>1. CASE x \in Worker
    BY <2>1 DEF IInv, TypeOK
  <2>2. CASE x \in {Idle} \cup Caller
    BY <1>1, <2>2 DEF Idle, Caller
  <2> QED
    BY <2>1, <2>2
<1>4. TypeOK'
  <2>1. locked' \in Executors \cup {NoOne}
    BY DEF IInv, TypeOK
  <2> QED
    BY <1>1, <1>2, <1>3, <2>1 DEF IInv, TypeOK
<1>5. CallersOK'
  <2> SUFFICES ASSUME NEW f \in Executors
               PROVE  /\ executor'[f].at \in {"locked", "free"} <=> locked' = f
                      /\ locked' = f => present /\ executor'[f].seen = row /\ count < MaxRuns
                      /\ executor'[f].at = "free" => \A i \in 1..count :
                            runs[i].status = "running" => runs[i].at + StaleAfter < now
    BY DEF CallersOK
  <2>1. CASE f = e
    BY <1>2, <2>1
  <2>2. CASE f # e
    <3>1. locked' = f <=> locked = f
      BY <2>2, NoOneIsNoExecutor
    <3> QED
      BY <1>2, <2>2, <3>1 DEF IInv, CallersOK
  <2> QED
    BY <2>1, <2>2
<1>6. Successes' = Successes /\ FailuresInARow' = FailuresInARow /\ Undisturbed' = Undisturbed
  BY DEF Successes, FailuresInARow, Undisturbed
<1>7. \A f \in Executors : Working(f)' =>
         /\ Working(f) /\ executor'[f].run = executor[f].run
         /\ executor'[f].seen \in {executor[f].seen, row}
  <2> SUFFICES ASSUME NEW f \in Executors, Working(f)'
               PROVE  /\ Working(f) /\ executor'[f].run = executor[f].run
                      /\ executor'[f].seen \in {executor[f].seen, row}
    OBVIOUS
  <2>1. CASE f = e
    <3>1. x \in Worker
      BY <1>2, <2>1 DEF Working, Idle, Caller
    <3> QED
      BY <1>2, <2>1, <3>1 DEF Working, Worker
  <2>2. CASE f # e
    BY <1>2, <2>2 DEF Working
  <2> QED
    BY <2>1, <2>2
<1>8. RunsOK'
  BY <1>7 DEF IInv, RunsOK
<1>9. SeenOK'
  BY <1>6, <1>7 DEF IInv, SeenOK
<1>10. AdmittedOK'
  <2> SUFFICES ASSUME NEW f \in Executors
               PROVE  (LET y == executor'[f]
                           r == runs[executor'[f].run] IN
                       /\ y.at = "claimed" =>
                             /\ r.fit <=> (y.seen.status = "active" \/ y.force) /\ y.seen.endAt > r.at
                             /\ r.limit = y.seen.limit
                       /\ y.at \in {"admitted", "ready"} =>
                             /\ r.fit
                             /\ Undisturbed /\ r.limit # NoLimit => Cardinality(Successes) < r.limit)
    BY <1>6 DEF AdmittedOK
  <2>1. CASE f = e
    <3>1. CASE x \in Worker
      BY <1>2, <2>1, <3>1
    <3>2. CASE x \in {Idle} \cup Caller
      BY <1>2, <2>1, <3>2 DEF Idle, Caller
    <3> QED
      BY <3>1, <3>2
  <2>2. CASE f # e
    BY <1>2, <2>2 DEF IInv, AdmittedOK
  <2> QED
    BY <2>1, <2>2
<1>11. RunsApart' /\ TimesOK'
  BY DEF IInv, RunsApart, TimesOK
<1>12. CountersAgree' /\ LimitsKept'
  BY <1>6 DEF IInv, CountersAgree, LimitsKept
<1> QED
  BY <1>4, <1>5, <1>8, <1>9, <1>10, <1>11, <1>12 DEF IInv

LEMMA EnterStep ==
    ASSUME IInv, NEW e \in Executors, NEW force \in BOOLEAN, Enter(e, force)
    PROVE  IInv'
<1> DEFINE x == [at |-> "locked", force |-> force, seen |-> row, run |-> 0]
<1>1. x \in Caller
  BY DEF IInv, TypeOK, Caller
<1>2. x \notin Worker /\ x.at = "locked" /\ x.seen = row
  BY DEF Worker
<1>3. executor' = [executor EXCEPT ![e] = x] /\ locked' = e /\ locked = NoOne
      /\ present /\ count < MaxRuns /\ UNCHANGED <<row, present, runs, count, request, scan, now>>
  BY DEF Enter
<1> HIDE DEF x
<1> QED
  BY <1>1, <1>2, <1>3, ExecutorStep

LEMMA LeaveStep ==
    ASSUME IInv, NEW e \in Executors, Leave(e) \/ Abandon(e)
    PROVE  IInv'
<1>1. Idle.at = "idle" /\ Idle \notin Worker /\ Idle \in {Idle} \cup Caller \cup Worker
  BY DEF Idle, Worker
<1>2. executor' = [executor EXCEPT ![e] = Idle]
      /\ UNCHANGED <<row, present, runs, count, request, scan, now>>
  BY DEF Leave, Abandon
<1>3. locked' # e /\ (locked' = locked \/ {locked, locked'} \subseteq {e, NoOne})
  <2>1. CASE Leave(e)
    BY <2>1, NoOneIsNoExecutor DEF Leave, IInv, CallersOK
  <2>2. CASE Abandon(e)
    BY <2>2, NoOneIsNoExecutor DEF Abandon
  <2> QED
    BY <2>1, <2>2
<1>4. ~(Idle.at \in {"locked", "free"}) /\ Idle.at # "free"
  BY <1>1
<1> QED
  BY <1>1, <1>2, <1>3, <1>4, ExecutorStep

LEMMA LookStep ==
    ASSUME IInv, NEW e \in Executors, Look(e)
    PROVE  IInv'
<1> DEFINE x == [executor[e] EXCEPT !.at = "free"]
<1>1. executor[e] \in Caller /\ locked = e
  BY ExecutorTypes DEF Look, IInv, CallersOK
<1>2. x \in Caller /\ x.at = "free" /\ x.seen = executor[e].seen
  BY <1>1 DEF Caller
<1>3. x \notin Worker
  BY <1>2 DEF Worker
<1>4. executor' = [executor EXCEPT ![e] = x] /\ locked' = e
      /\ UNCHANGED <<row, present, runs, count, request, scan, now>>
  BY <1>1 DEF Look, IInv, TypeOK
<1>5. present /\ executor[e].seen = row /\ count < MaxRuns
  BY <1>1 DEF IInv, CallersOK
<1>6. ASSUME NEW i \in 1..count, runs[i].status = "running"
      PROVE  runs[i].at + StaleAfter < now
  <2>1. ~(runs[i].at + StaleAfter >= now)
    BY <1>6 DEF Look, InFlight
  <2>2. runs[i] \in Run /\ now \in Nat
    BY <1>6, BoundsHold DEF IInv, TypeOK, Unclaimed, Bounds
  <2>3. runs[i].at \in Nat
    BY <2>2, BoundsHold DEF Run, Bounds
  <2> QED
    BY <2>1, <2>2, <2>3, BoundsHold DEF Bounds
<1> HIDE DEF x
<1> QED
  BY <1>1, <1>2, <1>3, <1>4, <1>5, <1>6, ExecutorStep

LEMMA AdmitStep ==
    ASSUME IInv, NEW e \in Executors, Admit(e)
    PROVE  IInv'
<1> DEFINE x == [executor[e] EXCEPT !.at = "admitted"]
           r == runs[executor[e].run]
<1>1. executor[e] \in Worker /\ executor[e].run \in 1..count
  BY ExecutorTypes DEF Admit, IInv, Working
<1>2. x \in Worker /\ x.at = "admitted" /\ x.seen = executor[e].seen /\ x.run = executor[e].run
  BY <1>1 DEF Worker
<1>3. executor' = [executor EXCEPT ![e] = x] /\ locked' = locked
      /\ UNCHANGED <<row, present, runs, count, request, scan, now>>
  BY DEF Admit, IInv, TypeOK
<1>4. locked # e
  BY DEF Admit, IInv, CallersOK
<1>5. /\ r.fit <=> (executor[e].seen.status = "active" \/ executor[e].force)
                   /\ executor[e].seen.endAt > r.at
      /\ r.limit = executor[e].seen.limit
  BY DEF Admit, IInv, AdmittedOK
<1>6. r \in Run /\ r.at <= now /\ now \in Nat /\ executor[e].seen \in Trigger
  <2>1. executor[e].run \in 1..MaxRuns /\ ~(executor[e].run > count)
    BY <1>1, BoundsHold DEF Worker, Bounds, IInv, TypeOK
  <2> QED
    BY <1>1, <2>1, BoundsHold DEF IInv, TypeOK, TimesOK, Worker, Bounds
<1>7. r.fit
  <2>1. ~(executor[e].seen.endAt <= now)
    BY DEF Admit, Over
  <2>2. executor[e].seen.endAt \in Nat /\ r.at \in Nat
    BY <1>6, BoundsHold DEF Trigger, Never, Run, Bounds
  <2> QED
    BY <1>5, <1>6, <2>1, <2>2 DEF Admit, Wanted
<1>8. ASSUME Undisturbed, r.limit # NoLimit PROVE Cardinality(Successes) < r.limit
  <2>1. executor[e].seen.done = Cardinality(Successes)
    BY <1>8, <1>1, ExecutorTypes DEF IInv, SeenOK, CountersAgree
  <2>2. ~(executor[e].seen.done >= r.limit)
    BY <1>5, <1>8 DEF Admit, Over, Spent
  <2>3. executor[e].seen.done \in Nat /\ r.limit \in Nat
    BY <1>6, <1>8, BoundsHold DEF Trigger, Run, Bounds
  <2> QED
    BY <2>1, <2>2, <2>3
<1>9. /\ x.at \in {"admitted", "ready"} /\ ~(x.at \in {"locked", "free"})
      /\ x.seen \in {executor[e].seen, row}
      /\ runs[x.run].fit
      /\ Undisturbed /\ runs[x.run].limit # NoLimit => Cardinality(Successes) < runs[x.run].limit
  BY <1>2, <1>7, <1>8
<1> HIDE DEF x, r
<1> QED
  BY <1>1, <1>2, <1>3, <1>4, <1>9, ExecutorStep

LEMMA RefreshStep ==
    ASSUME IInv, NEW e \in Executors, Refresh(e)
    PROVE  IInv'
<1> DEFINE x == [executor[e] EXCEPT !.at = "ready", !.seen = row]
<1>1. executor[e] \in Worker /\ row \in Trigger
  BY ExecutorTypes DEF Refresh, IInv, Working, TypeOK
<1>2. x \in Worker /\ x.at = "ready" /\ x.seen = row /\ x.run = executor[e].run
  BY <1>1 DEF Worker
<1>3. executor' = [executor EXCEPT ![e] = x] /\ locked' = locked /\ locked # e
      /\ UNCHANGED <<row, present, runs, count, request, scan, now>>
  BY NoOneIsNoExecutor DEF Refresh, IInv, TypeOK
<1>4. /\ runs[x.run].fit
      /\ Undisturbed /\ runs[x.run].limit # NoLimit => Cardinality(Successes) < runs[x.run].limit
  BY <1>2 DEF Refresh, IInv, AdmittedOK
<1>5. x.at \in {"admitted", "ready"} /\ ~(x.at \in {"locked", "free"})
  BY <1>2
<1> HIDE DEF x
<1> QED
  BY <1>1, <1>2, <1>3, <1>4, <1>5, ExecutorStep

----------------------------------------------------------------------------
(* The claim of a run.                                                     *)
LEMMA StartStep ==
    ASSUME IInv, NEW e \in Executors, Start(e)
    PROVE  IInv'
<1> DEFINE n == count + 1
           x == [executor[e] EXCEPT !.at = "claimed", !.run = n]
           r == [status |-> "running", at |-> now,
                 behind |-> \E y \in Executors : Working(y),
                 fit |-> (row.status = "active" \/ executor[e].force) /\ row.endAt > now,
                 limit |-> row.limit]
<1>1. executor[e] \in Caller /\ locked = e /\ present /\ executor[e].seen = row /\ count < MaxRuns
  BY ExecutorTypes DEF Start, IInv, CallersOK
<1>2. count \in Nat /\ n \in 1..MaxRuns /\ row \in Trigger /\ now \in 0..MaxNow /\ n \notin 1..count
  BY <1>1, BoundsHold DEF IInv, TypeOK, Bounds
<1>3. x \in Worker /\ x.at = "claimed" /\ x.run = n /\ x.seen = row /\ x.force = executor[e].force
  BY <1>1, <1>2 DEF Caller, Worker
<1>4. r \in Run /\ r.limit = row.limit /\ r.status = "running" /\ r.at = now
      /\ (r.behind <=> \E y \in Executors : Working(y))
      /\ (r.fit <=> (row.status = "active" \/ executor[e].force) /\ row.endAt > now)
  <2>1. row.limit \in Limits \cup {NoLimit} /\ row.status \in Status /\ executor[e].force \in BOOLEAN
    BY <1>1, <1>2 DEF Trigger, Caller
  <2> QED
    BY <1>2, <2>1 DEF Run
<1>5. /\ executor' = [executor EXCEPT ![e] = x] /\ runs' = [runs EXCEPT ![n] = r] /\ count' = n
      /\ locked' = NoOne /\ UNCHANGED <<row, present, request, scan, now>>
  BY DEF Start
<1> HIDE DEF x, r
<1>6. /\ executor'[e] = x /\ \A f \in Executors : f # e => executor'[f] = executor[f]
      /\ runs'[n] = r /\ \A i \in 1..MaxRuns : i # n => runs'[i] = runs[i]
      /\ 1..n = 1..count \cup {n} /\ 1..count \subseteq 1..MaxRuns
      /\ \A i \in 1..count : runs'[i] = runs[i] /\ i < n
  <2>1. 1..n = 1..count \cup {n} /\ 1..count \subseteq 1..MaxRuns
    BY <1>2, BoundsHold DEF Bounds
  <2>2. executor \in [Executors -> {Idle} \cup Caller \cup Worker]
        /\ runs \in [1..MaxRuns -> Run \cup {Unclaimed}]
    BY DEF IInv, TypeOK
  <2>3. \A i \in 1..count : i # n /\ i < n
    BY <1>2
  <2> HIDE DEF n
  <2> QED
    BY <1>2, <1>5, <2>1, <2>2, <2>3
<1>7. TypeOK'
  <2>1. \A f \in Executors : executor'[f].run <= count'
    <3> SUFFICES ASSUME NEW f \in Executors PROVE executor'[f].run <= n
      BY <1>5
    <3>1. CASE f = e
      BY <1>2, <1>3, <1>6, <3>1
    <3>2. CASE f # e
      <4>1. executor[f].run <= count /\ executor[f] \in {Idle} \cup Caller \cup Worker
        BY DEF IInv, TypeOK
      <4>2. executor[f].run \in Int
        BY <4>1, BoundsHold DEF Idle, Caller, Worker, Bounds
      <4> QED
        BY <1>2, <1>6, <3>2, <4>1, <4>2
    <3> QED
      BY <3>1, <3>2
  <2>2. executor' \in [Executors -> {Idle} \cup Caller \cup Worker]
    BY <1>3, <1>5 DEF IInv, TypeOK
  <2>3. runs' \in [1..MaxRuns -> Run \cup {Unclaimed}]
    BY <1>4, <1>5 DEF IInv, TypeOK
  <2>4. \A i \in 1..MaxRuns : runs'[i] = Unclaimed <=> i > count'
    <3> SUFFICES ASSUME NEW i \in 1..MaxRuns PROVE runs'[i] = Unclaimed <=> i > n
      BY <1>5
    <3>1. CASE i = n
      <4>1. r # Unclaimed
        BY <1>4 DEF Unclaimed
      <4> QED
        BY <1>2, <1>6, <3>1, <4>1
    <3>2. CASE i # n
      BY <1>2, <1>6, <3>2, BoundsHold DEF IInv, TypeOK, Bounds
    <3> QED
      BY <3>1, <3>2
  <2>5. count' \in 0..MaxRuns
    BY <1>2, <1>5, BoundsHold DEF Bounds
  <2> QED
    BY <1>5, <2>1, <2>2, <2>3, <2>4, <2>5 DEF IInv, TypeOK
<1>8. \A f \in Executors : f # e => executor[f].at \notin {"locked", "free"}
  BY <1>1 DEF IInv, CallersOK
<1>9. CallersOK'
  <2> SUFFICES ASSUME NEW f \in Executors PROVE executor'[f].at \notin {"locked", "free"}
    BY <1>5, NoOneIsNoExecutor DEF CallersOK
  <2> QED
    BY <1>3, <1>6, <1>8
<1>10. TimesOK'
  <2> SUFFICES ASSUME NEW i \in 1..count \cup {n} PROVE runs'[i].at <= now
    BY <1>5, <1>6 DEF TimesOK
  <2>1. CASE i = n
    BY <1>2, <1>4, <1>6, <2>1, BoundsHold DEF Bounds
  <2>2. CASE i \in 1..count
    BY <1>6, <2>2 DEF IInv, TimesOK
  <2> QED
    BY <2>1, <2>2
<1>11. \A f \in Executors : f # e => (Working(f)' <=> Working(f))
  BY <1>6 DEF Working
<1>12. Working(e)' /\ ~Working(e)
  BY <1>1, <1>3, <1>6, ExecutorTypes DEF Working, Worker, Caller, IInv
<1>13. \A f \in Executors : Working(f) => executor[f].run \in 1..count
  BY ExecutorTypes DEF IInv
<1>14. RunsOK'
  <2> SUFFICES ASSUME NEW f \in Executors, Working(f)'
               PROVE  /\ runs'[executor'[f].run].status = "running"
                      /\ \A g \in Executors :
                            Working(g)' /\ executor'[g].run = executor'[f].run => f = g
                      /\ \A j \in 1..count \cup {n} : executor'[f].run < j => runs'[j].behind
    BY <1>5, <1>6 DEF RunsOK
  <2>1. CASE f = e
    <3>1. \A g \in Executors : Working(g)' /\ executor'[g].run = n => f = g
      BY <1>2, <1>6, <1>11, <1>13, <2>1
    <3>2. \A j \in 1..count \cup {n} : ~(n < j)
      BY <1>2
    <3> QED
      BY <1>3, <1>4, <1>6, <2>1, <3>1, <3>2
  <2>2. CASE f # e
    <3>1. Working(f) /\ executor[f].run \in 1..count /\ executor'[f] = executor[f]
      BY <1>6, <1>11, <1>13, <2>2
    <3>2. runs'[executor'[f].run].status = "running"
      BY <1>6, <3>1 DEF IInv, RunsOK
    <3>3. ASSUME NEW g \in Executors, Working(g)', executor'[g].run = executor'[f].run
          PROVE  f = g
      <4>1. g # e
        BY <1>2, <1>3, <1>6, <3>1, <3>3
      <4> QED
        BY <1>6, <1>11, <3>1, <3>3, <4>1 DEF IInv, RunsOK
    <3>4. ASSUME NEW j \in 1..count \cup {n}, executor'[f].run < j
          PROVE  runs'[j].behind
      <4>1. CASE j = n
        BY <1>4, <1>6, <3>1, <4>1
      <4>2. CASE j \in 1..count
        BY <1>6, <3>1, <3>4, <4>2 DEF IInv, RunsOK
      <4> QED
        BY <4>1, <4>2
    <3> QED
      BY <3>2, <3>3, <3>4
  <2> QED
    BY <2>1, <2>2
<1>15. Successes' = Successes /\ FailuresInARow' = FailuresInARow
  <2>1. Successes' = {i \in 1..count \cup {n} : runs'[i].status = "success"}
    BY <1>5, <1>6 DEF Successes
  <2>2. Successes' = Successes
    BY <1>4, <1>6, <2>1 DEF Successes
  <2>3. FailuresInARow' = {i \in 1..count \cup {n} :
                             runs'[i].status = "failed" /\ \A j \in Successes' : j < i}
    BY <1>5, <1>6 DEF FailuresInARow
  <2>4. FailuresInARow' = FailuresInARow
    BY <1>4, <1>6, <2>2, <2>3 DEF FailuresInARow
  <2> QED
    BY <2>2, <2>4
<1>16. Undisturbed' => Undisturbed /\ \A f \in Executors : ~Working(f)
  <2>1. Undisturbed' <=> \A i \in 1..count \cup {n} : ~runs'[i].behind
    BY <1>5, <1>6 DEF Undisturbed
  <2> QED
    BY <1>4, <1>6, <2>1 DEF Undisturbed
<1>17. SeenOK'
  BY <1>3, <1>5, <1>6, <1>11, <1>16 DEF SeenOK
<1>18. AdmittedOK'
  <2> SUFFICES ASSUME NEW f \in Executors
               PROVE  (LET y == executor'[f]
                           q == runs'[executor'[f].run] IN
                       /\ y.at = "claimed" =>
                             /\ q.fit <=> (y.seen.status = "active" \/ y.force) /\ y.seen.endAt > q.at
                             /\ q.limit = y.seen.limit
                       /\ y.at \in {"admitted", "ready"} =>
                             /\ q.fit
                             /\ Undisturbed' /\ q.limit # NoLimit => Cardinality(Successes) < q.limit)
    BY <1>15 DEF AdmittedOK
  <2>1. CASE f = e
    BY <1>3, <1>4, <1>6, <2>1
  <2>2. CASE f # e
    <3>1. CASE Working(f)
      <4>1. executor[f].run \in 1..count /\ executor'[f] = executor[f]
        BY <1>6, <1>13, <2>2, <3>1
      <4>2. runs'[executor'[f].run] = runs[executor[f].run]
        BY <1>6, <4>1
      <4> QED
        BY <1>16, <4>1, <4>2 DEF IInv, AdmittedOK
    <3>2. CASE ~Working(f)
      BY <1>6, <2>2, <3>2 DEF Working
    <3> QED
      BY <3>1, <3>2
  <2> QED
    BY <2>1, <2>2
<1>19. RunsApart'
  <2> SUFFICES ASSUME NEW i \in 1..count \cup {n}, NEW j \in 1..count \cup {n},
                      i < j, runs'[i].status = "running"
               PROVE  runs'[i].at + StaleAfter < runs'[j].at
    BY <1>5, <1>6 DEF RunsApart
  <2>1. i \in 1..count
    BY <1>2
  <2>2. CASE j = n
    BY <1>1, <1>4, <1>6, <2>1, <2>2 DEF Start, IInv, CallersOK
  <2>3. CASE j \in 1..count
    BY <1>6, <2>1, <2>3 DEF IInv, RunsApart
  <2> QED
    BY <2>2, <2>3
<1>20. CountersAgree'
  BY <1>5, <1>15, <1>16 DEF IInv, CountersAgree
<1>21. LimitsKept'
  <2>1. \A i \in Successes : i \in 1..count
    BY DEF Successes
  <2> QED
    BY <1>6, <1>15, <1>16, <2>1 DEF IInv, LimitsKept
<1> QED
  BY <1>7, <1>9, <1>10, <1>14, <1>17, <1>18, <1>19, <1>20, <1>21 DEF IInv

----------------------------------------------------------------------------
(* As long as no run was claimed behind another, one executor at most      *)
(* works, and on the last run.                                             *)
LEMMA OneWorks ==
    ASSUME IInv, Undisturbed, NEW e \in Executors, Working(e)
    PROVE  executor[e].run = count /\ \A f \in Executors : Working(f) => f = e
<1>1. \A f \in Executors : Working(f) => executor[f].run = count
  <2> SUFFICES ASSUME NEW f \in Executors, Working(f) PROVE executor[f].run = count
    OBVIOUS
  <2>1. executor[f].run \in 1..count /\ count \in Nat
    BY ExecutorTypes, BoundsHold DEF IInv, TypeOK, Bounds
  <2>2. count \in 1..count
    BY <2>1
  <2>3. ~(executor[f].run < count)
    BY <2>2 DEF IInv, RunsOK, Undisturbed
  <2> QED
    BY <2>1, <2>3
<1> QED
  BY <1>1 DEF IInv, RunsOK

(* The end of a run, while the trigger is there.                           *)
LEMMA EndStep ==
    ASSUME IInv, NEW e \in Executors, Working(e), NEW new \in Trigger,
           NEW outcome \in {"success", "failed", "skipped"},
           Finish(e, outcome, new), present,
           outcome = "success" => /\ executor[e].at # "claimed"
                                  /\ new.done = executor[e].seen.done + 1
                                  /\ new.failures = 0,
           outcome # "success" => new.done = executor[e].seen.done,
           outcome = "failed" => new.failures = executor[e].seen.failures + 1,
           outcome = "skipped" => new.failures = executor[e].seen.failures
    PROVE  IInv'
<1> DEFINE k == executor[e].run
           seen == executor[e].seen
<1>1. executor[e] \in Worker /\ k \in 1..count /\ seen \in Trigger
  BY ExecutorTypes DEF IInv, Worker
<1>2. /\ locked = NoOne /\ row' = Written(seen, new)
      /\ runs' = [runs EXCEPT ![k].status = outcome]
      /\ executor' = [executor EXCEPT ![e] = Idle]
      /\ UNCHANGED <<present, count, locked, request, scan, now>>
  BY DEF Finish
<1>3. count \in Nat /\ 1..count \subseteq 1..MaxRuns /\ row \in Trigger
      /\ runs \in [1..MaxRuns -> Run \cup {Unclaimed}]
      /\ executor \in [Executors -> {Idle} \cup Caller \cup Worker]
  BY BoundsHold DEF IInv, TypeOK, Bounds
<1>4. \A i \in 1..count : runs[i] \in Run
  BY <1>3, BoundsHold DEF IInv, TypeOK, Bounds
<1> HIDE DEF k, seen
<1>5. /\ \A i \in 1..MaxRuns : i # k => runs'[i] = runs[i]
      /\ runs'[k] = [runs[k] EXCEPT !.status = outcome]
  BY <1>1, <1>2, <1>3
<1>6. /\ runs'[k] \in Run /\ runs'[k].status = outcome
      /\ \A i \in 1..count : /\ runs'[i].at = runs[i].at /\ runs'[i].behind = runs[i].behind
                             /\ runs'[i].fit = runs[i].fit /\ runs'[i].limit = runs[i].limit
  <2>1. runs[k] \in Run
    BY <1>1, <1>4
  <2>2. /\ runs'[k] \in Run /\ runs'[k].status = outcome
        /\ runs'[k].at = runs[k].at /\ runs'[k].behind = runs[k].behind
        /\ runs'[k].fit = runs[k].fit /\ runs'[k].limit = runs[k].limit
    BY <1>5, <2>1 DEF Run
  <2> QED
    BY <1>3, <1>5, <2>2
<1>7. executor'[e] = Idle /\ \A f \in Executors : f # e => executor'[f] = executor[f]
  BY <1>2, <1>3
<1>8. \A f \in Executors : executor'[f].at \notin {"locked", "free"}
  BY <1>2, <1>7, NoOneIsNoExecutor DEF IInv, CallersOK, Idle
<1>9. \A f \in Executors : Working(f)' => f # e /\ Working(f)
  BY <1>7 DEF Working, Idle
<1>10. TypeOK'
  <2>1. row' \in Trigger
    BY <1>1, <1>2, <1>3, WrittenKeeps
  <2>2. runs' \in [1..MaxRuns -> Run \cup {Unclaimed}]
    BY <1>1, <1>2, <1>3, <1>5, <1>6
  <2>3. \A i \in 1..MaxRuns : runs'[i] = Unclaimed <=> i > count
    <3>1. runs'[k] # Unclaimed /\ ~(k > count)
      BY <1>1, <1>3, <1>6 DEF Unclaimed
    <3> QED
      BY <1>5, <3>1 DEF IInv, TypeOK
  <2>4. \A f \in Executors : executor'[f].run <= count
    BY <1>3, <1>7 DEF IInv, TypeOK, Idle
  <2> QED
    BY <1>2, <1>3, <2>1, <2>2, <2>3, <2>4 DEF IInv, TypeOK
<1>11. CallersOK'
  BY <1>2, <1>8, NoOneIsNoExecutor DEF CallersOK
<1>12. TimesOK'
  BY <1>2, <1>6 DEF IInv, TimesOK
<1>13. RunsOK'
  <2> SUFFICES ASSUME NEW f \in Executors, Working(f)'
               PROVE  /\ runs'[executor'[f].run].status = "running"
                      /\ \A g \in Executors :
                            Working(g)' /\ executor'[g].run = executor'[f].run => f = g
                      /\ \A j \in 1..count : executor'[f].run < j => runs'[j].behind
    BY <1>2 DEF RunsOK
  <2>1. f # e /\ Working(f) /\ executor'[f] = executor[f] /\ executor[f].run \in 1..count
    BY <1>7, <1>9, ExecutorTypes DEF IInv
  <2>2. executor[f].run # k
    BY <2>1 DEF k, IInv, RunsOK
  <2>3. runs'[executor'[f].run].status = "running"
    BY <1>3, <1>5, <2>1, <2>2 DEF IInv, RunsOK
  <2>4. \A g \in Executors : Working(g)' /\ executor'[g].run = executor'[f].run => f = g
    BY <1>7, <1>9, <2>1 DEF IInv, RunsOK
  <2>5. \A j \in 1..count : executor'[f].run < j => runs'[j].behind
    BY <1>6, <2>1 DEF IInv, RunsOK
  <2> QED
    BY <2>3, <2>4, <2>5
<1>14. Undisturbed' <=> Undisturbed
  BY <1>2, <1>6 DEF Undisturbed
<1>15. Undisturbed => k = count /\ \A f \in Executors : ~Working(f)'
  BY <1>9, OneWorks DEF k
<1>16. SeenOK'
  BY <1>14, <1>15 DEF SeenOK
<1>17. AdmittedOK'
  <2> SUFFICES ASSUME NEW f \in Executors, Working(f)'
               PROVE  (LET y == executor'[f]
                           q == runs'[executor'[f].run] IN
                       /\ y.at = "claimed" =>
                             /\ q.fit <=> (y.seen.status = "active" \/ y.force) /\ y.seen.endAt > q.at
                             /\ q.limit = y.seen.limit
                       /\ y.at \in {"admitted", "ready"} =>
                             /\ q.fit
                             /\ Undisturbed' /\ q.limit # NoLimit => Cardinality(Successes') < q.limit)
    BY DEF AdmittedOK, Working
  <2>1. executor'[f] = executor[f] /\ executor[f].run \in 1..count
    BY <1>7, <1>9, ExecutorTypes DEF IInv
  <2> QED
    BY <1>6, <1>14, <1>15, <2>1 DEF IInv, AdmittedOK
<1>18. RunsApart'
  <2> SUFFICES ASSUME NEW i \in 1..count, NEW j \in 1..count, i < j, runs'[i].status = "running"
               PROVE  runs'[i].at + StaleAfter < runs'[j].at
    BY <1>2 DEF RunsApart
  <2>1. runs[i].status = "running"
    BY <1>3, <1>5, <1>6
  <2> QED
    BY <1>6, <2>1 DEF IInv, RunsApart
<1>19. Successes' = IF outcome = "success" THEN Successes \cup {k} ELSE Successes
  <2>1. k \notin Successes
    BY DEF k, Successes, IInv, RunsOK
  <2> QED
    BY <1>1, <1>2, <1>3, <1>5, <1>6, <2>1 DEF Successes
<1>20. /\ IsFiniteSet(Successes) /\ Cardinality(Successes) \in Nat
       /\ IsFiniteSet(FailuresInARow) /\ Cardinality(FailuresInARow) \in Nat
       /\ Successes \subseteq 1..count /\ k \notin Successes /\ k \notin FailuresInARow
  BY SuccessesAreFinite DEF k, Successes, FailuresInARow, IInv, RunsOK
<1>21. CountersAgree'
  <2> SUFFICES ASSUME Undisturbed
               PROVE  /\ row'.done = Cardinality(Successes')
                      /\ row'.failures = Cardinality(FailuresInARow')
    BY <1>14 DEF CountersAgree
  <2>1. /\ seen.done = row.done /\ seen.failures = row.failures
        /\ row.done = Cardinality(Successes) /\ row.failures = Cardinality(FailuresInARow)
        /\ row.done \in Nat /\ row.failures \in Nat
    BY <1>3 DEF seen, IInv, SeenOK, CountersAgree, Trigger
  <2>2. row'.done = new.done /\ row'.failures = new.failures
    <3>1. /\ row'.done = Merged(seen.done, new.done, row.done)
          /\ row'.failures = Merged(seen.failures, new.failures, row.failures)
      BY <1>2 DEF Written
    <3> QED
      BY <2>1, <3>1 DEF Merged
  <2>3. CASE outcome = "success"
    <3>1. row'.done = Cardinality(Successes')
      <4>1. Cardinality(Successes \cup {k}) = Cardinality(Successes) + 1
        BY <1>20, FS_AddElement
      <4> QED
        BY <1>19, <2>1, <2>2, <2>3, <4>1 DEF seen
    <3>2. FailuresInARow' = {}
      <4>1. k \in Successes' /\ k = count
        BY <1>15, <1>19, <2>3
      <4>2. \A i \in 1..count : ~(count < i)
        BY <1>3
      <4>3. FailuresInARow' \subseteq {i \in 1..count : k < i}
        BY <1>2, <4>1 DEF FailuresInARow
      <4> QED
        BY <4>1, <4>2, <4>3
    <3> QED
      BY <2>2, <2>3, <3>1, <3>2, FS_EmptySet
  <2>4. CASE outcome = "skipped"
    <3>1. FailuresInARow' = FailuresInARow
      BY <1>1, <1>2, <1>3, <1>5, <1>6, <1>19, <1>20, <2>4 DEF FailuresInARow
    <3> QED
      BY <1>19, <2>1, <2>2, <2>4, <3>1 DEF seen
  <2>5. CASE outcome = "failed"
    <3>1. \A j \in Successes : j < k
      BY <1>3, <1>15, <1>20
    <3>2. FailuresInARow' = FailuresInARow \cup {k}
      <4>1. Successes' = Successes
        BY <1>19, <2>5
      <4>2. FailuresInARow' = {i \in 1..count : runs'[i].status = "failed"
                                                 /\ \A j \in Successes : j < i}
        BY <1>2, <4>1 DEF FailuresInARow
      <4>3. k \in FailuresInARow'
        BY <1>1, <1>6, <2>5, <3>1, <4>2
      <4>4. \A i \in 1..count : i # k => runs'[i] = runs[i]
        BY <1>3, <1>5
      <4>5. \A i \in 1..count : i # k => (i \in FailuresInARow' <=> i \in FailuresInARow)
        BY <4>2, <4>4 DEF FailuresInARow
      <4>6. FailuresInARow' \subseteq 1..count /\ FailuresInARow \subseteq 1..count
        BY <4>2 DEF FailuresInARow
      <4>7. \A i : i \in FailuresInARow' <=> i \in FailuresInARow \cup {k}
        BY <1>1, <4>3, <4>5, <4>6
      <4> QED
        BY <4>7, Zenon
    <3>3. row'.failures = Cardinality(FailuresInARow')
      <4>1. Cardinality(FailuresInARow \cup {k}) = Cardinality(FailuresInARow) + 1
        BY <1>20, FS_AddElement
      <4> QED
        BY <2>1, <2>2, <2>5, <3>2, <4>1 DEF seen
    <3> QED
      BY <1>19, <2>1, <2>2, <2>5, <3>3 DEF seen
  <2> QED
    BY <2>3, <2>4, <2>5
<1>22. LimitsKept'
  <2> SUFFICES ASSUME Undisturbed, NEW i \in Successes'
               PROVE  /\ runs'[i].fit
                      /\ runs'[i].limit # NoLimit =>
                            Cardinality({j \in Successes' : j <= i}) <= runs'[i].limit
    BY <1>14 DEF LimitsKept
  <2>1. CASE i \in Successes
    <3>1. {j \in Successes' : j <= i} = {j \in Successes : j <= i}
      <4>1. i \in 1..count /\ i # k
        BY <1>20, <2>1
      <4>2. ~(k <= i)
        BY <1>3, <1>15, <4>1
      <4> QED
        BY <1>19, <4>2
    <3> QED
      BY <1>6, <1>20, <2>1, <3>1 DEF IInv, LimitsKept
  <2>2. CASE i \notin Successes
    <3>1. i = k /\ outcome = "success" /\ Successes' = Successes \cup {k}
      BY <1>19, <2>2
    <3>2. {j \in Successes' : j <= i} = Successes \cup {k}
      <4>1. i = count /\ i <= i /\ \A j \in Successes : j <= i
        BY <1>3, <1>15, <1>20, <3>1
      <4> QED
        BY <3>1, <4>1
    <3>3. Cardinality(Successes \cup {k}) = Cardinality(Successes) + 1
      BY <1>20, FS_AddElement
    <3>4. executor[e].at \in {"admitted", "ready"}
      BY <3>1 DEF Working
    <3>5. runs[k].fit /\ (runs[k].limit # NoLimit => Cardinality(Successes) < runs[k].limit)
      BY <3>4 DEF k, IInv, AdmittedOK
    <3>6. runs[k].limit # NoLimit => runs[k].limit \in Nat
      BY <1>1, <1>4, BoundsHold DEF Run, Bounds
    <3>7. runs'[i].fit = runs[k].fit /\ runs'[i].limit = runs[k].limit
      BY <1>1, <1>6, <3>1
    <3>8. runs[k].limit # NoLimit => Cardinality(Successes) + 1 <= runs[k].limit
      BY <1>20, <3>5, <3>6
    <3> QED
      BY <3>2, <3>3, <3>5, <3>7, <3>8
  <2> QED
    BY <2>1, <2>2
<1> QED
  BY <1>10, <1>11, <1>12, <1>13, <1>16, <1>17, <1>18, <1>21, <1>22 DEF IInv

(* The end of a run, whether or not the trigger is still there.            *)
LEMMA FinishStep ==
    ASSUME IInv, NEW e \in Executors, Working(e), NEW new \in Trigger,
           NEW outcome \in {"success", "failed", "skipped"},
           Finish(e, outcome, new),
           outcome = "success" => /\ executor[e].at # "claimed"
                                  /\ new.done = executor[e].seen.done + 1
                                  /\ new.failures = 0,
           outcome # "success" => new.done = executor[e].seen.done,
           outcome = "failed" => new.failures = executor[e].seen.failures + 1,
           outcome = "skipped" => new.failures = executor[e].seen.failures
    PROVE  IInv'
<1>1. CASE present
  BY <1>1, EndStep
<1>2. CASE ~present
  <2>1. Idle.at = "idle" /\ Idle \notin Worker /\ Idle \in {Idle} \cup Caller \cup Worker
    BY DEF Idle, Worker
  <2>2. executor' = [executor EXCEPT ![e] = Idle] /\ locked = NoOne /\ locked' = locked
        /\ UNCHANGED <<row, present, runs, count, request, scan, now>>
    BY <1>2 DEF Finish
  <2>3. ~(Idle.at \in {"locked", "free"}) /\ Idle.at # "free" /\ locked' # e
    BY <2>1, <2>2, NoOneIsNoExecutor
  <2> QED
    BY <2>1, <2>2, <2>3, ExecutorStep
<1> QED
  BY <1>1, <1>2

LEMMA FailureTypes ==
    ASSUME NEW t \in Trigger
    PROVE  /\ AfterFailure(t) \in Trigger
           /\ AfterFailure(t).done = t.done /\ AfterFailure(t).failures = t.failures + 1
           /\ AfterFailure(t).once = t.once /\ AfterFailure(t).limit = t.limit
           /\ AfterFailure(t).pauseAfter = t.pauseAfter /\ AfterFailure(t).endAt = t.endAt
           /\ AfterFailure(t).status \in {"paused", t.status}
<1> DEFINE n == t.failures + 1
<1>1. PICK s \in {"paused", t.status} :
         AfterFailure(t) = [t EXCEPT !.failures = n, !.status = s]
  BY DEF AfterFailure
<1>2. n \in Nat /\ s \in Status
  BY <1>1 DEF Trigger, Status
<1> HIDE DEF n
<1>3. /\ AfterFailure(t) \in Trigger
      /\ AfterFailure(t).done = t.done /\ AfterFailure(t).failures = n
      /\ AfterFailure(t).once = t.once /\ AfterFailure(t).limit = t.limit
      /\ AfterFailure(t).pauseAfter = t.pauseAfter /\ AfterFailure(t).endAt = t.endAt
      /\ AfterFailure(t).status = s
  BY <1>1, <1>2 DEF Trigger
<1> QED
  BY <1>1, <1>3 DEF n

LEMMA SuccessTypes ==
    ASSUME NEW t \in Trigger
    PROVE  /\ AfterSuccess(t) \in Trigger
           /\ AfterSuccess(t).done = t.done + 1 /\ AfterSuccess(t).failures = 0
           /\ AfterSuccess(t).once = t.once /\ AfterSuccess(t).limit = t.limit
           /\ AfterSuccess(t).pauseAfter = t.pauseAfter /\ AfterSuccess(t).endAt = t.endAt
           /\ AfterSuccess(t).status \in {"completed", t.status}
<1> DEFINE n == t.done + 1
           s == IF t.once \/ (t.limit # NoLimit /\ t.done + 1 >= t.limit)
                THEN "completed" ELSE t.status
           zeroed == [t EXCEPT !.failures = 0]
           counted == [zeroed EXCEPT !.done = n]
<1>1. n \in Nat /\ s \in Status /\ s \in {"completed", t.status}
  BY DEF Trigger, Status
<1>2. /\ zeroed \in Trigger
      /\ zeroed.done = t.done /\ zeroed.failures = 0 /\ zeroed.once = t.once
      /\ zeroed.limit = t.limit /\ zeroed.pauseAfter = t.pauseAfter
      /\ zeroed.endAt = t.endAt /\ zeroed.status = t.status
  BY DEF Trigger
<1> HIDE DEF n, s
<1>3. AfterSuccess(t) = [counted EXCEPT !.status = s]
  BY <1>2 DEF AfterSuccess, n, s
<1> HIDE DEF zeroed
<1>4. /\ counted \in Trigger
      /\ counted.done = n /\ counted.failures = 0 /\ counted.once = t.once
      /\ counted.limit = t.limit /\ counted.pauseAfter = t.pauseAfter
      /\ counted.endAt = t.endAt /\ counted.status = t.status
  BY <1>1, <1>2 DEF Trigger
<1> HIDE DEF counted
<1>5. /\ AfterSuccess(t) \in Trigger
      /\ AfterSuccess(t).done = n /\ AfterSuccess(t).failures = 0
      /\ AfterSuccess(t).once = t.once /\ AfterSuccess(t).limit = t.limit
      /\ AfterSuccess(t).pauseAfter = t.pauseAfter /\ AfterSuccess(t).endAt = t.endAt
      /\ AfterSuccess(t).status = s
  BY <1>1, <1>3, <1>4 DEF Trigger
<1> QED
  BY <1>1, <1>5 DEF n

(* The trigger whose agent is not there.                                   *)
LEMMA LostTypes ==
    ASSUME NEW t \in Trigger, NEW lost, lost = [t EXCEPT !.status = "error"]
    PROVE  /\ lost \in Trigger /\ lost.done = t.done /\ lost.failures = t.failures
           /\ lost.once = t.once /\ lost.limit = t.limit
           /\ lost.pauseAfter = t.pauseAfter /\ lost.endAt = t.endAt
           /\ lost.status = "error"
  BY DEF Trigger, Status

LEMMA ExecuteStep ==
    ASSUME IInv, NEW e \in Executors, Execute(e)
    PROVE  IInv'
<1> DEFINE seen == executor[e].seen
<1>1. Working(e) /\ seen \in Trigger
  <2>1. Working(e)
    BY DEF Execute, RefuseInactive, RefuseOver, Admit, Refresh, Fail, FailWithoutAgent,
           Succeed, Working
  <2> QED
    BY <2>1, ExecutorTypes DEF IInv, Worker
<1>2. CASE RefuseInactive(e)
  BY <1>1, <1>2, FinishStep DEF RefuseInactive
<1>3. CASE RefuseOver(e)
  BY <1>1, <1>3, CompletedType, FinishStep DEF RefuseOver
<1>4. CASE Admit(e)
  BY <1>4, AdmitStep
<1>5. CASE Refresh(e)
  BY <1>5, RefreshStep
<1>6. CASE Fail(e)
  BY <1>1, <1>6, FailureTypes, FinishStep DEF Fail
<1>7. CASE FailWithoutAgent(e)
  <2> DEFINE lost == [seen EXCEPT !.status = "error"]
  <2>1. lost \in Trigger /\ lost.done = seen.done /\ lost.failures = seen.failures
    BY <1>1, LostTypes
  <2>2. Finish(e, "failed", AfterFailure(lost))
    BY <1>7 DEF FailWithoutAgent
  <2> HIDE DEF lost
  <2> QED
    BY <1>1, <2>1, <2>2, FailureTypes, FinishStep
<1>8. CASE Succeed(e)
  BY <1>1, <1>8, SuccessTypes, FinishStep DEF Succeed
<1> QED
  BY <1>2, <1>3, <1>4, <1>5, <1>6, <1>7, <1>8 DEF Execute

LEMMA NextInv == IInv /\ [Next]_vars => IInv'
<1> SUFFICES ASSUME IInv, [Next]_vars PROVE IInv'
  OBVIOUS
<1>1. ASSUME NEW e \in Executors, NEW force \in BOOLEAN, Enter(e, force) PROVE IInv'
  BY <1>1, EnterStep
<1>2. ASSUME NEW e \in Executors, Claim(e) PROVE IInv'
  BY <1>2, LeaveStep, LookStep, StartStep DEF Claim
<1>3. ASSUME NEW e \in Executors, Execute(e) PROVE IInv'
  BY <1>3, ExecuteStep
<1>4. ASSUME NEW e \in Executors, Abandon(e) PROVE IInv'
  BY <1>4, LeaveStep
<1>5. CASE \/ \E u \in Requests : Load(u) \/ Save(u) \/ Sync(u) \/ Drop(u)
           \/ Delete \/ Scan \/ Reconcile \/ Tick
  BY <1>5, UserStep
<1>6. CASE UNCHANGED vars
  <2>1. row \in Trigger /\ present \in BOOLEAN /\ now \in 0..MaxNow /\ now >= now
        /\ request \in [Requests -> {Quiet} \cup Editor] /\ scan \in Trigger \cup {NoRow}
    BY BoundsHold DEF IInv, TypeOK, Bounds
  <2> QED
    BY <1>6, <2>1, RowStep DEF vars
<1> QED
  BY <1>1, <1>2, <1>3, <1>4, <1>5, <1>6 DEF Next

LEMMA Invariance == Spec => []IInv
  BY InitInv, NextInv, PTL DEF Spec

----------------------------------------------------------------------------
(* The variables hold values of their types.                               *)
THEOREM TypeCorrect == Spec => []TypeOK
<1>1. IInv => TypeOK
  BY DEF IInv
<1> QED
  BY <1>1, Invariance, PTL

(* A run that has not ended is older than StaleAfter at every later claim: *)
(* the row lock around the check and the insert of execute_trigger keeps   *)
(* any number of fires and run-now requests apart.                         *)
THEOREM OneRunAtATime == Spec => []RunsApart
<1>1. IInv => RunsApart
  BY DEF IInv
<1> QED
  BY <1>1, Invariance, PTL

(* While no run outlives StaleAfter, run_count and failure_count, which    *)
(* finish_trigger_run computes from an old copy of the row, are right.     *)
THEOREM CountersAreRight == Spec => []CountersAgree
<1>1. IInv => CountersAgree
  BY DEF IInv
<1> QED
  BY <1>1, Invariance, PTL

(* ... and every success was within max_runs and end_at, and of an active  *)
(* trigger unless forced, as the row was when the run was claimed.         *)
THEOREM LimitsAreKept == Spec => []LimitsKept
<1>1. IInv => LimitsKept
  BY DEF IInv
<1> QED
  BY <1>1, Invariance, PTL

----------------------------------------------------------------------------
(* What a session writes that changes none of the columns a user sets, but *)
(* perhaps the status.                                                     *)
LEMMA EditsKept ==
    ASSUME row \in Trigger, NEW old \in Trigger, NEW new \in Trigger,
           new.once = old.once, new.limit = old.limit,
           new.pauseAfter = old.pauseAfter, new.endAt = old.endAt,
           new.status = old.status \/ new.status # "active",
           row' = Written(old, new)
    PROVE  /\ row'.status # row.status => row'.status # "active"
           /\ <<row'.once, row'.limit, row'.pauseAfter, row'.endAt>>
              = <<row.once, row.limit, row.pauseAfter, row.endAt>>
  BY DEF Written, Merged, Trigger

\* what a run can have made of the row it has seen, when it ends
Outcomes(t) == {t, Completed(t), AfterSuccess(t), AfterFailure(t),
                AfterFailure([t EXCEPT !.status = "error"])}

LEMMA AfterEdits ==
    ASSUME NEW t \in Trigger, NEW new \in Outcomes(t)
    PROVE  /\ new \in Trigger
           /\ new.once = t.once /\ new.limit = t.limit
           /\ new.pauseAfter = t.pauseAfter /\ new.endAt = t.endAt
           /\ new.status = t.status \/ new.status # "active"
<1>1. CASE new = t
  BY <1>1
<1>2. CASE new = Completed(t)
  BY <1>2 DEF Completed, Trigger, Status
<1>3. CASE new = AfterSuccess(t)
  BY <1>3, SuccessTypes
<1>4. CASE new = AfterFailure(t)
  BY <1>4, FailureTypes
<1>5. CASE new = AfterFailure([t EXCEPT !.status = "error"])
  <2>1. PICK lost : lost = [t EXCEPT !.status = "error"]
    OBVIOUS
  <2>2. new = AfterFailure(lost)
    BY <1>5, <2>1
  <2> QED
    BY <2>1, <2>2, LostTypes, FailureTypes
<1> QED
  BY <1>1, <1>2, <1>3, <1>4, <1>5 DEF Outcomes

(* No commit of a run or of the leader makes a trigger active or changes   *)
(* its schedule or its limits, whatever copy of the row it is made from.   *)
THEOREM EditsAreKept == Spec => EditsSurvive
<1> DEFINE Kept == request' = request =>
              /\ row'.status # row.status => row'.status # "active"
              /\ <<row'.once, row'.limit, row'.pauseAfter, row'.endAt>>
                 = <<row.once, row.limit, row.pauseAfter, row.endAt>>
<1>1. ASSUME TypeOK, [Next]_vars PROVE [Kept]_vars
  <2> SUFFICES ASSUME request' = request, row' # row
               PROVE  /\ row'.status # row.status => row'.status # "active"
                      /\ <<row'.once, row'.limit, row'.pauseAfter, row'.endAt>>
                         = <<row.once, row.limit, row.pauseAfter, row.endAt>>
    BY <1>1
  <2>1. row \in Trigger
    BY <1>1 DEF TypeOK
  <2>2. \/ \E e \in Executors : \E new : \E outcome : Finish(e, outcome, new) /\ Working(e)
           /\ new \in Outcomes(executor[e].seen)
        \/ Reconcile
    <3>1. ASSUME NEW u \in Requests, Save(u) \/ Sync(u) PROVE FALSE
      <4>1. request[u].at # request'[u].at
        BY <1>1, <3>1 DEF Save, Sync, Quiet, TypeOK
      <4> QED
        BY <4>1
    <3>2. ~UNCHANGED vars
      BY DEF vars
    <3>3. ASSUME NEW e \in Executors, Execute(e)
          PROVE  \E new : \E outcome : Finish(e, outcome, new) /\ Working(e)
                 /\ new \in Outcomes(executor[e].seen)
      BY <3>3 DEF Execute, RefuseInactive, RefuseOver, Admit, Refresh, Fail, FailWithoutAgent,
                  Succeed, Working, Outcomes
    <3>4. \/ \E e \in Executors : Execute(e)
          \/ \E u \in Requests : Save(u) \/ Sync(u)
          \/ Reconcile
      BY <1>1, <3>2 DEF Next, Enter, Claim, Leave, Look, Start, Abandon, Load, Drop, Delete,
                        Scan, Tick
    <3> QED
      BY <3>1, <3>3, <3>4
  <2>3. CASE Reconcile
    <3>1. scan \in Trigger /\ row' = Written(scan, Completed(scan))
      BY <1>1, <2>3 DEF Reconcile, TypeOK
    <3>2. Completed(scan) \in Outcomes(scan)
      BY DEF Outcomes
    <3> QED
      BY <2>1, <3>1, <3>2, AfterEdits, EditsKept
  <2>4. CASE \E e \in Executors : \E new : \E outcome : Finish(e, outcome, new) /\ Working(e)
           /\ new \in Outcomes(executor[e].seen)
    <3>1. PICK e \in Executors : \E new : \E outcome :
             Finish(e, outcome, new) /\ Working(e) /\ new \in Outcomes(executor[e].seen)
      BY <2>4
    <3> PICK new : \E outcome :
             Finish(e, outcome, new) /\ Working(e) /\ new \in Outcomes(executor[e].seen)
      BY <3>1
    <3>2. executor[e].seen \in Trigger
      BY <1>1, ExecutorTypes DEF Worker
    <3>3. row' = Written(executor[e].seen, new)
      BY DEF Finish
    <3> QED
      BY <2>1, <3>2, <3>3, AfterEdits, EditsKept
  <2> QED
    BY <2>2, <2>3, <2>4
<1> QED
  BY <1>1, TypeCorrect, PTL DEF Spec, EditsSurvive
=============================================================================
