------------------------ MODULE SkillEvaluationProofs ------------------------
(***************************************************************************)
(* Proofs about SkillEvaluation, for any number of processes and runs and  *)
(* any limits.  The invariant says where a run can be: in one place of one *)
(* process at a time, and in none that leads to its row again once it is   *)
(* settled; and that, until a lock is lost, loops and reconciliations      *)
(* belong to the process that holds the lock.                              *)
(***************************************************************************)
EXTENDS SkillEvaluation, TLAPS, FiniteSetTheorems, SequenceTheorems

InQueue(p, r) == \E i \in 1..Len(queue[p]) : queue[p][i] = r

Slots == \A p \in Procs :
    /\ IsFiniteSet(creating[p])
    /\ reserved[p] = Cardinality(creating[p])
    /\ Len(queue[p]) + reserved[p] <= QueueMax

QueuedOnce == \A p \in Procs : \A i, j \in 1..Len(queue[p]) :
    queue[p][i] = queue[p][j] => i = j

Has(p, r) == r \in creating[p] \/ InQueue(p, r) \/ task[p][r] # "none"

\* a process has a run in one place, and one process has it
OnePlace == \A p \in Procs, r \in Runs :
    /\ r \in creating[p] => ~InQueue(p, r) /\ task[p][r] = "none"
    /\ InQueue(p, r) => task[p][r] = "none"
    /\ InQueue(p, r) \/ task[p][r] # "none" => status[r] # "none"
    /\ \A q \in Procs : Has(p, r) /\ Has(q, r) => p = q

\* what a completed or billed run can still come to
Settled == \A r \in Runs :
    /\ (status[r] = "completed" \/ billed[r]) =>
           /\ ~requested[r] /\ status[r] \in {"completed", "failed"}
           /\ \A p \in Procs : r \notin creating[p] /\ ~InQueue(p, r)
                               /\ task[p][r] \in {"none", "committed"}
    /\ \A p \in Procs : task[p][r] = "committed" =>
           ~requested[r] /\ status[r] \in {"completed", "failed"}

\* what belongs to the holder of the lock
Led == \A p \in Procs :
    /\ phase[p] \in {"starting", "down"} => loop[p] = "off"
    /\ stale[p] # {} => phase[p] = "starting"
    /\ \A r \in Runs : task[p][r] # "none" => loop[p] # "off"
    /\ ~lost => /\ loop[p] # "off" \/ phase[p] = "starting" => lock = p
                /\ \A r \in Runs : task[p][r] \in {"evaluating", "cancelling"} =>
                                       status[r] \in {"grading", "cancelled"}

IInv == TypeOK /\ Slots /\ QueuedOnce /\ OnePlace /\ Settled /\ Led

LEMMA InitInv == Init => IInv
<1> SUFFICES ASSUME Init PROVE IInv
  OBVIOUS
<1>1. TypeOK
  BY EmptySeq DEF Init, TypeOK, Statuses
<1>2. \A p \in Procs : Len(queue[p]) = 0 /\ \A r \in Runs : ~InQueue(p, r)
  BY EmptySeq DEF Init, InQueue
<1>3. Slots
  BY <1>2, FS_EmptySet, LimitsArePositive DEF Init, Slots
<1>4. QueuedOnce
  BY <1>2 DEF QueuedOnce
<1>5. OnePlace /\ Settled /\ Led
  BY <1>2 DEF Init, OnePlace, Has, Settled, Led
<1> QED
  BY <1>1, <1>3, <1>4, <1>5 DEF IInv

----------------------------------------------------------------------------
(* A step that leaves the intake alone keeps the slots and the queues.     *)
LEMMA IntakeKept ==
    ASSUME Slots, QueuedOnce, UNCHANGED intake
    PROVE  /\ Slots' /\ QueuedOnce'
           /\ \A p \in Procs, r \in Runs : InQueue(p, r)' <=> InQueue(p, r)
  BY DEF intake, Slots, QueuedOnce, InQueue

(* Start, Reconcile, Stop and LoseLock write the leadership and, when they *)
(* reconcile, rows that nobody evaluates.                                  *)
LEMMA LeadershipStep ==
    ASSUME IInv, NEW p \in Procs, Start(p) \/ Reconcile(p) \/ Stop(p) \/ LoseLock(p)
    PROVE  IInv'
<1> USE DEF intake, row, leadership
<1>1. UNCHANGED <<intake, task, requested, billed>>
  BY DEF Start, Reconcile, Stop, LoseLock
<1>2. /\ Slots' /\ QueuedOnce'
      /\ \A q \in Procs, r \in Runs : InQueue(q, r)' <=> InQueue(q, r)
  BY <1>1, IntakeKept DEF IInv
<1>3. TypeOK'
  <2> USE DEF IInv, TypeOK, Statuses
  <2>1. CASE Start(p)
    <3>1. {s \in Runs : status[s] = "grading"} \in SUBSET Runs
      OBVIOUS
    <3>2. UNCHANGED <<status, requested, billed, lost, creating, reserved, queue, loop, wake, task>>
      BY <2>1 DEF Start
    <3>3. lock' \in Procs \cup {NoProc} /\ phase' \in [Procs -> {"down", "starting", "up", "stopping"}]
      BY <2>1 DEF Start
    <3>4. stale' \in [Procs -> SUBSET Runs]
      BY <2>1, <3>1 DEF Start
    <3> QED
      BY <3>2, <3>3, <3>4
  <2>2. CASE Reconcile(p)
    BY <2>2 DEF Reconcile
  <2>3. CASE Stop(p) \/ LoseLock(p)
    BY <2>3 DEF Stop, LoseLock
  <2> QED
    BY <2>1, <2>2, <2>3
<1>4. \A r \in Runs : status'[r] = status[r] \/ (status'[r] = "failed" /\ r \in stale[p] /\ Reconcile(p))
  BY DEF IInv, TypeOK, Start, Reconcile, Stop, LoseLock
<1>5. OnePlace'
  BY <1>1, <1>2, <1>4 DEF IInv, OnePlace, Has
<1>6. Settled'
  BY <1>1, <1>2, <1>4 DEF IInv, Settled
<1>7. Led'
  <2>1. CASE Start(p)
    BY <2>1, NoProcIsNoProc DEF Start, IInv, Led, TypeOK
  <2>2. CASE Reconcile(p)
    <3>1. ASSUME ~lost, NEW q \in Procs, NEW r \in Runs, task[q][r] # "none" PROVE FALSE
      BY <2>2, <3>1 DEF Reconcile, IInv, Led
    <3> QED
      BY <2>2, <3>1 DEF Reconcile, IInv, Led, TypeOK
  <2>3. CASE Stop(p)
    BY <2>3 DEF Stop, IInv, Led, TypeOK
  <2>4. CASE LoseLock(p)
    BY <2>4 DEF LoseLock, IInv, Led, TypeOK
  <2> QED
    BY <2>1, <2>2, <2>3, <2>4
<1> QED
  BY <1>2, <1>3, <1>5, <1>6, <1>7 DEF IInv

(* The end of a process empties all its places.                            *)
LEMMA GoneStep ==
    ASSUME IInv, NEW p \in Procs, Gone(p)
    PROVE  IInv'
<1> USE DEF row
<1>1. TypeOK'
  BY EmptySeq DEF Gone, IInv, TypeOK, Statuses
<1>2. /\ \A q \in Procs \ {p} : queue'[q] = queue[q] /\ creating'[q] = creating[q]
                                /\ reserved'[q] = reserved[q] /\ task'[q] = task[q]
      /\ queue'[p] = <<>> /\ Len(queue'[p]) = 0 /\ creating'[p] = {} /\ reserved'[p] = 0
      /\ \A r \in Runs : task'[p][r] = "none"
  BY EmptySeq DEF Gone, IInv, TypeOK
<1>3. \A q \in Procs, r \in Runs : InQueue(q, r)' <=> q # p /\ InQueue(q, r)
  BY <1>2 DEF InQueue
<1>4. Slots'
  <2>1. /\ IsFiniteSet(creating'[p]) /\ reserved'[p] = Cardinality(creating'[p])
        /\ Len(queue'[p]) + reserved'[p] <= QueueMax
    BY <1>2, FS_EmptySet, LimitsArePositive
  <2> QED
    BY <1>2, <2>1 DEF IInv, Slots
<1>5. QueuedOnce'
  BY <1>2 DEF IInv, QueuedOnce
<1>6. UNCHANGED row /\ lost' = lost
  BY DEF Gone
<1>7. OnePlace'
  BY <1>2, <1>3, <1>6 DEF IInv, OnePlace, Has
<1>8. Settled'
  BY <1>2, <1>3, <1>6 DEF IInv, Settled
<1>9. Led'
  BY <1>2, <1>6 DEF Gone, IInv, Led, TypeOK
<1> QED
  BY <1>1, <1>4, <1>5, <1>7, <1>8, <1>9 DEF IInv

----------------------------------------------------------------------------
(* Requests.                                                               *)
LEMMA ReserveStep ==
    ASSUME IInv, NEW p \in Procs, NEW r \in Runs, Reserve(p, r)
    PROVE  IInv'
<1> USE DEF row, leadership, Reserve
<1>1. TypeOK'
  BY DEF IInv, TypeOK
<1>2. /\ \A q \in Procs : queue'[q] = queue[q]
      /\ \A q \in Procs \ {p} : creating'[q] = creating[q] /\ reserved'[q] = reserved[q]
      /\ creating'[p] = creating[p] \cup {r} /\ reserved'[p] = reserved[p] + 1
  BY DEF IInv, TypeOK
<1>3. Slots'
  <2>1. r \notin creating[p]
    BY DEF Unborn
  <2>2. IsFiniteSet(creating[p]) /\ reserved[p] = Cardinality(creating[p])
    BY DEF IInv, Slots
  <2>4. IsFiniteSet(creating'[p]) /\ reserved'[p] = Cardinality(creating'[p])
    BY <1>2, <2>1, <2>2, FS_AddElement
  <2>3. Len(queue'[p]) + reserved'[p] <= QueueMax
    BY <1>2, LimitsArePositive, LenProperties DEF Reservable, IInv, TypeOK
  <2> QED
    BY <1>2, <2>3, <2>4 DEF IInv, Slots
<1>4. \A q \in Procs, s \in Runs : InQueue(q, s)' <=> InQueue(q, s)
  BY DEF InQueue
<1>5. QueuedOnce'
  BY DEF IInv, QueuedOnce
<1>6. \A q \in Procs : ~Has(q, r)
  BY DEF Unborn, IInv, OnePlace, Has
<1>7. OnePlace'
  BY <1>2, <1>4, <1>6 DEF IInv, OnePlace, Has
<1>8. Settled'
  <2>1. status[r] = "none"
    BY DEF Unborn
  <2> QED
    BY <1>2, <1>4, <2>1 DEF IInv, Settled
<1>9. Led'
  BY DEF IInv, Led
<1> QED
  BY <1>1, <1>3, <1>5, <1>7, <1>8, <1>9 DEF IInv

LEMMA GiveUpStep ==
    ASSUME IInv, NEW p \in Procs, NEW r \in Runs, GiveUp(p, r)
    PROVE  IInv'
<1> USE DEF row, leadership, GiveUp
<1>1. TypeOK'
  BY DEF IInv, TypeOK, Released
<1>2. /\ \A q \in Procs : queue'[q] = queue[q]
      /\ \A q \in Procs \ {p} : creating'[q] = creating[q] /\ reserved'[q] = reserved[q]
      /\ creating'[p] = creating[p] \ {r} /\ reserved'[p] = Released(p)
  BY DEF IInv, TypeOK
<1>3. Slots'
  <2>0. IsFiniteSet(creating[p]) /\ reserved[p] = Cardinality(creating[p]) /\ creating[p] # {}
    BY DEF IInv, Slots
  <2>1. /\ IsFiniteSet(creating'[p])
        /\ reserved[p] \in Nat /\ reserved[p] > 0
        /\ Cardinality(creating'[p]) = reserved[p] - 1
    <3>1. reserved[p] \in Nat /\ reserved[p] # 0
      BY <2>0, FS_CardinalityType, FS_EmptySet
    <3>2. /\ IsFiniteSet(creating[p] \ {r})
          /\ Cardinality(creating[p] \ {r}) = Cardinality(creating[p]) - 1
      BY <2>0, FS_RemoveElement
    <3> HIDE DEF GiveUp
    <3> QED
      BY <1>2, <2>0, <3>1, <3>2
  <2>2. Len(queue'[p]) + reserved'[p] <= QueueMax
    BY <1>2, <2>1, LimitsArePositive, LenProperties DEF Released, IInv, TypeOK, Slots
  <2> QED
    BY <1>2, <2>1, <2>2 DEF IInv, Slots, Released
<1>4. \A q \in Procs, s \in Runs : InQueue(q, s)' <=> InQueue(q, s)
  BY DEF InQueue
<1>5. QueuedOnce'
  BY DEF IInv, QueuedOnce
<1>7. OnePlace'
  BY <1>2, <1>4 DEF IInv, OnePlace, Has
<1>8. Settled'
  BY <1>2, <1>4 DEF IInv, Settled
<1>9. Led'
  BY DEF IInv, Led
<1> QED
  BY <1>1, <1>3, <1>5, <1>7, <1>8, <1>9 DEF IInv

LEMMA EnqueueStep ==
    ASSUME IInv, NEW p \in Procs, NEW r \in Runs, Enqueue(p, r)
    PROVE  IInv'
<1> USE DEF row, leadership, Enqueue, Placed
<1>1. /\ queue[p] \in Seq(Runs) /\ Len(queue[p]) \in Nat
      /\ \A q \in Procs \ {p} : creating'[q] = creating[q] /\ reserved'[q] = reserved[q]
                                /\ queue'[q] = queue[q]
      /\ creating'[p] = creating[p] \ {r} /\ reserved'[p] = Released(p)
      /\ queue'[p] = Append(queue[p], r)
  BY LenProperties DEF IInv, TypeOK
<1>2. /\ queue'[p] \in Seq(Runs)
      /\ Len(queue'[p]) = Len(queue[p]) + 1
      /\ \A i \in 1..Len(queue[p]) : queue'[p][i] = queue[p][i]
      /\ queue'[p][Len(queue[p]) + 1] = r
  BY <1>1
<1>3. TypeOK'
  BY <1>2 DEF IInv, TypeOK, Released
<1>4. Slots'
  <2>0. IsFiniteSet(creating[p]) /\ reserved[p] = Cardinality(creating[p]) /\ creating[p] # {}
    BY DEF IInv, Slots
  <2>1. /\ IsFiniteSet(creating'[p])
        /\ reserved[p] \in Nat /\ reserved[p] > 0
        /\ Cardinality(creating'[p]) = reserved[p] - 1
    <3>1. reserved[p] \in Nat /\ reserved[p] # 0
      BY <2>0, FS_CardinalityType, FS_EmptySet
    <3>2. /\ IsFiniteSet(creating[p] \ {r})
          /\ Cardinality(creating[p] \ {r}) = Cardinality(creating[p]) - 1
      BY <2>0, FS_RemoveElement
    <3>3. creating'[p] = creating[p] \ {r}
      BY <1>1
    <3> HIDE DEF Enqueue, Placed
    <3> QED
      BY <2>0, <3>1, <3>2, <3>3
  <2>2. Len(queue'[p]) + reserved'[p] <= QueueMax
    BY <1>1, <1>2, <2>1, LimitsArePositive DEF Released, IInv, Slots
  <2> QED
    BY <1>1, <2>1, <2>2 DEF IInv, Slots, Released
<1>5. \A q \in Procs, s \in Runs : InQueue(q, s)' <=> InQueue(q, s) \/ (q = p /\ s = r)
  <2>1. \A s \in Runs : InQueue(p, s)' <=> InQueue(p, s) \/ s = r
    BY <1>1, <1>2 DEF InQueue
  <2>2. \A q \in Procs \ {p}, s \in Runs : InQueue(q, s)' <=> InQueue(q, s)
    BY <1>1 DEF InQueue
  <2> QED
    BY <2>1, <2>2
<1>6. ~InQueue(p, r)
  BY DEF IInv, OnePlace
<1>7. QueuedOnce'
  <2>1. \A i, j \in 1..Len(queue'[p]) : queue'[p][i] = queue'[p][j] => i = j
    BY <1>1, <1>2, <1>6 DEF IInv, QueuedOnce, InQueue
  <2> QED
    BY <1>1, <2>1 DEF IInv, QueuedOnce
<1>8. OnePlace'
  BY <1>1, <1>5 DEF IInv, OnePlace, Has
<1>9. Settled'
  BY <1>1, <1>5 DEF IInv, Settled
<1>10. Led'
  BY DEF IInv, Led
<1> QED
  BY <1>3, <1>4, <1>7, <1>8, <1>9, <1>10 DEF IInv

LEMMA RowStep ==
    ASSUME IInv, NEW r \in Runs, Cancel(r) \/ \E p \in Procs : CommitRow(p, r)
    PROVE  IInv'
<1> USE DEF row, leadership
<1>1. UNCHANGED <<intake, leadership, loop, wake, task, billed>>
  BY DEF Cancel, CommitRow
<1>2. /\ Slots' /\ QueuedOnce'
      /\ \A q \in Procs, s \in Runs : InQueue(q, s)' <=> InQueue(q, s)
  BY <1>1, IntakeKept DEF IInv
<1>3. TypeOK'
  BY DEF IInv, TypeOK, Statuses, Cancel, CommitRow, intake
<1>4. \A s \in Runs \ {r} : status'[s] = status[s] /\ requested'[s] = requested[s]
  BY DEF IInv, TypeOK, Cancel, CommitRow
<1>5. \/ status[r] \in {"queued", "grading"} /\ status'[r] = "cancelled"
      \/ status[r] = "none" /\ status'[r] = "queued" /\ requested'[r] = requested[r]
  BY DEF IInv, TypeOK, Cancel, CommitRow, Cancellable
<1>6. OnePlace'
  BY <1>1, <1>2, <1>4, <1>5 DEF IInv, OnePlace, Has, intake
<1>7. Settled'
  BY <1>1, <1>2, <1>4, <1>5 DEF IInv, Settled, intake
<1>8. Led'
  BY <1>1, <1>4, <1>5 DEF IInv, Led, OnePlace
<1> QED
  BY <1>2, <1>3, <1>6, <1>7, <1>8 DEF IInv

----------------------------------------------------------------------------
(* The loop.                                                               *)
LEMMA PopStep ==
    ASSUME IInv, NEW p \in Procs, Pop(p)
    PROVE  IInv'
<1> USE DEF row, leadership, Pop, Pops
<1> DEFINE r == Head(queue[p])
<1>1. /\ queue[p] \in Seq(Runs) /\ queue[p] # <<>> /\ Len(queue[p]) \in Nat \ {0}
      /\ r \in Runs /\ r = queue[p][1]
      /\ \A q \in Procs \ {p} : queue'[q] = queue[q] /\ task'[q] = task[q]
      /\ queue'[p] = Tail(queue[p])
  BY EmptySeq, HeadTailProperties DEF IInv, TypeOK
<1>2. /\ queue'[p] \in Seq(Runs)
      /\ Len(queue'[p]) = Len(queue[p]) - 1
      /\ \A i \in 1..Len(queue'[p]) : queue'[p][i] = queue[p][i + 1]
  <2>1. \A s \in Seq(Runs) : s # <<>> =>
            /\ Tail(s) \in Seq(Runs) /\ Len(Tail(s)) = Len(s) - 1
            /\ \A i \in 1..Len(Tail(s)) : Tail(s)[i] = s[i + 1]
    BY HeadTailProperties
  <2> HIDE DEF Pop
  <2> QED
    BY <1>1, <2>1
<1>3. TypeOK'
  BY <1>1, <1>2 DEF IInv, TypeOK
<1>4. Slots'
  BY <1>1, <1>2, FS_CardinalityType, LimitsArePositive DEF IInv, Slots
<1>5. InQueue(p, r)
  BY <1>1 DEF InQueue
<1>6. \A q \in Procs, s \in Runs : InQueue(q, s)' <=> InQueue(q, s) /\ ~(q = p /\ s = r)
  <2>1. ASSUME NEW s \in Runs, InQueue(p, s)' PROVE InQueue(p, s) /\ s # r
    <3>1. PICK i \in 1..Len(queue'[p]) : queue'[p][i] = s
      BY <2>1 DEF InQueue
    <3>2. i + 1 \in 1..Len(queue[p]) /\ queue[p][i + 1] = s /\ i + 1 # 1
      BY <1>1, <1>2, <3>1
    <3>3. 1 \in 1..Len(queue[p])
      BY <1>1
    <3>4. queue[p][i + 1] # queue[p][1]
      BY <3>2, <3>3 DEF IInv, QueuedOnce
    <3> QED
      BY <1>1, <3>2, <3>4 DEF InQueue
  <2>2. ASSUME NEW s \in Runs, InQueue(p, s), s # r PROVE InQueue(p, s)'
    <3>1. PICK i \in 1..Len(queue[p]) : queue[p][i] = s
      BY <2>2 DEF InQueue
    <3>2. i - 1 \in 1..Len(queue'[p]) /\ queue'[p][i - 1] = s
      BY <1>1, <1>2, <2>2, <3>1
    <3> QED
      BY <3>2 DEF InQueue
  <2>3. \A q \in Procs \ {p}, s \in Runs : InQueue(q, s)' <=> InQueue(q, s)
    BY <1>1 DEF InQueue
  <2> QED
    BY <2>1, <2>2, <2>3
<1>7. QueuedOnce'
  <2>1. \A i, j \in 1..Len(queue'[p]) : queue'[p][i] = queue'[p][j] => i = j
    <3> SUFFICES ASSUME NEW i \in 1..Len(queue'[p]), NEW j \in 1..Len(queue'[p]),
                        queue'[p][i] = queue'[p][j]
                 PROVE  i = j
      OBVIOUS
    <3>1. /\ i + 1 \in 1..Len(queue[p]) /\ j + 1 \in 1..Len(queue[p])
          /\ queue[p][i + 1] = queue[p][j + 1]
      BY <1>1, <1>2
    <3>2. i + 1 = j + 1
      BY <3>1 DEF IInv, QueuedOnce
    <3> QED
      BY <1>1, <1>2, <3>2
  <2> QED
    BY <1>1, <2>1 DEF IInv, QueuedOnce
<1>8. /\ task'[p][r] = "popped"
      /\ \A s \in Runs \ {r} : task'[p][s] = task[p][s]
  BY <1>1 DEF IInv, TypeOK
<1> HIDE DEF r
<1>9. OnePlace'
  BY <1>1, <1>5, <1>6, <1>8 DEF IInv, OnePlace, Has
<1>10. Settled'
  BY <1>1, <1>5, <1>6, <1>8 DEF IInv, Settled
<1>11. Led'
  BY <1>1, <1>8 DEF IInv, Led
<1> QED
  BY <1>3, <1>4, <1>7, <1>9, <1>10, <1>11 DEF IInv

LEMMA SleepStep ==
    ASSUME IInv, NEW p \in Procs, Sleep(p) \/ Wake(p)
    PROVE  IInv'
<1> USE DEF row, leadership, Sleep, Wake, Pops
<1>1. UNCHANGED <<row, leadership, intake, task>>
  OBVIOUS
<1>2. /\ Slots' /\ QueuedOnce'
      /\ \A q \in Procs, s \in Runs : InQueue(q, s)' <=> InQueue(q, s)
  BY <1>1, IntakeKept DEF IInv
<1>3. TypeOK'
  BY DEF IInv, TypeOK, intake
<1>4. OnePlace'
  BY <1>1, <1>2 DEF IInv, OnePlace, Has, intake
<1>5. Settled'
  BY <1>1, <1>2 DEF IInv, Settled, intake
<1>6. \A q \in Procs : loop'[q] = "off" <=> loop[q] = "off"
  BY DEF IInv, TypeOK
<1>7. Led'
  BY <1>1, <1>6 DEF IInv, Led
<1> QED
  BY <1>2, <1>3, <1>4, <1>5, <1>7 DEF IInv

----------------------------------------------------------------------------
(* The task of a run.                                                      *)
LEMMA TaskStep ==
    ASSUME IInv, NEW p \in Procs, NEW r \in Runs, Task(p, r)
    PROVE  IInv'
<1> USE DEF row, leadership, Goes, Ends
<1> DEFINE Write == /\ UNCHANGED <<intake, leadership, loop, wake, requested>>
                    /\ task[p][r] # "none"
                    /\ \A q \in Procs, s \in Runs : q # p \/ s # r => task'[q][s] = task[q][s]
                    /\ \A s \in Runs \ {r} : status'[s] = status[s] /\ billed'[s] = billed[s]
           Kinds == \/ /\ status'[r] = status[r] /\ billed'[r] = billed[r]
                       /\ task[p][r] \in {"popped", "evaluating"}
                       /\ task'[p][r] \in {"loaded", "none"}
                    \/ /\ status'[r] = "grading" /\ billed'[r] = billed[r]
                       /\ task[p][r] = "loaded" /\ task'[p][r] = "evaluating"
                    \/ /\ status'[r] \in {"failed", "cancelled"} /\ billed'[r] = billed[r]
                       /\ task[p][r] \in {"evaluating", "cancelling"} /\ task'[p][r] = "none"
                    \/ /\ status'[r] = status[r] /\ billed'[r] = billed[r]
                       /\ task[p][r] = "evaluating" /\ task'[p][r] = "cancelling"
                    \/ /\ status'[r] = "completed" /\ billed'[r] = billed[r] /\ ~requested[r]
                       /\ task[p][r] = "evaluating" /\ task'[p][r] = "committed"
                    \/ /\ status'[r] = status[r] /\ task[p][r] = "committed"
                       /\ task'[p][r] = "none"
<1>1. Write /\ Kinds /\ TypeOK'
  <2> USE DEF IInv, TypeOK, Statuses, intake
  <2>1. CASE Load(p, r)
    <3>1. /\ UNCHANGED <<status, requested, billed, intake, leadership, loop, wake>>
          /\ task[p][r] = "popped"
          /\ task' = [task EXCEPT ![p][r] = "loaded"] \/ task' = [task EXCEPT ![p][r] = "none"]
      BY <2>1 DEF Load
    <3>2. task'[p][r] \in {"none", "loaded"}
      BY <3>1
    <3>3. \A q \in Procs, s \in Runs : q # p \/ s # r => task'[q][s] = task[q][s]
      BY <3>1
    <3>4. TypeOK'
      <4>1. CASE task' = [task EXCEPT ![p][r] = "loaded"]
        BY <3>1, <4>1
      <4>2. CASE task' = [task EXCEPT ![p][r] = "none"]
        BY <3>1, <4>2
      <4> QED
        BY <3>1, <4>1, <4>2
    <3>5. Kinds
      BY <3>1, <3>2
    <3> QED
      BY <3>1, <3>3, <3>4, <3>5
  <2>2. CASE Grade(p, r)
    BY <2>2 DEF Grade
  <2>3. CASE Abandon(p, r)
    BY <2>3 DEF Abandon
  <2>4. CASE Fail(p, r)
    BY <2>4 DEF Fail
  <2>5. CASE NoticeCancel(p, r)
    <3>1. /\ UNCHANGED <<status, requested, billed, intake, leadership, loop, wake>>
          /\ task[p][r] = "evaluating"
          /\ task' = [task EXCEPT ![p][r] = "cancelling"] \/ task' = [task EXCEPT ![p][r] = "none"]
      BY <2>5 DEF NoticeCancel
    <3>2. task'[p][r] \in {"none", "cancelling"}
      BY <3>1
    <3>3. \A q \in Procs, s \in Runs : q # p \/ s # r => task'[q][s] = task[q][s]
      BY <3>1
    <3>4. TypeOK'
      <4>1. CASE task' = [task EXCEPT ![p][r] = "cancelling"]
        BY <3>1, <4>1
      <4>2. CASE task' = [task EXCEPT ![p][r] = "none"]
        BY <3>1, <4>2
      <4> QED
        BY <3>1, <4>1, <4>2
    <3>5. Kinds
      BY <3>1, <3>2
    <3> QED
      BY <3>1, <3>3, <3>4, <3>5
  <2>6. CASE MarkCancelled(p, r)
    BY <2>6 DEF MarkCancelled
  <2>7. CASE Complete(p, r)
    BY <2>7 DEF Complete, Wanted
  <2>8. CASE Bill(p, r)
    BY <2>8 DEF Bill
  <2> QED
    BY <2>1, <2>2, <2>3, <2>4, <2>5, <2>6, <2>7, <2>8 DEF Task
<1>2. /\ Slots' /\ QueuedOnce'
      /\ \A q \in Procs, s \in Runs : InQueue(q, s)' <=> InQueue(q, s)
  BY <1>1, IntakeKept DEF IInv
<1>3. /\ \A q \in Procs : creating'[q] = creating[q]
      /\ \A q \in Procs : Has(q, r) => q = p
      /\ ~InQueue(p, r) /\ r \notin creating[p] /\ status[r] # "none"
  BY <1>1 DEF IInv, OnePlace, Has, intake
<1>4. \A q \in Procs \ {p} : task'[q][r] = "none" /\ task[q][r] = "none"
                             /\ ~InQueue(q, r) /\ r \notin creating[q]
  BY <1>1, <1>3 DEF Has
<1>5. \A s \in Runs \ {r} : /\ status'[s] = status[s] /\ billed'[s] = billed[s]
                            /\ \A q \in Procs : task'[q][s] = task[q][s]
  BY <1>1
<1>6. Kinds /\ task[p][r] # "none" /\ requested' = requested
  BY <1>1
<1>7. OnePlace'
  <2> SUFFICES ASSUME NEW q \in Procs, NEW s \in Runs
               PROVE  /\ s \in creating'[q] => ~InQueue(q, s)' /\ task'[q][s] = "none"
                      /\ InQueue(q, s)' => task'[q][s] = "none"
                      /\ InQueue(q, s)' \/ task'[q][s] # "none" => status'[s] # "none"
                      /\ \A o \in Procs : Has(q, s)' /\ Has(o, s)' => q = o
    BY DEF OnePlace
  <2>1. CASE s = r
    BY <1>2, <1>3, <1>4, <1>6, <2>1 DEF Has
  <2>2. CASE s # r
    BY <1>2, <1>3, <1>5, <2>2 DEF IInv, OnePlace, Has
  <2> QED
    BY <2>1, <2>2
<1>8. Settled'
  <2> SUFFICES ASSUME NEW s \in Runs
               PROVE  /\ (status'[s] = "completed" \/ billed'[s]) =>
                             /\ ~requested'[s] /\ status'[s] \in {"completed", "failed"}
                             /\ \A q \in Procs : /\ s \notin creating'[q] /\ ~InQueue(q, s)'
                                                 /\ task'[q][s] \in {"none", "committed"}
                      /\ \A q \in Procs : task'[q][s] = "committed" =>
                             ~requested'[s] /\ status'[s] \in {"completed", "failed"}
    BY DEF Settled
  <2>1. CASE s = r
    <3>1. /\ (status[r] = "completed" \/ billed[r]) => task[p][r] = "committed"
          /\ task[p][r] = "committed" => ~requested[r] /\ status[r] \in {"completed", "failed"}
      BY <1>6 DEF IInv, Settled
    <3> QED
      BY <1>2, <1>3, <1>4, <1>6, <2>1, <3>1
  <2>2. CASE s # r
    BY <1>2, <1>3, <1>5, <1>6, <2>2 DEF IInv, Settled
  <2> QED
    BY <2>1, <2>2
<1>9. Led'
  <2>1. UNCHANGED <<lock, lost, phase, stale, loop>>
    BY <1>1
  <2>2. \A q \in Procs, s \in Runs : task'[q][s] # "none" => loop[q] # "off"
    BY <1>4, <1>5, <1>6 DEF IInv, Led
  <2>3. ASSUME ~lost, NEW q \in Procs, NEW s \in Runs, task'[q][s] \in {"evaluating", "cancelling"}
        PROVE  status'[s] \in {"grading", "cancelled"}
    <3>1. CASE s = r
      BY <1>4, <1>6, <2>3, <3>1 DEF IInv, Led
    <3>2. CASE s # r
      BY <1>5, <2>3, <3>2 DEF IInv, Led
    <3> QED
      BY <3>1, <3>2
  <2> QED
    BY <2>1, <2>2, <2>3 DEF IInv, Led
<1> QED
  BY <1>1, <1>2, <1>7, <1>8, <1>9 DEF IInv

----------------------------------------------------------------------------
LEMMA StepInv == IInv /\ [Next]_vars => IInv'
<1> SUFFICES ASSUME IInv, [Next]_vars PROVE IInv'
  OBVIOUS
<1>1. CASE UNCHANGED vars
  BY <1>1 DEF vars, row, leadership, intake, IInv, TypeOK, Slots, QueuedOnce, OnePlace, Has,
              InQueue, Settled, Led
<1>2. ASSUME NEW p \in Procs, Process(p) \/ Loop(p) PROVE IInv'
  BY <1>2, LeadershipStep, GoneStep, PopStep, SleepStep DEF Process, Loop, Crash, Stopped
<1>3. ASSUME NEW p \in Procs, NEW r \in Runs, Request(p, r) \/ Task(p, r) PROVE IInv'
  BY <1>3, ReserveStep, GiveUpStep, EnqueueStep, RowStep, TaskStep DEF Request
<1>4. ASSUME NEW r \in Runs, Cancel(r) PROVE IInv'
  BY <1>4, RowStep
<1> QED
  BY <1>1, <1>2, <1>3, <1>4 DEF Next

LEMMA Invariance == Spec => []IInv
<1> QED
  BY InitInv, StepInv, PTL DEF Spec

(* Every variable keeps its type.                                          *)
THEOREM TypeCorrect == Spec => []TypeOK
<1>1. IInv => TypeOK
  BY DEF IInv
<1> QED
  BY Invariance, <1>1, PTL

(* A run that its owner cancelled is never completed and never billed,     *)
(* whatever its worker writes after it: the one write that completes a row *)
(* asks for the request, and a settled run is in no place that leads to    *)
(* another write (cancel_run, mark_completed).                             *)
THEOREM CancellationHolds == Spec => []CancelledIsNeverCompleted
<1>1. IInv => CancelledIsNeverCompleted
  BY DEF IInv, Settled, CancelledIsNeverCompleted
<1> QED
  BY Invariance, <1>1, PTL

(* A slot is held for exactly the requests between their reservation and   *)
(* their place in the queue, for any size of the queue (reserve_slot,      *)
(* release_slot, enqueue).                                                 *)
THEOREM NoSlotLeaks == Spec => []SlotsAreAccounted
<1>1. IInv => SlotsAreAccounted
  BY DEF IInv, Slots, SlotsAreAccounted
<1> QED
  BY Invariance, <1>1, PTL

(* Nobody takes a run from the worker that evaluates it before a lock is   *)
(* lost, however many processes there are (start, mark_interrupted_runs).  *)
THEOREM OwnedUntilLost == Spec => []WorkerOwnsItsRun
<1>1. IInv => WorkerOwnsItsRun
  BY DEF IInv, Led, WorkerOwnsItsRun
<1> QED
  BY Invariance, <1>1, PTL

----------------------------------------------------------------------------
(* Wake-ups and tasks *)

(* A loop that sleeps over a queue that is not empty has been woken and    *)
(* finds room for a task when it gets up, and no process ever has more     *)
(* tasks than its limit, whatever ends, fails or is cancelled meanwhile    *)
(* (_loop, enqueue, _execute_run).                                         *)
LoopKeepsUp == \A p \in Procs :
    /\ IsFiniteSet(Active(p)) /\ Cardinality(Active(p)) <= MaxConcurrent
    /\ loop[p] = "asleep" => /\ queue[p] # <<>> => wake[p]
                             /\ Cardinality(Active(p)) < MaxConcurrent

LEMMA FewerTasks ==
    ASSUME NEW p \in Procs, IsFiniteSet(Active(p)), Active(p)' \subseteq Active(p)
    PROVE  IsFiniteSet(Active(p)') /\ Cardinality(Active(p)') <= Cardinality(Active(p))
           /\ Cardinality(Active(p)) \in Nat /\ Cardinality(Active(p)') \in Nat
BY FS_Subset, FS_CardinalityType

\* a step that begins no task, puts nothing in the queue and puts no loop to sleep
LEMMA CalmKeepsUp ==
    ASSUME LoopKeepsUp, NEW p \in Procs, Active(p)' \subseteq Active(p),
           loop'[p] = "asleep" => /\ loop[p] = "asleep"
                                  /\ queue'[p] # <<>> => wake'[p] \/ (queue[p] # <<>> /\ wake'[p] = wake[p])
    PROVE  /\ IsFiniteSet(Active(p)') /\ Cardinality(Active(p)') <= MaxConcurrent
           /\ loop'[p] = "asleep" => /\ queue'[p] # <<>> => wake'[p]
                                     /\ Cardinality(Active(p)') < MaxConcurrent
BY FewerTasks, LimitsArePositive DEF LoopKeepsUp

LEMMA InitKeepsUp == Init => LoopKeepsUp
<1> SUFFICES ASSUME Init, NEW p \in Procs
             PROVE  /\ IsFiniteSet(Active(p)) /\ Cardinality(Active(p)) <= MaxConcurrent
                    /\ loop[p] # "asleep"
  BY DEF LoopKeepsUp
<1>1. Active(p) = {} /\ loop[p] = "off"
  BY DEF Init, Active
<1> QED
  BY <1>1, FS_EmptySet, LimitsArePositive

LEMMA StepKeepsUp == IInv /\ LoopKeepsUp /\ [Next]_vars => LoopKeepsUp'
<1> SUFFICES ASSUME IInv, LoopKeepsUp, [Next]_vars, NEW p \in Procs
             PROVE  /\ IsFiniteSet(Active(p)') /\ Cardinality(Active(p)') <= MaxConcurrent
                    /\ loop'[p] = "asleep" => /\ queue'[p] # <<>> => wake'[p]
                                              /\ Cardinality(Active(p)') < MaxConcurrent
  BY DEF LoopKeepsUp
<1>0. TypeOK
  BY DEF IInv
<1>1. CASE UNCHANGED vars
  BY <1>1, CalmKeepsUp DEF vars, intake, Active
<1>2. CASE UNCHANGED <<queue, loop, wake, task>>
  BY <1>2, CalmKeepsUp DEF Active
<1>3. ASSUME NEW q \in Procs, Start(q) \/ Reconcile(q) \/ Stop(q) \/ LoseLock(q)
      PROVE  /\ UNCHANGED <<queue, wake, task>>
             /\ loop'[p] = "asleep" => loop[p] = "asleep"
  BY <1>0, <1>3 DEF Start, Reconcile, Stop, LoseLock, intake, TypeOK
<1>4. ASSUME NEW q \in Procs, Gone(q)
      PROVE  /\ Active(p)' \subseteq Active(p)
             /\ loop'[p] = "asleep" => UNCHANGED <<loop[p], queue[p], wake[p]>>
  BY <1>0, <1>4 DEF Gone, TypeOK, Active
<1>5. ASSUME NEW q \in Procs, NEW r \in Runs, Enqueue(q, r)
      PROVE  /\ UNCHANGED <<loop, task>>
             /\ loop[p] = "asleep" => wake'[p] \/ UNCHANGED <<queue[p], wake[p]>>
  BY <1>0, <1>5 DEF Enqueue, Placed, TypeOK
<1>6. ASSUME NEW q \in Procs, Sleep(q) \/ Wake(q), q # p
      PROVE  UNCHANGED <<queue, task, loop[p], wake[p]>>
  BY <1>0, <1>6 DEF Sleep, Wake, intake, TypeOK
<1>7. ASSUME Wake(p)
      PROVE  UNCHANGED task /\ loop'[p] # "asleep"
  BY <1>0, <1>7 DEF Wake, TypeOK
<1>8. ASSUME Sleep(p)
      PROVE  /\ IsFiniteSet(Active(p)') /\ Cardinality(Active(p)') < MaxConcurrent
             /\ queue'[p] = <<>>
  <2>1. Active(p)' = Active(p) /\ Cardinality(Active(p)) < MaxConcurrent /\ queue'[p] = <<>>
    BY <1>8 DEF Sleep, Pops, Active, intake
  <2> QED
    BY <2>1 DEF LoopKeepsUp
<1>9. ASSUME NEW q \in Procs, Pop(q), q # p
      PROVE  UNCHANGED <<queue[p], loop, wake>> /\ Active(p)' = Active(p)
  BY <1>0, <1>9 DEF Pop, TypeOK, Active
<1>10. ASSUME Pop(p)
       PROVE  /\ IsFiniteSet(Active(p)') /\ Cardinality(Active(p)') <= MaxConcurrent
              /\ loop'[p] # "asleep"
  <2> DEFINE h == Head(queue[p])
  <2>1. h \in Runs
    BY <1>0, <1>10, HeadTailProperties DEF Pop, TypeOK
  <2>2. /\ Cardinality(Active(p)) < MaxConcurrent /\ loop'[p] = "on"
        /\ task' = [task EXCEPT ![p][h] = "popped"]
    BY <1>10 DEF Pop, Pops
  <2>3. Active(p)' = Active(p) \cup {h}
    BY <1>0, <2>1, <2>2 DEF TypeOK, Active
  <2>4. IsFiniteSet(Active(p))
    BY DEF LoopKeepsUp
  <2>5. IsFiniteSet(Active(p) \cup {h}) /\ Cardinality(Active(p)) \in Nat
        /\ Cardinality(Active(p) \cup {h}) \in {Cardinality(Active(p)), Cardinality(Active(p)) + 1}
    BY <2>4, FS_AddElement, FS_CardinalityType
  <2> QED
    BY <2>2, <2>3, <2>5, LimitsArePositive
<1>11. ASSUME NEW q \in Procs, NEW r \in Runs, Task(q, r)
       PROVE  UNCHANGED <<queue, loop, wake>> /\ Active(p)' \subseteq Active(p)
  <2>1. task[q][r] # "none" /\ \E at : Goes(q, r, at)
    BY <1>11 DEF Task, Load, Grade, Abandon, Fail, NoticeCancel, MarkCancelled, Complete, Bill, Ends
  <2>2. Active(p)' \subseteq Active(p)
    BY <1>0, <2>1 DEF Goes, Active, TypeOK
  <2> QED
    BY <1>11, <2>2 DEF Task, Load, Grade, Abandon, Fail, NoticeCancel, MarkCancelled, Complete, Bill,
                       intake
<1>12. ASSUME NEW q \in Procs, Process(q) \/ Loop(q)
       PROVE  /\ IsFiniteSet(Active(p)') /\ Cardinality(Active(p)') <= MaxConcurrent
              /\ loop'[p] = "asleep" => /\ queue'[p] # <<>> => wake'[p]
                                        /\ Cardinality(Active(p)') < MaxConcurrent
  <2>1. CASE Start(q) \/ Reconcile(q) \/ Stop(q) \/ LoseLock(q)
    BY <1>3, <2>1, CalmKeepsUp DEF Active
  <2>2. CASE Gone(q)
    BY <1>4, <2>2, CalmKeepsUp
  <2>3. CASE (Sleep(q) \/ Wake(q)) /\ q # p
    BY <1>6, <2>3, CalmKeepsUp DEF Active
  <2>4. CASE Wake(q) /\ q = p
    BY <1>7, <2>4, CalmKeepsUp DEF Active
  <2>5. CASE Sleep(q) /\ q = p
    <3>1. Cardinality(Active(p)') \in Nat
      BY <1>8, <2>5, FS_CardinalityType
    <3> QED
      BY <1>8, <2>5, <3>1, LimitsArePositive
  <2>6. CASE Pop(q) /\ q # p
    BY <1>9, <2>6, CalmKeepsUp
  <2>7. CASE Pop(q) /\ q = p
    BY <1>10, <2>7
  <2> QED
    BY <1>12, <2>1, <2>2, <2>3, <2>4, <2>5, <2>6, <2>7 DEF Process, Loop, Crash, Stopped
<1>13. ASSUME NEW q \in Procs, NEW r \in Runs, Request(q, r) \/ Task(q, r)
       PROVE  /\ IsFiniteSet(Active(p)') /\ Cardinality(Active(p)') <= MaxConcurrent
              /\ loop'[p] = "asleep" => /\ queue'[p] # <<>> => wake'[p]
                                        /\ Cardinality(Active(p)') < MaxConcurrent
  <2>1. CASE Reserve(q, r) \/ CommitRow(q, r) \/ GiveUp(q, r)
    BY <1>2, <2>1 DEF Reserve, CommitRow, GiveUp, intake
  <2>2. CASE Enqueue(q, r)
    BY <1>5, <2>2, CalmKeepsUp DEF Active
  <2>3. CASE Task(q, r)
    BY <1>11, <2>3, CalmKeepsUp
  <2> QED
    BY <1>13, <2>1, <2>2, <2>3 DEF Request
<1>14. ASSUME NEW r \in Runs, Cancel(r) PROVE UNCHANGED <<queue, loop, wake, task>>
  BY <1>14 DEF Cancel, intake
<1> QED
  BY <1>1, <1>2, <1>12, <1>13, <1>14 DEF Next

(* No wake-up is lost between the loop's look at its queue and its sleep,  *)
(* and the limit on concurrent tasks is kept: what QueueMoves needs beside *)
(* the ends of tasks.                                                      *)
THEOREM NoLostWakeup == Spec => []LoopKeepsUp
<1> QED
  BY Invariance, InitKeepsUp, StepKeepsUp, PTL DEF Spec
==============================================================================
