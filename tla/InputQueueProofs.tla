-------------------------- MODULE InputQueueProofs --------------------------
(***************************************************************************)
(* Proofs about InputQueue, for any finite set of inputs, any texts and    *)
(* any bound on revisions.  The steps fall into four kinds: a quiet step   *)
(* writes no row, a new row is appended, one row is rewritten with the     *)
(* next revision, or the pending rows are put into another order.  What    *)
(* the properties say is preserved by each kind, so none of them looks at  *)
(* the actions.                                                            *)
(***************************************************************************)
EXTENDS InputQueue, FiniteSetTheorems, TLAPS

\* a row that was not there: behind all others, pending, or claimed by a new run
Appended(i) ==
    /\ rows[i] = NoInput /\ rows'[i] \in Row
    /\ \A j \in Inputs \ {i} : rows'[j] = rows[j]
    /\ \A j \in Inputs \ {i} : Exists(j) => rows[j].position < rows'[i].position
    /\ \/ rows'[i].status = "pending" /\ rows'[i].run = 0 /\ runs' = runs
       \/ rows'[i].status = "claimed" /\ rows'[i].run = runs + 1 /\ runs' = runs + 1

\* a row that is written again, with the next revision, at its place
Rewritten(i) ==
    /\ rows[i] \in Row /\ rows'[i] \in Row
    /\ rows'[i].revision = rows[i].revision + 1
    /\ rows'[i].position = rows[i].position
    /\ \A j \in Inputs \ {i} : rows'[j] = rows[j]
    /\ \/ /\ rows[i].status = "pending" /\ rows'[i].status \in {"pending", "canceled"}
          /\ rows'[i].run = rows[i].run /\ runs' = runs
       \/ /\ rows[i].status = "pending" /\ rows'[i].status = "claimed"
          /\ rows'[i].run = runs + 1 /\ runs' = runs + 1
       \/ /\ rows[i].status = "claimed" /\ rows'[i].text = rows[i].text /\ runs' = runs
          /\ \/ rows'[i].status = "failed" /\ rows'[i].run = rows[i].run
             \/ rows'[i].status = "canceled" /\ rows'[i].run = 0

\* the pending rows get other positions and the next revision
Reordered ==
    /\ runs' = runs
    /\ \A i \in Inputs \ Pending : rows'[i] = rows[i]
    /\ \A i \in Pending :
          /\ rows[i] \in Row /\ rows'[i] \in Row
          /\ rows'[i].revision = rows[i].revision + 1
          /\ rows'[i].status = "pending" /\ rows'[i].run = rows[i].run
    /\ \A i, j \in Pending : rows'[i].position = rows'[j].position => i = j

Quiet == rows' = rows /\ runs' = runs

(* A position that is free lies behind all positions there are.            *)
LEMMA FreePositionIsLast ==
    ASSUME TypeOK, NEW p \in FreePosition
    PROVE  /\ p \in Nat
           /\ \A j \in Inputs : Exists(j) => rows[j].position < p
<1>1. \A j \in Inputs : Exists(j) => rows[j].position \in Nat
  BY DEF TypeOK, Exists, Row
<1>2. \A j \in Inputs : Exists(j) => rows[j].position \in Positions
  BY DEF Positions
<1>3. \A q \in Positions : q \in Nat
  BY <1>1 DEF Positions
<1> QED
  BY <1>2, <1>3 DEF FreePosition

(* Put rewrites one row, with the next revision.                           *)
LEMMA PutRewrites ==
    ASSUME TypeOK, NEW i \in Inputs, rows[i] \in Row, NEW row \in Row, Put(i, row),
           row.position = rows[i].position,
           \/ /\ rows[i].status = "pending" /\ row.status \in {"pending", "canceled"}
              /\ row.run = rows[i].run /\ runs' = runs
           \/ /\ rows[i].status = "pending" /\ row.status = "claimed"
              /\ row.run = runs + 1 /\ runs' = runs + 1
           \/ /\ rows[i].status = "claimed" /\ row.text = rows[i].text /\ runs' = runs
              /\ \/ row.status = "failed" /\ row.run = rows[i].run
                 \/ row.status = "canceled" /\ row.run = 0
    PROVE  Rewritten(i)
<1>1. rows[i].revision + 1 \in Nat
  BY DEF Row
<1>2. rows'[i] = [row EXCEPT !.revision = rows[i].revision + 1]
  BY DEF Put, TypeOK
<1>3. rows'[i] \in Row
  BY <1>1, <1>2 DEF Row
<1>4. /\ rows'[i].revision = rows[i].revision + 1
      /\ rows'[i].position = row.position
      /\ rows'[i].status = row.status
      /\ rows'[i].run = row.run
      /\ rows'[i].text = row.text
  BY <1>2 DEF Row
<1>5. \A j \in Inputs \ {i} : rows'[j] = rows[j]
  BY DEF Put, TypeOK
<1> QED
  BY <1>3, <1>4, <1>5 DEF Rewritten

(* A row that exists is a row.                                             *)
LEMMA PendingIsRow ==
    ASSUME TypeOK, NEW i \in Inputs, Exists(i)
    PROVE  rows[i] \in Row
  BY DEF TypeOK, Exists

(* The number of pending inputs is a number.                               *)
LEMMA PendingIsFinite == Cardinality(Pending) \in Nat
<1>1. Pending \subseteq Inputs
  BY DEF Pending
<1> QED
  BY <1>1, InputsAreFinite, FS_Subset, FS_CardinalityType

(* What each action is: the four kinds.                                    *)
LEMMA Kinds ==
    ASSUME TypeOK, Next
    PROVE  /\ Quiet \/ Reordered \/ \E i \in Inputs : Appended(i) \/ Rewritten(i)
           /\ Shown \/ UNCHANGED <<rows, shown>>
<1>1. ASSUME NEW i \in Inputs, NEW t \in Texts, Start(i, t)
      PROVE  Appended(i) /\ Shown
  <2>1. PICK p \in FreePosition : rows' = [rows EXCEPT ![i] =
             [New(p, t, FALSE) EXCEPT !.status = "claimed", !.run = runs + 1]]
    BY <1>1 DEF Start
  <2>2. p \in Nat /\ \A j \in Inputs : Exists(j) => rows[j].position < p
    BY FreePositionIsLast
  <2>3. rows'[i] = [status |-> "claimed", text |-> t, steer |-> FALSE, position |-> p,
                    revision |-> 1, run |-> runs + 1]
    BY <2>1 DEF New, TypeOK
  <2>4. rows'[i] \in Row
    BY <2>2, <2>3 DEF Row, TypeOK
  <2>5. \A j \in Inputs \ {i} : rows'[j] = rows[j]
    BY <2>1 DEF TypeOK
  <2>6. rows[i] = NoInput /\ runs' = runs + 1 /\ Shown
    BY <1>1 DEF Start, Exists
  <2> QED
    BY <2>2, <2>3, <2>4, <2>5, <2>6 DEF Appended
<1>2. ASSUME NEW i \in Inputs, NEW t \in Texts, NEW steer \in BOOLEAN, Enqueue(i, t, steer)
      PROVE  (Quiet \/ Appended(i)) /\ Shown
  <2>1. CASE Exists(i)
    BY <1>2, <2>1 DEF Enqueue, Quiet
  <2>2. CASE ~Exists(i)
    <3>1. PICK p \in FreePosition : rows' = [rows EXCEPT ![i] = New(p, t, steer)]
      BY <1>2, <2>2 DEF Enqueue
    <3>2. p \in Nat /\ \A j \in Inputs : Exists(j) => rows[j].position < p
      BY FreePositionIsLast
    <3>3. rows'[i] = [status |-> "pending", text |-> t, steer |-> steer, position |-> p,
                      revision |-> 1, run |-> 0]
      BY <3>1 DEF New, TypeOK
    <3>4. rows'[i] \in Row
      BY <3>2, <3>3 DEF Row, TypeOK
    <3> QED
      BY <1>2, <2>2, <3>1, <3>2, <3>3, <3>4 DEF Enqueue, Appended, Exists, TypeOK
  <2> QED
    BY <2>1, <2>2
<1>3. ASSUME NEW i \in Inputs, NEW seen, Delete(i, seen)
      PROVE  Rewritten(i) /\ Shown
  <2> DEFINE new == [rows[i] EXCEPT !.status = "canceled"]
  <2>1. rows[i] \in Row /\ rows[i].status = "pending"
    BY <1>3, PendingIsRow DEF Delete, Current, Pending
  <2>2. /\ new \in Row
        /\ new.position = rows[i].position
        /\ new.status = "canceled" /\ new.run = rows[i].run
    BY <2>1 DEF Row, TypeOK
  <2>3. Put(i, new) /\ Shown /\ runs' = runs
    BY <1>3 DEF Delete
  <2> HIDE DEF new
  <2> QED
    BY <2>1, <2>2, <2>3, PutRewrites
<1>4. ASSUME NEW i \in Inputs, NEW seen, Promote(i, seen)
      PROVE  Rewritten(i) /\ Shown
  <2> DEFINE new == [rows[i] EXCEPT !.steer = TRUE]
  <2>1. rows[i] \in Row /\ rows[i].status = "pending"
    BY <1>4, PendingIsRow DEF Promote, Current, Pending
  <2>2. /\ new \in Row
        /\ new.position = rows[i].position
        /\ new.status = "pending" /\ new.run = rows[i].run
    BY <2>1 DEF Row, TypeOK
  <2>3. Put(i, new) /\ Shown /\ runs' = runs
    BY <1>4 DEF Promote
  <2> HIDE DEF new
  <2> QED
    BY <2>1, <2>2, <2>3, PutRewrites
<1>5. ASSUME NEW i \in Inputs, NEW seen, NEW t \in Texts, Edit(i, seen, t)
      PROVE  Rewritten(i) /\ Shown
  <2> DEFINE new == [rows[i] EXCEPT !.text = t]
  <2>1. rows[i] \in Row /\ rows[i].status = "pending"
    BY <1>5, PendingIsRow DEF Edit, Current, Pending
  <2>2. /\ new \in Row
        /\ new.position = rows[i].position
        /\ new.status = "pending" /\ new.run = rows[i].run
    BY <2>1 DEF Row, TypeOK
  <2>3. Put(i, new) /\ Shown /\ runs' = runs
    BY <1>5 DEF Edit
  <2> HIDE DEF new
  <2> QED
    BY <2>1, <2>2, <2>3, PutRewrites
<1>6. ASSUME NEW order \in Orders, Reorder(order)
      PROVE  Reordered /\ Shown
  <2>1. order \in [Pending -> 1..Cardinality(Pending)]
        /\ \A i, j \in Pending : order[i] = order[j] => i = j
    BY DEF Orders
  <2>2. \A i \in Pending : order[i] \in Nat
    BY <2>1, PendingIsFinite
  <2>3. \A i \in Pending : i \in Inputs /\ rows[i] \in Row /\ rows[i].status = "pending"
    BY PendingIsRow DEF Pending
  <2>4. \A i \in Inputs : rows'[i] = IF i \in Pending
             THEN [rows[i] EXCEPT !.position = order[i], !.revision = @ + 1] ELSE rows[i]
    BY <1>6 DEF Reorder
  <2>5. ASSUME NEW i \in Pending
        PROVE  /\ rows'[i] \in Row
               /\ rows'[i].revision = rows[i].revision + 1
               /\ rows'[i].position = order[i]
               /\ rows'[i].status = "pending" /\ rows'[i].run = rows[i].run
    <3>1. rows[i] \in Row /\ rows[i].status = "pending" /\ order[i] \in Nat
      BY <2>2, <2>3
    <3>2. rows'[i] = [rows[i] EXCEPT !.position = order[i], !.revision = @ + 1]
      BY <2>3, <2>4
    <3>3. rows[i].revision + 1 \in Nat
      BY <3>1 DEF Row
    <3>4. rows'[i] \in Row
      BY <3>1, <3>2, <3>3 DEF Row
    <3> QED
      BY <3>1, <3>2, <3>4 DEF Row
  <2>6. \A i \in Inputs \ Pending : rows'[i] = rows[i]
    BY <2>4
  <2>7. \A i, j \in Pending : rows'[i].position = rows'[j].position => i = j
    BY <2>1, <2>5
  <2>8. runs' = runs /\ Shown
    BY <1>6 DEF Reorder
  <2> QED
    BY <2>3, <2>5, <2>6, <2>7, <2>8 DEF Reordered
<1>7. ASSUME NEW i \in Inputs, Claim(i)
      PROVE  Rewritten(i) /\ Shown
  <2> DEFINE new == [rows[i] EXCEPT !.status = "claimed", !.run = runs + 1]
  <2>1. rows[i] \in Row /\ rows[i].status = "pending"
    BY <1>7, PendingIsRow DEF Claim, Pending
  <2>2. /\ new \in Row
        /\ new.position = rows[i].position
        /\ new.status = "claimed" /\ new.run = runs + 1
    <3>1. runs + 1 \in Nat
      BY DEF TypeOK
    <3> QED
      BY <2>1, <3>1 DEF Row
  <2>3. Put(i, new) /\ Shown /\ runs' = runs + 1
    BY <1>7 DEF Claim
  <2> HIDE DEF new
  <2> QED
    BY <2>1, <2>2, <2>3, PutRewrites
<1>8. ASSUME NEW i \in Inputs, Unlaunchable(i)
      PROVE  Rewritten(i) /\ Shown
  <2> DEFINE new == [rows[i] EXCEPT !.status = "failed"]
  <2>1. rows[i] \in Row /\ rows[i].status = "claimed"
    BY <1>8, PendingIsRow DEF Unlaunchable, Bound
  <2>2. /\ new \in Row
        /\ new.position = rows[i].position
        /\ new.status = "failed" /\ new.run = rows[i].run /\ new.text = rows[i].text
    BY <2>1 DEF Row, TypeOK
  <2>3. Put(i, new) /\ Shown /\ runs' = runs
    BY <1>8 DEF Unlaunchable
  <2> HIDE DEF new
  <2> QED
    BY <2>1, <2>2, <2>3, PutRewrites
<1>9. ASSUME NEW i \in Inputs, Unbind(i)
      PROVE  Rewritten(i) /\ Shown
  <2> DEFINE new == [rows[i] EXCEPT !.status = "canceled", !.run = 0]
  <2>1. rows[i] \in Row /\ rows[i].status = "claimed"
    BY <1>9, PendingIsRow DEF Unbind, Bound
  <2>2. /\ new \in Row
        /\ new.position = rows[i].position
        /\ new.status = "canceled" /\ new.run = 0 /\ new.text = rows[i].text
    BY <2>1 DEF Row, TypeOK
  <2>3. Put(i, new) /\ Shown /\ runs' = runs
    BY <1>9 DEF Unbind
  <2> HIDE DEF new
  <2> QED
    BY <2>1, <2>2, <2>3, PutRewrites
<1>10. ASSUME Resume \/ RunOver
       PROVE  Quiet /\ UNCHANGED <<rows, shown>>
  BY <1>10 DEF Resume, RunOver, Quiet
<1> QED
  BY <1>1, <1>2, <1>3, <1>4, <1>5, <1>6, <1>7, <1>8, <1>9, <1>10 DEF Next

----------------------------------------------------------------------------
IInv == TypeOK /\ RevisionNamesContent /\ PendingHaveAnOrder /\ OneInputPerRun

LEMMA InitInv == Init => IInv
<1> SUFFICES ASSUME Init PROVE IInv
  OBVIOUS
<1>1. TypeOK
  BY DEF Init, TypeOK
<1>2. \A i \in Inputs : ~Exists(i) /\ shown[i] = {}
  BY DEF Init, Exists
<1> QED
  BY <1>1, <1>2 DEF IInv, RevisionNamesContent, PendingHaveAnOrder, OneInputPerRun, Pending

(* The rows of the next state, and what else TypeOK says.                  *)
LEMMA TypeStep ==
    ASSUME TypeOK, [Next]_vars
    PROVE  TypeOK'
<1>1. CASE UNCHANGED vars
  BY <1>1 DEF TypeOK, vars
<1>2. CASE Next
  <2>1. /\ Quiet \/ Reordered \/ \E i \in Inputs : Appended(i) \/ Rewritten(i)
        /\ Shown \/ UNCHANGED <<rows, shown>>
    BY <1>2, Kinds
  <2>2. conversation' \in {"idle", "running", "blocked"} /\ paused' \in BOOLEAN
    <3>1. conversation \in {"idle", "running", "blocked"} /\ paused \in BOOLEAN
      BY DEF TypeOK
    <3> QED
      BY <1>2, <3>1 DEF Next, Start, Enqueue, Delete, Promote, Edit, Reorder, Resume, Claim,
                        Unlaunchable, Unbind, RunOver
  <2>3. \E f : rows' = [i \in Inputs |-> f[i]]
    BY <1>2 DEF TypeOK, Next, Start, Enqueue, Delete, Promote, Edit, Reorder, Resume, Claim,
                Unlaunchable, Unbind, RunOver, Put
  <2>4. \A i \in Inputs : rows'[i] \in Row \cup {NoInput}
    BY <2>1 DEF Quiet, Reordered, Appended, Rewritten, TypeOK
  <2>5. rows' \in [Inputs -> Row \cup {NoInput}]
    BY <2>3, <2>4
  <2>6. shown' \in [Inputs -> SUBSET Row]
    BY <2>1, <2>4 DEF Shown, TypeOK
  <2>7. runs' \in Nat
    BY <2>1 DEF Quiet, Reordered, Appended, Rewritten, TypeOK
  <2> QED
    BY <2>2, <2>5, <2>6, <2>7 DEF TypeOK
<1> QED
  BY <1>1, <1>2

LEMMA RevisionStep ==
    ASSUME TypeOK, TypeOK', RevisionNamesContent, Next
    PROVE  RevisionNamesContent'
<1> SUFFICES ASSUME NEW i \in Inputs, NEW seen \in shown'[i]
             PROVE  /\ Exists(i)'
                    /\ seen.revision <= rows'[i].revision
                    /\ seen.revision = rows'[i].revision => seen = rows'[i]
  BY DEF RevisionNamesContent
<1>1. /\ Quiet \/ Reordered \/ \E j \in Inputs : Appended(j) \/ Rewritten(j)
      /\ Shown \/ UNCHANGED <<rows, shown>>
  BY Kinds
<1>2. seen \in shown[i] \/ (seen = rows'[i] /\ rows'[i] # NoInput)
  BY <1>1 DEF Shown
<1>3. CASE seen = rows'[i] /\ rows'[i] # NoInput
  <2>1. rows'[i] \in Row
    BY <1>3 DEF TypeOK
  <2> QED
    BY <1>3, <2>1 DEF Exists, Row
<1>4. CASE seen \in shown[i]
  <2>1. rows[i] \in Row /\ seen \in Row /\ seen.revision <= rows[i].revision
        /\ (seen.revision = rows[i].revision => seen = rows[i])
    BY <1>4 DEF RevisionNamesContent, TypeOK, Exists
  <2>2. rows'[i] = rows[i] \/ (rows'[i] \in Row /\ rows'[i].revision = rows[i].revision + 1)
    BY <1>1, <2>1, NoInputIsNoRow DEF Quiet, Reordered, Appended, Rewritten
  <2>3. rows[i].revision \in Nat /\ seen.revision \in Nat
    BY <2>1 DEF Row
  <2> QED
    BY <2>1, <2>2, <2>3, NoInputIsNoRow DEF Exists
<1> QED
  BY <1>2, <1>3, <1>4

LEMMA OrderStep ==
    ASSUME TypeOK, PendingHaveAnOrder, Next
    PROVE  PendingHaveAnOrder'
<1> SUFFICES ASSUME NEW i \in Inputs, NEW j \in Inputs, i # j,
                    Exists(i)', Exists(j)', rows'[i].status = "pending",
                    rows'[j].status = "pending", rows'[i].position = rows'[j].position
             PROVE  FALSE
  BY DEF PendingHaveAnOrder, Pending, Exists
<1>1. Quiet \/ Reordered \/ \E k \in Inputs : Appended(k) \/ Rewritten(k)
  BY Kinds
<1>2. CASE Quiet
  BY <1>2 DEF Quiet, PendingHaveAnOrder, Pending, Exists
<1>3. CASE Reordered
  <2>1. i \in Pending /\ j \in Pending
    BY <1>3 DEF Reordered, Pending, Exists
  <2> QED
    BY <1>3, <2>1 DEF Reordered
<1>4. ASSUME NEW k \in Inputs, Appended(k)
      PROVE  FALSE
  <2>1. \A l \in Inputs : Exists(l) => rows[l].position \in Nat
    BY DEF TypeOK, Exists, Row
  <2>2. rows'[k].position \in Nat
    BY <1>4 DEF Appended, Row
  <2>3. CASE i # k /\ j # k
    BY <1>4, <2>3 DEF Appended, PendingHaveAnOrder, Pending, Exists
  <2>4. CASE i = k
    BY <1>4, <2>1, <2>2, <2>4 DEF Appended, Exists
  <2>5. CASE j = k
    BY <1>4, <2>1, <2>2, <2>5 DEF Appended, Exists
  <2> QED
    BY <2>3, <2>4, <2>5
<1>5. ASSUME NEW k \in Inputs, Rewritten(k)
      PROVE  FALSE
  <2>1. i \in Pending /\ j \in Pending
    BY <1>5, NoInputIsNoRow DEF Rewritten, Pending, Exists
  <2>2. rows[i].position = rows[j].position
    BY <1>5 DEF Rewritten
  <2> QED
    BY <2>1, <2>2 DEF PendingHaveAnOrder
<1> QED
  BY <1>1, <1>2, <1>3, <1>4, <1>5

LEMMA InputStep ==
    ASSUME TypeOK, OneInputPerRun, Next
    PROVE  OneInputPerRun'
<1>0. runs \in Nat /\ \A i \in Inputs : Exists(i) => rows[i] \in Row /\ rows[i].run \in Nat
  BY DEF TypeOK, Exists, Row
<1>1. Quiet \/ Reordered \/ \E k \in Inputs : Appended(k) \/ Rewritten(k)
  BY Kinds
<1>2. CASE Quiet
  BY <1>2 DEF Quiet, OneInputPerRun, Exists
<1>3. CASE Reordered
  <2>1. \A i \in Inputs : Exists(i)' =>
             /\ Exists(i) /\ rows'[i].run = rows[i].run
             /\ rows'[i].status = rows[i].status
    BY <1>3, NoInputIsNoRow DEF Reordered, Pending, Exists
  <2> QED
    BY <1>3, <2>1 DEF Reordered, OneInputPerRun
<1>4. ASSUME NEW k \in Inputs, Appended(k)
      PROVE  OneInputPerRun'
  <2>1. \A i \in Inputs \ {k} : Exists(i)' => Exists(i) /\ rows'[i] = rows[i]
    BY <1>4 DEF Appended, Exists
  <2>2. \A i \in Inputs \ {k} : Exists(i) => rows[i].run <= runs
    BY DEF OneInputPerRun
  <2> QED
    BY <1>0, <1>4, <2>1, <2>2 DEF Appended, OneInputPerRun
<1>5. ASSUME NEW k \in Inputs, Rewritten(k)
      PROVE  OneInputPerRun'
  <2>1. \A i \in Inputs \ {k} : Exists(i)' => Exists(i) /\ rows'[i] = rows[i]
    BY <1>5 DEF Rewritten, Exists
  <2>2. Exists(k)
    BY <1>5, NoInputIsNoRow DEF Rewritten, Exists
  <2> QED
    BY <1>0, <1>5, <2>1, <2>2 DEF Rewritten, OneInputPerRun
<1> QED
  BY <1>1, <1>2, <1>3, <1>4, <1>5

LEMMA StepInv ==
    ASSUME IInv, [Next]_vars
    PROVE  IInv'
<1>1. CASE UNCHANGED vars
  BY <1>1 DEF vars, IInv, TypeOK, RevisionNamesContent, PendingHaveAnOrder, OneInputPerRun,
              Pending, Exists
<1>2. CASE Next
  BY <1>2, TypeStep, RevisionStep, OrderStep, InputStep DEF IInv
<1> QED
  BY <1>1, <1>2

LEMMA Invariance == Spec => []IInv
  BY InitInv, StepInv, PTL DEF Spec

(* Every row, and every row that is shown, keeps its type, for any finite  *)
(* set of inputs, any texts and any bound.                                 *)
THEOREM TypeCorrect == Spec => []TypeOK
  BY Invariance, PTL DEF IInv

(* A revision names the content of an input, for whatever clients do with  *)
(* whatever they were shown: optimistic edits never act on something else. *)
THEOREM RevisionsName == Spec => []RevisionNamesContent
  BY Invariance, PTL DEF IInv

(* The pending inputs are always in one order.                             *)
THEOREM TotalOrder == Spec => []PendingHaveAnOrder
  BY Invariance, PTL DEF IInv

(* Inputs are bound to runs as the table demands, and no run has two.      *)
THEOREM OneInput == Spec => []OneInputPerRun
  BY Invariance, PTL DEF IInv

(* A request id is queued and run at most once.                            *)
THEOREM AtMostOnce == Spec => QueuedOnce
<1>1. ASSUME TypeOK, [Next]_vars
      PROVE  [\A i \in Inputs : Exists(i) =>
                /\ rows'[i] # NoInput
                /\ rows[i].status # "pending" =>
                     /\ rows'[i].status # "pending"
                     /\ rows'[i].run \in {rows[i].run, 0}
                     /\ rows'[i].text = rows[i].text]_vars
  <2> SUFFICES ASSUME Next, NEW i \in Inputs, Exists(i)
               PROVE  /\ rows'[i] # NoInput
                      /\ rows[i].status # "pending" =>
                           /\ rows'[i].status # "pending"
                           /\ rows'[i].run \in {rows[i].run, 0}
                           /\ rows'[i].text = rows[i].text
    BY <1>1
  <2>1. Quiet \/ Reordered \/ \E k \in Inputs : Appended(k) \/ Rewritten(k)
    BY <1>1, Kinds
  <2>2. i \in Pending \/ rows[i].status # "pending"
    BY DEF Pending
  <2> QED
    BY <2>1, <2>2, NoInputIsNoRow
       DEF Quiet, Reordered, Appended, Rewritten, Exists, Pending
<1> QED
  BY <1>1, TypeCorrect, PTL DEF Spec, QueuedOnce
=============================================================================
