----------------------------- MODULE InputQueue -----------------------------
(***************************************************************************)
(* The queue of user inputs of one conversation, edited by any number of   *)
(* clients over HTTP while the dispatcher takes inputs from it.            *)
(*                                                                         *)
(* Code: backend/app/services/conversation_run_queue_service.py,           *)
(* ..._mutations.py and ..._promotion.py, their routes, and the writers of *)
(* an input in the dispatcher and in the recovery of cancellations.        *)
(*                                                                         *)
(* Every operation is one transaction under the conversation's row lock,   *)
(* so it is one step.  A client acts on what it was shown some time ago:   *)
(* on any row the table ever held, whatever answers were delayed, lost or  *)
(* reordered on the way, and a request may arrive again.  An input is      *)
(* known by its client request id; runs are numbered as they are created.  *)
(* Module RunLifecycle has the runs in full: here they only keep the next  *)
(* input waiting.                                                          *)
(***************************************************************************)
EXTENDS Naturals, FiniteSets

CONSTANTS
    Inputs,      \* client request ids
    Texts,       \* what an input can be edited to say
    MaxRevision, \* bound: revision up to which clients change an input
    NoInput      \* "no such row"

ASSUME BoundIsNatural == MaxRevision \in Nat

Row == [status: {"pending", "claimed", "canceled", "failed"}, text: Texts, steer: BOOLEAN,
        position: Nat, revision: Nat, run: Nat]
ASSUME NoInputIsNoRow == NoInput \notin Row
ASSUME SomethingToSay == Texts # {}
ASSUME InputsAreFinite == IsFiniteSet(Inputs)

VARIABLES
    rows,         \* conversation_run_inputs
    shown,        \* for each input, every row that clients may have been shown
    runs,         \* how many runs were created
    conversation, \* "idle", "running", or "blocked" by an interrupted run
    paused        \* conversation.queue_paused

vars == <<rows, shown, runs, conversation, paused>>

Exists(i) == rows[i] # NoInput
Pending == {i \in Inputs : Exists(i) /\ rows[i].status = "pending"}

TypeOK ==
    /\ rows \in [Inputs -> Row \cup {NoInput}]
    /\ shown \in [Inputs -> SUBSET Row]
    /\ runs \in Nat
    /\ conversation \in {"idle", "running", "blocked"}
    /\ paused \in BOOLEAN

Init ==
    /\ rows = [i \in Inputs |-> NoInput]
    /\ shown = [i \in Inputs |-> {}]
    /\ runs = 0
    /\ conversation = "idle"
    /\ paused = FALSE

----------------------------------------------------------------------------
(* Writing rows.  What is committed can be listed, and so shown.           *)

Shown == shown' = [i \in Inputs |->
    IF rows'[i] = NoInput THEN shown[i] ELSE shown[i] \cup {rows'[i]}]

\* one row with the next revision
Put(i, row) == rows' = [rows EXCEPT ![i] = [row EXCEPT !.revision = rows[i].revision + 1]]

\* one more than the largest position of the conversation, whatever its status
Positions == {rows[i].position : i \in {j \in Inputs : Exists(j)}}
\* Mutant: the position after the pending inputs.
FreePosition_Pending == {Cardinality(Pending) + 1}

FreePosition == {p \in {1} \cup {q + 1 : q \in Positions} : \A q \in Positions : q < p}

New(p, t, steer) ==
    [status |-> "pending", text |-> t, steer |-> steer, position |-> p, revision |-> 1, run |-> 0]

----------------------------------------------------------------------------
(* Requests of clients *)

\* Mutant: a request whose input was canceled queues it again.
Enqueue_Again(i, t, steer) ==
    /\ conversation # "blocked"
    /\ Exists(i) => rows[i].status = "canceled"
    /\ \E p \in FreePosition : rows' = [rows EXCEPT ![i] =
          [New(p, t, steer) EXCEPT !.revision = IF Exists(i) THEN rows[i].revision + 1 ELSE 1]]
    /\ Shown
    /\ UNCHANGED <<runs, conversation, paused>>

\* enqueue_input_with_result: a request id that exists is answered with its
\* input, or with 409 when the input says something else by now
Enqueue(i, t, steer) ==
    /\ conversation # "blocked"
    /\ \/ /\ ~Exists(i)
          /\ \E p \in FreePosition : rows' = [rows EXCEPT ![i] = New(p, t, steer)]
       \/ Exists(i) /\ UNCHANGED rows
    /\ Shown
    /\ UNCHANGED <<runs, conversation, paused>>

\* run.start with strategy reject: create_run, and persist_direct_input in the same commit
Start(i, t) ==
    /\ conversation = "idle" /\ ~Exists(i)
    /\ \E p \in FreePosition : rows' = [rows EXCEPT ![i] =
          [New(p, t, FALSE) EXCEPT !.status = "claimed", !.run = runs + 1]]
    /\ runs' = runs + 1
    /\ conversation' = "running"
    /\ Shown
    /\ UNCHANGED paused

\* _pending_input_for_update: the input is pending, with the revision the client saw
Current(i, seen) == i \in Pending /\ rows[i].revision = seen.revision

Edit(i, seen, t) ==
    /\ Current(i, seen)
    /\ Put(i, [rows[i] EXCEPT !.text = t])
    /\ Shown
    /\ UNCHANGED <<runs, conversation, paused>>

Delete(i, seen) ==
    /\ Current(i, seen)
    /\ Put(i, [rows[i] EXCEPT !.status = "canceled"])
    /\ Shown
    /\ UNCHANGED <<runs, conversation, paused>>

\* promote_pending_input; its request to cancel the active run is RunLifecycle's
Promote(i, seen) ==
    /\ ~paused /\ conversation # "blocked"
    /\ Current(i, seen) /\ ~rows[i].steer
    /\ Put(i, [rows[i] EXCEPT !.steer = TRUE])
    /\ Shown
    /\ UNCHANGED <<runs, conversation, paused>>

Orders == {f \in [Pending -> 1..Cardinality(Pending)] : \A i, j \in Pending : f[i] = f[j] => i = j}

\* Mutant: a reorder moves the inputs without raising their revisions.
Reorder_Silent(order) ==
    /\ \A i \in Pending : \E seen \in shown[i] : Current(i, seen)
    /\ rows' = [i \in Inputs |-> IF i \in Pending
          THEN [rows[i] EXCEPT !.position = order[i]] ELSE rows[i]]
    /\ Shown
    /\ UNCHANGED <<runs, conversation, paused>>

\* reorder_pending_inputs: every pending input exactly once, each with the
\* revision that the client saw
Reorder(order) ==
    /\ \A i \in Pending : \E seen \in shown[i] : Current(i, seen)
    /\ rows' = [i \in Inputs |-> IF i \in Pending
          THEN [rows[i] EXCEPT !.position = order[i], !.revision = @ + 1] ELSE rows[i]]
    /\ Shown
    /\ UNCHANGED <<runs, conversation, paused>>

\* resume_queue
Resume ==
    /\ paused' = FALSE
    /\ UNCHANGED <<rows, shown, runs, conversation>>

----------------------------------------------------------------------------
(* The dispatcher *)

\* priority (100 or 0) descending, then position
Precedes(a, b) == \/ a.steer /\ ~b.steer
                  \/ a.steer = b.steer /\ a.position < b.position

\* claim_next_input
Claim(i) ==
    /\ conversation = "idle" /\ ~paused
    /\ i \in Pending
    /\ \A j \in Pending \ {i} : Precedes(rows[i], rows[j])
    /\ Put(i, [rows[i] EXCEPT !.status = "claimed", !.run = runs + 1])
    /\ runs' = runs + 1
    /\ conversation' = "running"
    /\ Shown
    /\ UNCHANGED paused

Bound(i) == Exists(i) /\ rows[i].status = "claimed" /\ rows[i].run = runs /\ conversation = "running"

\* _fail_claimed_input: the claimed input cannot be launched
Unlaunchable(i) ==
    /\ Bound(i)
    /\ Put(i, [rows[i] EXCEPT !.status = "failed"])
    /\ conversation' = "idle"
    /\ Shown
    /\ UNCHANGED <<runs, paused>>

\* Mutant: the canceled input stays bound to the run.
Unbind_Bound(i) ==
    /\ Bound(i)
    /\ Put(i, [rows[i] EXCEPT !.status = "canceled"])
    /\ conversation' = "idle"
    /\ Shown
    /\ UNCHANGED <<runs, paused>>

\* recover_workerless_cancellations: the run was canceled before it had a worker
Unbind(i) ==
    /\ Bound(i)
    /\ Put(i, [rows[i] EXCEPT !.status = "canceled", !.run = 0])
    /\ conversation' = "idle"
    /\ Shown
    /\ UNCHANGED <<runs, paused>>

(* The rest of the life of runs, in module RunLifecycle: a run ends or     *)
(* waits for an approval, the approval is resolved, a cancellation pauses  *)
(* the queue.                                                              *)
RunOver ==
    /\ \/ conversation = "running" /\ conversation' \in {"idle", "blocked"} /\ UNCHANGED paused
       \/ conversation = "blocked" /\ conversation' = "idle" /\ UNCHANGED paused
       \/ conversation = "running" /\ paused' = TRUE /\ UNCHANGED conversation
    /\ UNCHANGED <<rows, shown, runs>>

----------------------------------------------------------------------------
\* bound on the changes that clients make
Changeable(i) == Exists(i) /\ rows[i].revision < MaxRevision

Next ==
    \/ \E i \in Inputs, t \in Texts : Start(i, t) \/ \E steer \in BOOLEAN : Enqueue(i, t, steer)
    \/ \E i \in Inputs : Changeable(i) /\ \E seen \in shown[i] :
          \/ Delete(i, seen) \/ Promote(i, seen)
          \/ \E t \in Texts : Edit(i, seen, t)
    \/ /\ \A i \in Pending : Changeable(i)
       /\ \E order \in Orders : Reorder(order)
    \/ Resume
    \/ \E i \in Inputs : Claim(i) \/ Unlaunchable(i) \/ Unbind(i)
    \/ RunOver

Spec == Init /\ [][Next]_vars

----------------------------------------------------------------------------
(* Properties *)

(* A revision says what an input was at one moment: a row that any client  *)
(* may still be looking at, with the revision of the table, is the row of  *)
(* the table.  So whoever edits, deletes, promotes or reorders with the    *)
(* revision it saw acts on what it saw, after any interleaving of bulk     *)
(* reorders, claims and recoveries (expected_revision).                    *)
RevisionNamesContent ==
    \A i \in Inputs : \A seen \in shown[i] :
        /\ Exists(i)
        /\ seen.revision <= rows[i].revision
        /\ seen.revision = rows[i].revision => seen = rows[i]

(* The pending inputs are in one order: no two share a position, after any *)
(* sequence of claims, deletions, reorders and enqueues, although a        *)
(* reorder numbers the pending ones from 1 again while the others keep     *)
(* their positions (enqueue_input_with_result, reorder_pending_inputs).    *)
PendingHaveAnOrder ==
    \A i, j \in Pending : rows[i].position = rows[j].position => i = j

(* An input is bound to a run exactly while it is claimed or failed, as    *)
(* the table's CHECK constraint says, and a run has one input, so no       *)
(* message of a user is answered twice; a run that is going on is the last *)
(* one (claim_next_input, _fail_claimed_input, the two recoveries).        *)
OneInputPerRun ==
    /\ \A i \in Inputs : Exists(i) =>
          /\ rows[i].status \in {"claimed", "failed"} <=> rows[i].run # 0
          /\ rows[i].run <= runs
    /\ \A i, j \in Inputs : Exists(i) /\ Exists(j) /\ rows[i].run = rows[j].run
          /\ rows[i].run # 0 => i = j

(* A request id is queued once and run once: however often it is sent, and *)
(* whatever has become of its input since, the input is never pending      *)
(* again, never gets a second run, and no longer changes what it says.     *)
QueuedOnce ==
    [][\A i \in Inputs : Exists(i) =>
          /\ rows'[i] # NoInput
          /\ rows[i].status # "pending" =>
               /\ rows'[i].status # "pending"
               /\ rows'[i].run \in {rows[i].run, 0}
               /\ rows'[i].text = rows[i].text]_vars
=============================================================================
