---------------------------- MODULE RunContract -----------------------------
(***************************************************************************)
(* What the durable run protocol promises about execution, whatever the    *)
(* handlers, dispatchers and recovery jobs of the processes do: a run is   *)
(* given to at most one worker, once; it is executed by that worker only;  *)
(* and a cancellation is settled (acknowledged) only when the run is not   *)
(* being executed, after which it never is.                                *)
(***************************************************************************)
CONSTANTS
    Runs,       \* ids of runs
    Workers,    \* worker instances
    NoWorker    \* no worker has the run

VARIABLES
    owner,      \* the worker a run was given to
    executing,  \* the runs being executed
    settled     \* the runs whose cancellation is acknowledged

vars == <<owner, executing, settled>>

Init ==
    /\ owner = [r \in Runs |-> NoWorker]
    /\ executing = {}
    /\ settled = {}

(* A worker takes a run no one has had.  It need not come to execute it.   *)
Begin(r, w) ==
    /\ owner[r] = NoWorker /\ r \notin settled
    /\ owner' = [owner EXCEPT ![r] = w]
    /\ executing' \in {executing, executing \cup {r}}
    /\ UNCHANGED settled

(* The executor of some runs ends; a crash ends all those of its process.  *)
Halt(S) ==
    /\ executing' = executing \ S
    /\ UNCHANGED <<owner, settled>>

Settle(r) ==
    /\ r \notin executing
    /\ settled' = settled \cup {r}
    /\ UNCHANGED <<owner, executing>>

Next ==
    \/ \E r \in Runs, w \in Workers : Begin(r, w)
    \/ \E S \in SUBSET Runs : Halt(S)
    \/ \E r \in Runs : Settle(r)

Spec == Init /\ [][Next]_vars
=============================================================================
