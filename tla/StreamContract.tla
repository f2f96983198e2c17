--------------------------- MODULE StreamContract ---------------------------
(***************************************************************************)
(* What the stream of a run promises to the clients that follow it,        *)
(* however often they reconnect and wherever they are served from: events  *)
(* come in the order in which they were emitted and none comes twice; the  *)
(* run ends in one way, after which it emits nothing; and a client that is *)
(* told of the end is told of that one, and of nothing after it.           *)
(***************************************************************************)
EXTENDS Integers

CONSTANTS
    Clients,    \* clients that follow the stream
    MaxEvents,  \* bound: events before the last one
    Ends        \* the events that can be the last one, later than all others

Nothing == 0

VARIABLES
    emitted,    \* number of events emitted so far
    verdict,    \* the end of the run, or Nothing while it is open
    last,       \* the last event each client has received, or Nothing
    coming      \* the events on their way to each client

vars == <<emitted, verdict, last, coming>>

Init ==
    /\ emitted = 0
    /\ verdict = Nothing
    /\ last = [c \in Clients |-> Nothing]
    /\ coming = [c \in Clients |-> {}]

(* Whatever is sent to a client or taken back from it has been emitted, or *)
(* is the end, and is later than what the client has.                      *)
Routed ==
    \A c \in Clients : \A e \in coming'[c] :
        /\ e \in 1..emitted' \/ e = verdict'
        /\ last[c] < e

Route == Routed /\ UNCHANGED <<emitted, verdict, last>>

Emit ==
    /\ verdict = Nothing /\ emitted < MaxEvents
    /\ emitted' = emitted + 1
    /\ Routed
    /\ UNCHANGED <<verdict, last>>

Settle(e) ==
    /\ verdict = Nothing
    /\ verdict' = e
    /\ Routed
    /\ UNCHANGED <<emitted, last>>

Receive(c, e) ==
    /\ e \in coming[c] /\ \A f \in coming[c] : e <= f
    /\ coming' = [coming EXCEPT ![c] = @ \ {e}]
    /\ last' = [last EXCEPT ![c] = e]
    /\ UNCHANGED <<emitted, verdict>>

Next ==
    \/ Route \/ Emit
    \/ \E e \in Ends : Settle(e)
    \/ \E c \in Clients : \E e \in coming[c] : Receive(c, e)

Spec == Init /\ [][Next]_vars
=============================================================================
