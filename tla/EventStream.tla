---------------------------- MODULE EventStream -----------------------------
(***************************************************************************)
(* The event stream of one run: the executor's events go to the broker of  *)
(* the owning process, which fans them out to the clients attached to      *)
(* GET /runs/{run_id}/stream, and in chunks to the stored trace, from      *)
(* which a client is served once the broker is gone.  The run's last event *)
(* is held back until the owner has committed the outcome.                 *)
(*                                                                         *)
(* A step is a stretch of a coroutine between two awaits or one database   *)
(* transaction.                                                            *)
(***************************************************************************)
EXTENDS RunTransitions, Sequences, SequencesExt

CONSTANTS
    Owner,      \* the worker that executes the run
    Clients,    \* clients that attach to the run's stream
    MaxEvents,  \* bound: events the executor emits before its last one
    RingSize,   \* maxlen of the broker's buffer
    QueueSize,  \* maxsize of a listener's queue
    Faults      \* bound: what an instance lets go wrong, listed below

ASSUME StreamAssumption ==
    /\ Owner \in Workers
    /\ MaxEvents \in Nat \ {0} /\ RingSize \in Nat \ {0} /\ QueueSize \in Nat \ {0}
    /\ Faults \subseteq {"stop", "stale", "crash", "dberror", "forceclose", "disconnect"}

(* Faults: the run is stopped by its user, is given up as stale by another *)
(* process, or dies with its own; a database write fails; the registry     *)
(* closes the broker; a connection breaks.                                 *)

(* Events by their position in the stream.  Done is the terminal event the *)
(* executor proposes (completed, interrupted or failed alike), Cut the one *)
(* of a canceled run.                                                      *)
Events   == 1..MaxEvents
Done     == MaxEvents + 1
Cut      == MaxEvents + 2
Ends     == {Done, Cut}
AnyEvent == Events \cup Ends
Sentinel == 0   \* None in a listener's queue
NoCursor == 0   \* no last_event_id

VARIABLES
    row,        \* the run's row in conversation_runs
    trace,      \* the stored events: message_event_chunks of the run
    phase,      \* how far the worker task of the run is, see Phases
    made,       \* number of events the executor has emitted
    unflushed,  \* _persist_buffer
    flushing,   \* the chunk of the background persist task
    open,       \* the broker is not closed
    ring,       \* the broker's buffer
    listeners,  \* clients whose queue is registered with the broker
    queue,      \* the queue of each client's subscription
    reader      \* each client and the response that serves it

worker == <<phase, made>>
store  == <<trace, unflushed, flushing>>
broker == <<open, ring, listeners, queue>>
vars   == <<row, trace, phase, made, unflushed, flushing, open, ring, listeners, queue, reader>>

-----------------------------------------------------------------------------
(* stream: the executor runs.  closing, cutting: it is exhausted, or was   *)
(* canceled, and closes its delivery.  cut: canceled, delivery closed.     *)
(* finalize, settle: about to commit the outcome, exhausted or canceled.   *)
(* announce: committed, terminal event still held.  wrap: about to close   *)
(* the broker.  over, aborted (by a cancel inside the finally block), dead *)
(* (with its process): the task is gone.                                   *)
Phases == {"stream", "closing", "cutting", "cut", "finalize", "settle", "announce",
           "wrap", "over", "aborted", "dead"}

(* A client: mode of its current response, events still to be sent from    *)
(* the replayed snapshot, last event id, events received, and two records  *)
(* of what it misses: told by a broker_gap marker, shed by the broker from *)
(* its full queue.                                                         *)
Reader ==
    [mode   : {"away", "opening", "live", "drain"},
     todo   : Seq(AnyEvent),
     cursor : AnyEvent \cup {NoCursor},
     got    : SUBSET AnyEvent,
     told   : SUBSET AnyEvent,
     shed   : SUBSET AnyEvent]

TypeOK ==
    /\ row \in RunRow({})
    /\ trace \in Seq(AnyEvent) /\ unflushed \in Seq(Events) /\ flushing \in Seq(Events)
    /\ phase \in Phases
    /\ made \in 0..MaxEvents
    /\ open \in BOOLEAN
    /\ ring \in Seq(AnyEvent) /\ Len(ring) <= RingSize
    /\ listeners \subseteq Clients
    /\ \A c \in Clients : queue[c] \in Seq(AnyEvent \cup {Sentinel}) /\ Len(queue[c]) <= QueueSize
    /\ reader \in [Clients -> Reader]

Init ==
    /\ row = Started(QueuedRow("direct", NoRun), Owner)
    /\ trace = <<>> /\ unflushed = <<>> /\ flushing = <<>>
    /\ phase = "stream" /\ made = 0
    /\ open = TRUE /\ ring = <<>> /\ listeners = {}
    /\ queue = [c \in Clients |-> <<>>]
    /\ reader = [c \in Clients |-> [mode |-> "away", todo |-> <<>>, cursor |-> NoCursor,
                                    got |-> {}, told |-> {}, shed |-> {}]]

-----------------------------------------------------------------------------
(* The broker.                                                             *)

(* Mutant: the event the cursor names is sent again.                       *)
SliceAfter_Inclusive(s, cursor) ==
    IF cursor = NoCursor THEN s
    ELSE IF Contains(s, cursor)
         THEN SubSeq(s, CHOOSE i \in 1..Len(s) : s[i] = cursor, Len(s))
         ELSE <<>>

(* slice_events_after: everything without a cursor, what follows the       *)
(* cursor when it is there, and nothing at all when it is not.             *)
SliceAfter(s, cursor) ==
    IF cursor = NoCursor THEN s
    ELSE IF Contains(s, cursor)
         THEN SubSeq(s, 1 + (CHOOSE i \in 1..Len(s) : s[i] = cursor), Len(s))
         ELSE <<>>

(* deque(maxlen): a full buffer drops its oldest event.                    *)
Remembered(e) ==
    IF Len(ring) < RingSize THEN Append(ring, e) ELSE Append(Tail(ring), e)

Full(c) == Len(queue[c]) = QueueSize

(* Mutant: no room is made for the sentinel in a full queue.               *)
WithSentinel_NoRoom(c) == IF Full(c) THEN queue[c] ELSE Append(queue[c], Sentinel)

(* The sentinel that ends a subscription.  In a full queue it takes the    *)
(* place of the oldest event, which the client will never be sent.         *)
WithSentinel(c) == Append(IF Full(c) THEN Tail(queue[c]) ELSE queue[c], Sentinel)

Shed(S) ==
    reader' = [c \in Clients |->
                  IF c \in S THEN [reader[c] EXCEPT !.shed = @ \cup {Head(queue[c])}]
                             ELSE reader[c]]

(* publish_nowait: remember the event and put it in every listener's queue; *)
(* a listener whose queue is full is dropped.  A closed broker ignores it. *)
Publish(e) ==
    LET slow == {c \in listeners : Full(c)}
    IN  IF open
        THEN /\ ring' = Remembered(e)
             /\ listeners' = listeners \ slow
             /\ queue' = [c \in Clients |-> IF c \in slow THEN WithSentinel(c)
                                            ELSE IF c \in listeners THEN Append(queue[c], e)
                                            ELSE queue[c]]
             /\ Shed(slow)
             /\ UNCHANGED open
        ELSE UNCHANGED <<broker, reader>>

(* close: every listener gets the sentinel.                                *)
CloseBroker ==
    /\ open' = FALSE
    /\ queue' = [c \in Clients |-> IF c \in listeners THEN WithSentinel(c) ELSE queue[c]]
    /\ Shed({c \in listeners : Full(c)})
    /\ listeners' = {}
    /\ UNCHANGED ring

-----------------------------------------------------------------------------
(* The executor's delivery and the worker task.                            *)

(* ProtocolEventDelivery.emit: publish, buffer for the trace, and start a  *)
(* background flush when the buffer is long or old enough (left open here) *)
(* and none is running.                                                    *)
Emit ==
    /\ phase = "stream" /\ made < MaxEvents
    /\ made' = made + 1
    /\ Publish(made + 1)
    /\ \/ /\ flushing = <<>>
          /\ flushing' = Append(unflushed, made + 1)
          /\ unflushed' = <<>>
       \/ /\ unflushed' = Append(unflushed, made + 1)
          /\ UNCHANGED flushing
    /\ UNCHANGED <<row, trace, phase>>

(* Mutant: a chunk that could not be written goes to the end of the line.  *)
Requeued_Behind == unflushed \o flushing

(* A chunk that could not be written comes before what was emitted since.  *)
Requeued == flushing \o unflushed

(* _persist_chunk: the chunk is committed, or the write fails.             *)
FlushChunk ==
    /\ phase \in {"stream", "closing", "cutting"} /\ flushing # <<>>
    /\ flushing' = <<>>
    /\ \/ trace' = trace \o flushing /\ UNCHANGED unflushed
       \/ "dberror" \in Faults /\ unflushed' = Requeued /\ UNCHANGED trace
    /\ UNCHANGED <<row, worker, broker, reader>>

(* Mutant: the executor's terminal event is published as it comes.         *)
HoldTerminal_Publish == Publish(Done)

(* OwnerTerminalDelivery.publish_nowait on the root terminal event.        *)
HoldTerminal == UNCHANGED <<broker, reader>>

(* The executor emits its terminal event and is exhausted.                 *)
Exhaust ==
    /\ phase = "stream"
    /\ phase' = "closing"
    /\ HoldTerminal
    /\ UNCHANGED <<row, made, store>>

(* The task is canceled, by the request that asked for it or by the        *)
(* heartbeat task; both follow the commit of the request.                  *)
CancelExecutor ==
    /\ phase = "stream" /\ row.cancelReq
    /\ phase' = "cutting"
    /\ UNCHANGED <<row, made, store, broker, reader>>

(* ProtocolEventDelivery.close: join the background flush, write what is   *)
(* left once; a failure loses it.  The broker it holds ignores the close.  *)
CloseDelivery ==
    /\ phase \in {"closing", "cutting"} /\ flushing = <<>>
    /\ phase' = IF phase = "closing" THEN "finalize" ELSE "cut"
    /\ \/ trace' = trace \o unflushed
       \/ "dberror" \in Faults /\ UNCHANGED trace
    /\ unflushed' = <<>>
    /\ UNCHANGED <<row, made, flushing, broker, reader>>

(* The cancel arrives while close waits for the background flush, which is *)
(* canceled with it, or for its own write: the chunk on its way is         *)
(* committed or not, and nothing is tried again.                           *)
CancelClose ==
    /\ phase \in {"closing", "cutting"} /\ row.cancelReq
    /\ phase' = "cut"
    /\ LET chunk == IF flushing = <<>> THEN unflushed ELSE flushing
       IN  trace' = trace \o chunk \/ UNCHANGED trace
    /\ unflushed' = <<>> /\ flushing' = <<>>
    /\ UNCHANGED <<row, made, broker, reader>>

(* _publish_message_end(canceled), in except CancelledError: published     *)
(* first, then persisted; the write may fail.                              *)
AnnounceCut ==
    /\ phase = "cut"
    /\ phase' = "settle"
    /\ Publish(Cut)
    /\ \/ trace' = Append(trace, Cut)
       \/ "dberror" \in Faults /\ UNCHANGED trace
    /\ UNCHANGED <<row, made, unflushed, flushing>>

EndOf(status) == IF status = "canceled" THEN Cut ELSE Done

(* Mutant: the outcome is committed without its terminal event.            *)
TraceWith_Unrecorded(e) == trace

(* append_events drops an event whose id is stored already.                *)
TraceWith(e) == IF Contains(trace, e) THEN trace ELSE Append(trace, e)

(* _transition: the outcome and its terminal event in one transaction,     *)
(* which an invalid transition or a database error undoes.  Only the       *)
(* outcome of an exhausted executor is announced afterwards.               *)
CommitOutcome ==
    /\ phase \in {"finalize", "settle"}
    /\ LET proposed == IF phase = "finalize" THEN "completed" ELSE "canceled"
           eff      == EffectiveStatus(row, proposed, Owner, FALSE)
       IN  \/ /\ CanTerminate(row, eff, Owner, FALSE)
              /\ row'   = Terminated(row, eff, Owner, FALSE)
              /\ trace' = TraceWith(EndOf(eff))
              /\ phase' = IF phase = "finalize" THEN "announce" ELSE "wrap"
           \/ /\ "dberror" \in Faults \/ ~CanTerminate(row, eff, Owner, FALSE)
              /\ phase' = "wrap"
              /\ UNCHANGED <<row, trace>>
    /\ UNCHANGED <<made, unflushed, flushing, broker, reader>>

(* terminal_delivery.publish_terminal for the status that was committed.   *)
AnnounceEnd ==
    /\ phase = "announce"
    /\ phase' = "wrap"
    /\ Publish(EndOf(row.status))
    /\ UNCHANGED <<row, made, store>>

(* The end of the finally block: ctx.broker.close.                         *)
WrapUp ==
    /\ phase = "wrap"
    /\ phase' = "over"
    /\ CloseBroker
    /\ UNCHANGED <<row, made, store>>

(* A second cancel ends the task inside its finally block: the broker      *)
(* stays open.                                                             *)
Abort ==
    /\ phase \in {"finalize", "settle", "announce", "wrap"} /\ row.cancelReq
    /\ phase' = "aborted"
    /\ UNCHANGED <<row, made, store, broker, reader>>

(* The process dies with the broker, the unwritten events and every open   *)
(* response.                                                               *)
Crash ==
    /\ "crash" \in Faults
    /\ phase \notin {"over", "dead"}
    /\ phase' = "dead"
    /\ unflushed' = <<>> /\ flushing' = <<>>
    /\ open' = FALSE /\ ring' = <<>> /\ listeners' = {}
    /\ queue' = [c \in Clients |-> <<>>]
    /\ reader' = [c \in Clients |-> [reader[c] EXCEPT !.mode = "away", !.todo = <<>>]]
    /\ UNCHANGED <<row, trace, made>>

(* The registry closes a live broker: it needs room, the broker is older   *)
(* than any turn should get, or another turn of the conversation starts.   *)
ForceClose ==
    /\ "forceclose" \in Faults \/ phase = "aborted"
    /\ open
    /\ CloseBroker
    /\ UNCHANGED <<row, worker, store>>

-----------------------------------------------------------------------------
(* What the rest of the system does to the row.                            *)

Stop ==
    /\ "stop" \in Faults
    /\ row.active
    /\ row' = CancelRequested(row, row.status, "user")
    /\ row' # row
    /\ UNCHANGED <<worker, store, broker, reader>>

Age ==
    /\ "stale" \in Faults
    /\ row.active /\ ~row.old
    /\ row' = [row EXCEPT !.old = TRUE]
    /\ UNCHANGED <<worker, store, broker, reader>>

(* Another process's sweep gives the run up.                               *)
SweepStale ==
    /\ row.status = "running" /\ row.old
    /\ row' = Terminated(row, "stale", NoWorker, FALSE)
    /\ UNCHANGED <<worker, store, broker, reader>>

-----------------------------------------------------------------------------
(* The clients of GET /runs/{run_id}/stream.                               *)

SetReader(c, r) == reader' = [reader EXCEPT ![c] = r]

(* The broker is live: the response is a subscription, which starts when   *)
(* the response does.                                                      *)
AttachLive(c) ==
    /\ reader[c].mode = "away" /\ open
    /\ SetReader(c, [reader[c] EXCEPT !.mode = "opening"])
    /\ UNCHANGED <<row, worker, store, broker>>

(* No broker and an active run: 409 and a retry while the heartbeat is     *)
(* fresh; with an old one the run is given up and the response is the      *)
(* run_worker_lost marker alone.                                           *)
AttachStale(c) ==
    /\ reader[c].mode = "away" /\ ~open
    /\ row.active /\ row.old
    /\ row' = Terminated(row, "stale", NoWorker, FALSE)
    /\ UNCHANGED <<worker, store, broker, reader>>

(* No broker and a run that is over: the stored events after the cursor.   *)
(* A run without stored events has nothing to send but a marker or a 404.  *)
AttachReplay(c) ==
    /\ reader[c].mode = "away" /\ ~open
    /\ ~row.active /\ trace # <<>>
    /\ SetReader(c, [reader[c] EXCEPT !.mode = "drain",
                                      !.todo = SliceAfter(trace, reader[c].cursor)])
    /\ UNCHANGED <<row, worker, store, broker>>

Evicted(cursor) == cursor # NoCursor /\ ~Contains(ring, cursor)

(* Mutant: the cursor is not looked for in the buffer first.               *)
Snapshot_Unchecked(r) == [r EXCEPT !.todo = SliceAfter(ring, r.cursor)]

(* _broker_run_generator: a cursor that is no longer in the buffer is      *)
(* answered with a broker_gap marker and the whole buffer.                 *)
Snapshot(r) ==
    IF Evicted(r.cursor)
    THEN [r EXCEPT !.todo = ring, !.told = @ \cup ((1..made) \ ToSet(ring))]
    ELSE [r EXCEPT !.todo = SliceAfter(ring, r.cursor)]

(* subscribe: register the queue and take the snapshot in one go.  The     *)
(* broker may have been closed since the request was answered.             *)
Subscribe(c) ==
    /\ reader[c].mode = "opening"
    /\ queue' = [queue EXCEPT ![c] = <<>>]
    /\ listeners' = IF open THEN listeners \cup {c} ELSE listeners
    /\ SetReader(c, [Snapshot(reader[c]) EXCEPT !.mode = IF open THEN "live" ELSE "drain"])
    /\ UNCHANGED <<row, worker, store, open, ring>>

Received(r, e) == [r EXCEPT !.got = @ \cup {e}, !.cursor = e]
Left(r)        == [r EXCEPT !.mode = "away", !.todo = <<>>]

(* One event reaches the client, or the response ends: from the snapshot,  *)
(* then from the queue up to the sentinel.                                 *)
Read(c) ==
    LET r == reader[c]
    IN  /\ \/ /\ r.mode \in {"live", "drain"} /\ r.todo # <<>>
              /\ SetReader(c, Received([r EXCEPT !.todo = Tail(@)], Head(r.todo)))
              /\ UNCHANGED <<queue, listeners>>
           \/ /\ r.mode = "drain" /\ r.todo = <<>>
              /\ SetReader(c, Left(r))
              /\ UNCHANGED <<queue, listeners>>
           \/ /\ r.mode = "live" /\ r.todo = <<>> /\ queue[c] # <<>>
              /\ IF Head(queue[c]) = Sentinel
                 THEN SetReader(c, Left(r)) /\ listeners' = listeners \ {c}
                 ELSE SetReader(c, Received(r, Head(queue[c]))) /\ UNCHANGED listeners
              /\ queue' = [queue EXCEPT ![c] = Tail(@)]
        /\ UNCHANGED <<row, worker, store, open, ring>>

(* The connection breaks; what was not received is sent again or not at    *)
(* all.                                                                    *)
Disconnect(c) ==
    /\ "disconnect" \in Faults
    /\ reader[c].mode # "away"
    /\ SetReader(c, Left(reader[c]))
    /\ listeners' = listeners \ {c}
    /\ queue' = [queue EXCEPT ![c] = <<>>]
    /\ UNCHANGED <<row, worker, store, open, ring>>

-----------------------------------------------------------------------------
WorkerStep ==
    \/ Emit \/ FlushChunk \/ Exhaust \/ CancelExecutor \/ CloseDelivery \/ AnnounceCut
    \/ CommitOutcome \/ AnnounceEnd \/ WrapUp

Attach(c) == AttachLive(c) \/ AttachStale(c) \/ AttachReplay(c)

Next ==
    \/ WorkerStep \/ CancelClose \/ Abort \/ Crash \/ ForceClose
    \/ Stop \/ Age \/ SweepStale
    \/ \E c \in Clients : Attach(c) \/ Subscribe(c) \/ Read(c) \/ Disconnect(c)

Spec == Init /\ [][Next]_vars

(* The worker task runs on; the scheduler's job collects the broker of a   *)
(* task that is gone; a client whose response has ended asks again, and    *)
(* reads on: its connection does not break each time before it has read    *)
(* anything.                                                               *)
Fairness ==
    /\ WF_vars(WorkerStep)
    /\ WF_vars(phase = "aborted" /\ ForceClose)
    /\ \A c \in Clients : WF_vars(Attach(c)) /\ WF_vars(Subscribe(c)) /\ SF_vars(Read(c))

LiveSpec == Spec /\ Fairness

-----------------------------------------------------------------------------
(* Properties.                                                             *)

(* The events between two a client has received that it has not received.  *)
Missed(c) == {e \in 1..made : /\ e \notin reader[c].got
                             /\ \E f, g \in reader[c].got : f < e /\ e < g}

(* The events that never reached the trace.                                *)
Lost == {e \in 1..made : ~Contains(trace, e) /\ ~Contains(unflushed, e) /\ ~Contains(flushing, e)}

(* A hole in what a client has received has one of three causes: a gap     *)
(* marker announced it, the trace lost the event, or the broker shed it    *)
(* from the client's full queue.  Reconnecting with a cursor, the ring     *)
(* buffer, the move from snapshot to queue and from broker to trace make   *)
(* no other hole.                                                          *)
HolesAreExplained ==
    \A c \in Clients : Missed(c) \subseteq reader[c].told \cup reader[c].shed \cup Lost

(* What the stream tells a client about the end of the run is what the row *)
(* records: a client told that the run ended by itself never finds it      *)
(* canceled, given up or active, and one told that it was canceled never   *)
(* finds it completed.                                                     *)
EndIsTheTruth ==
    \A c \in Clients : /\ Done \in reader[c].got => row.status = "completed"
                       /\ Cut \in reader[c].got => row.status # "completed"

(* The stored trace has the run's events in the order they were emitted,   *)
(* each once, and nothing after its terminal event, whatever writes fail   *)
(* and are tried again.                                                    *)
TraceIsOrdered ==
    /\ \A i, j \in 1..Len(trace) : i < j => trace[i] < trace[j]
    /\ \A i \in 1..Len(trace) : trace[i] \in Ends => i = Len(trace)

(* The phases in which the end of the run is open.                         *)
Early == {"stream", "closing", "cutting", "cut", "finalize"}

(* The end is settled when the worker commits it, announces a cancellation *)
(* or is gone; no client is told before.                                   *)
Verdict == IF phase \in Early THEN NoCursor
           ELSE IF row.status = "completed" THEN Done ELSE Cut

(* What the response of a client is going to send it.                      *)
Coming(c) == {e \in AnyEvent : \/ Contains(reader[c].todo, e)
                                \/ (reader[c].mode = "live" /\ Contains(queue[c], e))}

Stream == INSTANCE StreamContract WITH
              emitted <- made,
              verdict <- Verdict,
              last    <- [c \in Clients |-> reader[c].cursor],
              coming  <- [c \in Clients |-> Coming(c)]

(* The stream implements StreamContract: a client that loses its           *)
(* connection, falls behind the ring, is moved to the trace or has its     *)
(* broker closed gets no event twice or out of order, and a single end,    *)
(* the one that was settled.                                               *)
KeepsStream == Stream!Spec

(* A client is not left waiting on a stream nobody feeds: once the task is *)
(* gone, its response ends.                                                *)
ReaderIsReleased ==
    \A c \in Clients :
        (reader[c].mode = "live" /\ phase \in {"over", "aborted", "dead"})
            ~> reader[c].mode # "live"

(* A client that keeps coming back learns how the run ended, from the      *)
(* broker or from the trace, unless the trace has lost events.             *)
EndReachesReader ==
    \A c \in Clients :
        row.status \in {"completed", "canceled"} ~> (reader[c].got \cap Ends # {} \/ Lost # {})
=============================================================================
