------------------------- MODULE EventStreamProofs -------------------------
(***************************************************************************)
(* Proofs about EventStream, for any number of clients, any number of      *)
(* events, any sizes of the ring and the queues and any faults: types, the *)
(* truth of the announced end, the order of the trace, the causes of holes *)
(* in what a client receives, the implementation of StreamContract, and    *)
(* that no response waits on a queue nobody feeds.                         *)
(*                                                                         *)
(* Wherever an event can be on its way to a client or to the trace, it is  *)
(* one that may be told: a terminal event appears only when the outcome is *)
(* decided, and the outcome never changes to contradict it.  What a client *)
(* has received, its snapshot and its queue follow one another in the      *)
(* stream, and between two events of theirs nothing is left out that is    *)
(* not accounted for.                                                      *)
(***************************************************************************)
EXTENDS EventStream, SequenceTheorems, TLAPS

\* the phases in which there can be something to flush
Delivering == {"stream", "closing", "cutting"}

\* the events that may be told
Told == {e \in AnyEvent : /\ e \in Ends => phase \notin Early
                          /\ e = Done => row.status = "completed"
                          /\ e = Cut => row.status # "completed"}

RowOK ==
    /\ row \in RunRow({}) /\ row.worker = Owner
    /\ row.status \in {"running", "canceling", "completed", "canceled", "stale"}
    /\ row.active => row.status \in {"running", "canceling"}

WorkOK ==
    /\ phase \in Phases /\ made \in 0..MaxEvents
    /\ phase \in Early \cup {"settle"} => row.status # "completed"
    /\ phase = "announce" => row.status \in {"completed", "canceled"}

StoreOK ==
    /\ trace \in Seq(Told) /\ unflushed \in Seq(Events) /\ flushing \in Seq(Events)
    /\ phase \notin Delivering => unflushed = <<>> /\ flushing = <<>>

Increasing(s) == \A i, j \in 1..Len(s) : i < j => s[i] < s[j]
Before(s, t) == \A i \in 1..Len(s), j \in 1..Len(t) : s[i] < t[j]
UpTo(s, n) == \A i \in 1..Len(s) : s[i] \in Events => s[i] <= n

Chain(t, f, u, n) ==
    /\ Increasing(t) /\ Increasing(f) /\ Increasing(u)
    /\ Before(t, f) /\ Before(t, u) /\ Before(f, u)
    /\ UpTo(t, n) /\ UpTo(f, n) /\ UpTo(u, n)

\* trace, chunk and buffer are in order, one after the other, up to the last event emitted
OrderOK == Chain(trace, flushing, unflushed, made)

\* the broker and the clients hold only events of S
BrokerWith(S) ==
    /\ open \in BOOLEAN
    /\ ring \in Seq(S) /\ Len(ring) <= RingSize
    /\ listeners \subseteq Clients
    /\ queue \in [Clients -> Seq(S \cup {Sentinel})]
    /\ \A c \in Clients : Len(queue[c]) <= QueueSize
    /\ \A c \in listeners : queue[c] \in Seq(S)

ReaderWith(S) ==
    [mode   : {"away", "opening", "live", "drain"},
     todo   : Seq(S),
     cursor : S \cup {NoCursor},
     got    : SUBSET S,
     told   : SUBSET AnyEvent,
     shed   : SUBSET AnyEvent]

FanOut(S) == BrokerWith(S) /\ reader \in [Clients -> ReaderWith(S)]

FanOutOK == FanOut(Told)

IInv == RowOK /\ WorkOK /\ StoreOK /\ OrderOK /\ FanOutOK

----------------------------------------------------------------------------
(* Events *)

LEMMA EventNumbers ==
    /\ Events \subseteq Nat /\ \A e \in Events : e >= 1 /\ e <= MaxEvents
    /\ Done = MaxEvents + 1 /\ Cut = MaxEvents + 2 /\ MaxEvents \in Nat
    /\ AnyEvent \subseteq Nat /\ Done \notin Events /\ Cut \notin Events
    /\ Sentinel \notin AnyEvent /\ AnyEvent = Events \cup {Done, Cut}
BY StreamAssumption DEF Events, Done, Cut, AnyEvent, Ends, Sentinel

LEMMA EventsAreTold == Events \subseteq Told /\ Told \subseteq AnyEvent
BY EventNumbers DEF Told, Ends, AnyEvent

----------------------------------------------------------------------------
(* Rows *)

\* a run that reaches a terminal status keeps its worker and is no longer active
LEMMA RowTerminates ==
    ASSUME RowOK, NEW to \in TerminalStatuses, NEW by, row' = Terminated(row, to, by, FALSE)
    PROVE  row' \in RunRow({}) /\ row'.worker = row.worker /\ row'.status = to /\ ~row'.active
<1> DEFINE may == MayAcknowledge(row, by, FALSE)
           ack == row.ack \/ (row.cancelReq /\ may)
<1>1. may \in BOOLEAN
  BY DEF MayAcknowledge
<1>2. row \in RunRow({})
  BY DEF RowOK
<1>3. ack \in BOOLEAN
  BY <1>1, <1>2 DEF RunRow
<1>4. row' = [row EXCEPT !.status = to, !.active = FALSE, !.old = FALSE, !.why = "user", !.ack = ack]
  BY <1>2 DEF Terminated, RunRow
<1> HIDE DEF may, ack
<1> QED
  BY <1>2, <1>3, <1>4 DEF RunRow, RunStatuses, TerminalStatuses, CancelReasons

LEMMA CancelRequestedRow ==
    ASSUME NEW r \in RunRow({}), r.status \in {"running", "canceling"}
    PROVE  LET new == CancelRequested(r, r.status, "user")
           IN  /\ new \in RunRow({}) /\ new.worker = r.worker
               /\ new.status = "canceling"
BY DEF CancelRequested, RunRow, RunStatuses, ActiveStatuses, CancelReasons

LEMMA FirstRow ==
    LET new == Started(QueuedRow("direct", NoRun), Owner)
    IN  new \in RunRow({}) /\ new.worker = Owner /\ new.status = "running"
BY StreamAssumption DEF Started, QueuedRow, AbsentRow, RunRow, RunStatuses, ActiveStatuses,
                        CancelReasons

\* what the owner commits: completed by itself, or canceled
LEMMA Outcome ==
    ASSUME RowOK, NEW proposed \in {"completed", "canceled"},
           CanTerminate(row, EffectiveStatus(row, proposed, Owner, FALSE), Owner, FALSE)
    PROVE  LET eff == EffectiveStatus(row, proposed, Owner, FALSE)
           IN  /\ eff \in {"completed", "canceled"}
               /\ proposed = "canceled" => eff = "canceled"
<1>1. EffectiveStatus(row, proposed, Owner, FALSE) \in {"canceled", proposed}
  BY DEF EffectiveStatus
<1> QED
  BY <1>1

----------------------------------------------------------------------------
(* The outcome, and what may be told, do not change                        *)

LEMMA ToldGrows ==
    ASSUME phase \notin Early => /\ phase' \notin Early
                                 /\ row.status = "completed" <=> row'.status = "completed"
    PROVE  Told \subseteq Told'
BY EventNumbers DEF Told, Ends, Events, AnyEvent, Done, Cut

\* the row is left as it is, and the phase goes no way back
Onward ==
    /\ row' = row
    /\ phase' \in Phases /\ made' \in 0..MaxEvents
    /\ phase \notin Early => phase' \notin Early
    /\ phase' \in Early \cup {"settle"} => phase \in Early \cup {"settle"}
    /\ phase' = "announce" => phase = "announce"

LEMMA OnwardKeeps ==
    ASSUME RowOK, WorkOK, Onward
    PROVE  RowOK' /\ WorkOK' /\ Told \subseteq Told'
<1>1. Told \subseteq Told'
  BY ToldGrows DEF Onward
<1>2. RowOK'
  BY DEF RowOK, Onward
<1>3. WorkOK'
  BY DEF WorkOK, Onward
<1> QED
  BY <1>1, <1>2, <1>3

\* the row is given up or asked to cancel while it is active
LEMMA ActiveRowKeeps ==
    ASSUME RowOK, WorkOK, row.status # "completed", UNCHANGED worker,
           row' \in RunRow({}), row'.worker = row.worker,
           row'.status \in {"running", "canceling", "canceled", "stale"},
           row'.active => row'.status \in {"running", "canceling"},
           phase = "announce" => row'.status \in {"completed", "canceled"}
    PROVE  RowOK' /\ WorkOK' /\ Told \subseteq Told'
<1>1. Told \subseteq Told'
  BY ToldGrows DEF worker
<1>2. RowOK'
  BY DEF RowOK
<1>3. WorkOK'
  BY DEF WorkOK, worker
<1> QED
  BY <1>1, <1>2, <1>3

LEMMA TruthKept ==
    ASSUME RowOK, WorkOK, Next
    PROVE  RowOK' /\ WorkOK' /\ Told \subseteq Told'
<1> USE DEF Early, Phases
<1>1. CASE Emit
  <2>1. Onward
    BY <1>1, StreamAssumption DEF Emit, Onward, WorkOK
  <2> QED
    BY <2>1, OnwardKeeps
<1>2. CASE FlushChunk \/ ForceClose \/ \E c \in Clients :
             AttachLive(c) \/ AttachReplay(c) \/ Subscribe(c) \/ Read(c) \/ Disconnect(c)
  <2>1. row' = row /\ UNCHANGED worker
    BY <1>2 DEF FlushChunk, ForceClose, AttachLive, AttachReplay, Subscribe, Read, Disconnect
  <2>2. Onward
    BY <2>1 DEF worker, Onward, WorkOK
  <2> QED
    BY <2>2, OnwardKeeps
<1>3. CASE Exhaust \/ CancelExecutor \/ CloseDelivery \/ CancelClose \/ AnnounceCut \/ AnnounceEnd \/ WrapUp
           \/ Abort \/ Crash
  <2>1. row' = row /\ made' = made
    BY <1>3 DEF Exhaust, CancelExecutor, CloseDelivery, CancelClose, AnnounceCut, AnnounceEnd, WrapUp,
                Abort, Crash
  <2>2. /\ phase' \in Phases
        /\ phase \notin Early => phase' \notin Early
        /\ phase' \in Early \cup {"settle"} => phase \in Early \cup {"settle"}
        /\ phase' # "announce"
    BY <1>3 DEF Exhaust, CancelExecutor, CloseDelivery, CancelClose, AnnounceCut, AnnounceEnd, WrapUp,
                Abort, Crash
  <2>3. Onward
    BY <2>1, <2>2 DEF Onward, WorkOK
  <2> QED
    BY <2>3, OnwardKeeps
<1>4. CASE CommitOutcome
  <2> DEFINE proposed == IF phase = "finalize" THEN "completed" ELSE "canceled"
             eff == EffectiveStatus(row, proposed, Owner, FALSE)
  <2>1. phase \in {"finalize", "settle"} /\ made' = made
    BY <1>4 DEF CommitOutcome
  <2>2. \/ /\ CanTerminate(row, eff, Owner, FALSE)
           /\ row' = Terminated(row, eff, Owner, FALSE)
           /\ phase' = IF phase = "finalize" THEN "announce" ELSE "wrap"
        \/ row' = row /\ phase' = "wrap"
    BY <1>4 DEF CommitOutcome
  <2>3. CASE row' = row /\ phase' = "wrap"
    <3>1. Onward
      BY <2>1, <2>3 DEF Onward, WorkOK
    <3> QED
      BY <3>1, OnwardKeeps
  <2>4. CASE /\ CanTerminate(row, eff, Owner, FALSE)
             /\ row' = Terminated(row, eff, Owner, FALSE)
             /\ phase' = IF phase = "finalize" THEN "announce" ELSE "wrap"
    <3>1. eff \in {"completed", "canceled"} /\ (phase = "settle" => eff = "canceled")
      <4>1. proposed \in {"completed", "canceled"} /\ (phase = "settle" => proposed = "canceled")
        BY <2>1
      <4> HIDE DEF proposed
      <4> QED
        BY <4>1, <2>4, Outcome
    <3> HIDE DEF eff
    <3>2. eff \in TerminalStatuses
      BY <3>1 DEF TerminalStatuses
    <3>3. row' \in RunRow({}) /\ row'.worker = row.worker /\ row'.status = eff /\ ~row'.active
      <4>1. row' = Terminated(row, eff, Owner, FALSE) /\ row \in RunRow({})
        BY <2>4 DEF RowOK
      <4>2. PICK to \in TerminalStatuses : to = eff
        BY <3>2
      <4>3. row' = Terminated(row, to, Owner, FALSE)
        BY <4>1, <4>2, Zenon
      <4>4. row' \in RunRow({}) /\ row'.worker = row.worker /\ row'.status = to /\ ~row'.active
        BY <4>3, RowTerminates
      <4> QED
        BY <4>2, <4>4
    <3>4. RowOK'
      BY <3>1, <3>3 DEF RowOK
    <3>5. WorkOK'
      BY <2>1, <2>4, <3>1, <3>3 DEF WorkOK
    <3>6. phase \notin Early => row.status # "completed" /\ row'.status # "completed"
      BY <2>1, <3>1, <3>3 DEF WorkOK
    <3>7. Told \subseteq Told'
      BY <3>6, <2>4, ToldGrows
    <3> QED
      BY <3>4, <3>5, <3>7
  <2> QED
    BY <2>2, <2>3, <2>4
<1>5. CASE Stop
  <2>1. row.active /\ row' = CancelRequested(row, row.status, "user") /\ UNCHANGED worker
    BY <1>5 DEF Stop
  <2>2. row.status \in {"running", "canceling"}
    BY <2>1 DEF RowOK
  <2>3. row' \in RunRow({}) /\ row'.worker = row.worker /\ row'.status = "canceling"
    BY <2>1, <2>2, CancelRequestedRow DEF RowOK
  <2>4. phase # "announce"
    BY <2>2 DEF WorkOK
  <2> QED
    BY <2>1, <2>2, <2>3, <2>4, ActiveRowKeeps
<1>6. CASE Age
  <2>1. row.active /\ row' = [row EXCEPT !.old = TRUE] /\ UNCHANGED worker
    BY <1>6 DEF Age
  <2>2. row.status \in {"running", "canceling"}
    BY <2>1 DEF RowOK
  <2>3. row' \in RunRow({}) /\ row'.worker = row.worker /\ row'.status = row.status
    BY <2>1 DEF RowOK, RunRow
  <2>4. phase # "announce"
    BY <2>2 DEF WorkOK
  <2> QED
    BY <2>1, <2>2, <2>3, <2>4, ActiveRowKeeps
<1>7. CASE SweepStale \/ \E c \in Clients : AttachStale(c)
  <2>1. /\ row' = Terminated(row, "stale", NoWorker, FALSE) /\ UNCHANGED worker
        /\ row.active \/ row.status = "running"
    BY <1>7 DEF SweepStale, AttachStale
  <2>2. row.status \in {"running", "canceling"}
    BY <2>1 DEF RowOK
  <2>3. row' \in RunRow({}) /\ row'.worker = row.worker /\ row'.status = "stale" /\ ~row'.active
    <3>1. "stale" \in TerminalStatuses
      BY DEF TerminalStatuses
    <3> QED
      BY <2>1, <3>1, RowTerminates
  <2>4. phase # "announce"
    BY <2>2 DEF WorkOK
  <2> QED
    BY <2>1, <2>2, <2>3, <2>4, ActiveRowKeeps
<1> QED
  BY <1>1, <1>2, <1>3, <1>4, <1>5, <1>6, <1>7 DEF Next, WorkerStep, Attach

----------------------------------------------------------------------------
(* Sequences in order *)

Below(s, e) == \A i \in 1..Len(s) : s[i] < e

LEMMA EmptyOrder ==
    \A s, n : /\ Increasing(<<>>) /\ Before(<<>>, s) /\ Before(s, <<>>)
              /\ UpTo(<<>>, n) /\ Below(<<>>, n)
BY DEF Increasing, Before, UpTo, Below

LEMMA ConcatOrder ==
    ASSUME NEW s \in Seq(Nat), NEW t \in Seq(Nat), NEW u \in Seq(Nat), NEW n \in Nat
    PROVE  /\ Increasing(s) /\ Increasing(t) /\ Before(s, t) => Increasing(s \o t)
           /\ Before(s, u) /\ Before(t, u) => Before(s \o t, u)
           /\ Before(u, s) /\ Before(u, t) => Before(u, s \o t)
           /\ UpTo(s, n) /\ UpTo(t, n) => UpTo(s \o t, n)
<1> DEFINE c == s \o t
<1>1. /\ Len(s) \in Nat /\ Len(t) \in Nat /\ Len(c) = Len(s) + Len(t)
      /\ \A i \in 1..Len(s) : s[i] \in Nat
      /\ \A i \in 1..Len(t) : t[i] \in Nat
      /\ \A i \in 1..Len(c) : c[i] = IF i <= Len(s) THEN s[i] ELSE t[i - Len(s)]
  BY ConcatProperties, ElementOfSeq
<1>2. \A i \in 1..Len(c) : \/ i \in 1..Len(s) /\ c[i] = s[i]
                           \/ i - Len(s) \in 1..Len(t) /\ c[i] = t[i - Len(s)]
  BY <1>1
<1> HIDE DEF c
<1>3. ASSUME Increasing(s), Increasing(t), Before(s, t) PROVE Increasing(c)
  <2> SUFFICES ASSUME NEW i \in 1..Len(c), NEW j \in 1..Len(c), i < j PROVE c[i] < c[j]
    BY DEF Increasing
  <2>1. CASE j \in 1..Len(s) /\ c[j] = s[j]
    <3>1. i \in 1..Len(s) /\ c[i] = s[i]
      BY <1>1, <2>1
    <3> QED
      BY <2>1, <3>1, <1>3 DEF Increasing
  <2>2. CASE j - Len(s) \in 1..Len(t) /\ c[j] = t[j - Len(s)]
    <3>1. CASE i \in 1..Len(s) /\ c[i] = s[i]
      BY <2>2, <3>1, <1>3 DEF Before
    <3>2. CASE i - Len(s) \in 1..Len(t) /\ c[i] = t[i - Len(s)]
      <4>1. i - Len(s) < j - Len(s)
        BY <1>1
      <4> QED
        BY <2>2, <3>2, <4>1, <1>3 DEF Increasing
    <3> QED
      BY <1>2, <3>1, <3>2
  <2> QED
    BY <1>2, <2>1, <2>2
<1>4. Before(s, u) /\ Before(t, u) => Before(c, u)
  BY <1>2 DEF Before
<1>5. Before(u, s) /\ Before(u, t) => Before(u, c)
  BY <1>2 DEF Before
<1>6. UpTo(s, n) /\ UpTo(t, n) => UpTo(c, n)
  BY <1>2 DEF UpTo
<1> QED
  BY <1>3, <1>4, <1>5, <1>6 DEF c

LEMMA AppendOrder ==
    ASSUME NEW s \in Seq(Nat), NEW u \in Seq(Nat), NEW e \in Nat, NEW n \in Nat
    PROVE  /\ Increasing(s) /\ Below(s, e) => Increasing(Append(s, e))
           /\ Before(u, s) /\ Below(u, e) => Before(u, Append(s, e))
           /\ UpTo(s, n) /\ (e \in Events => e <= n) => UpTo(Append(s, e), n)
<1> DEFINE c == Append(s, e)
<1>1. /\ Len(s) \in Nat /\ Len(c) = Len(s) + 1
      /\ \A i \in 1..Len(s) : c[i] = s[i]
      /\ c[Len(s) + 1] = e
  BY AppendProperties
<1>2. \A i \in 1..Len(c) : \/ i \in 1..Len(s) /\ c[i] = s[i]
                           \/ i = Len(s) + 1 /\ c[i] = e
  BY <1>1
<1> HIDE DEF c
<1>3. Increasing(s) /\ Below(s, e) => Increasing(c)
  <2> SUFFICES ASSUME Increasing(s), Below(s, e),
                      NEW i \in 1..Len(c), NEW j \in 1..Len(c), i < j
               PROVE  c[i] < c[j]
    BY DEF Increasing
  <2>1. i \in 1..Len(s) /\ c[i] = s[i]
    BY <1>1
  <2> QED
    BY <1>2, <2>1 DEF Increasing, Below
<1>4. Before(u, s) /\ Below(u, e) => Before(u, c)
  BY <1>2 DEF Before, Below
<1>5. UpTo(s, n) /\ (e \in Events => e <= n) => UpTo(c, n)
  BY <1>2 DEF UpTo
<1> QED
  BY <1>3, <1>4, <1>5 DEF c

LEMMA EventsBelow ==
    ASSUME NEW s \in Seq(Events)
    PROVE  /\ s \in Seq(Nat) /\ Below(s, Done) /\ Below(s, Cut)
           /\ \A n \in Nat : UpTo(s, n) => Below(s, n + 1) /\ UpTo(s, n + 1)
<1>1. s \in Seq(Nat)
  BY EventNumbers, SeqMonotonic
<1>2. \A i \in 1..Len(s) : s[i] \in Events /\ s[i] \in Nat
  BY <1>1, ElementOfSeq
<1>3. Below(s, Done) /\ Below(s, Cut)
  BY <1>2, EventNumbers DEF Below
<1>4. \A n \in Nat : UpTo(s, n) => Below(s, n + 1) /\ UpTo(s, n + 1)
  BY <1>2 DEF Below, UpTo
<1> QED
  BY <1>1, <1>3, <1>4

----------------------------------------------------------------------------
(* The trace *)

StoreTyped(t, f, u) == t \in Seq(Nat) /\ f \in Seq(Nat) /\ u \in Seq(Nat)

LEMMA StoreNumbers ==
    ASSUME StoreOK
    PROVE  /\ StoreTyped(trace, flushing, unflushed)
           /\ Told \subseteq Told' => trace \in Seq(Told')
           /\ phase \in Early => trace \in Seq(Events)
<1>1. Told \subseteq Nat
  BY EventsAreTold, EventNumbers
<1>2. trace \in Seq(Told) /\ flushing \in Seq(Events) /\ unflushed \in Seq(Events)
  BY DEF StoreOK
<1>3. StoreTyped(trace, flushing, unflushed)
  BY <1>1, <1>2, EventNumbers, SeqMonotonic DEF StoreTyped
<1>4. Told \subseteq Told' => trace \in Seq(Told')
  BY <1>2, SeqMonotonic
<1>5. ASSUME phase \in Early PROVE trace \in Seq(Events)
  <2>1. Told \subseteq Events
    BY <1>5, EventNumbers DEF Told, Ends
  <2> QED
    BY <1>2, <2>1, SeqMonotonic
<1> QED
  BY <1>3, <1>4, <1>5

\* the owner's commit records the end that goes with the status, or nothing
LEMMA Commits ==
    ASSUME RowOK, WorkOK, CommitOutcome
    PROVE  \/ trace' = trace
           \/ \E e \in {Done, Cut} : /\ trace' = TraceWith(e) /\ e \in Told'
                                     /\ e = Done => phase = "finalize"
<1> DEFINE proposed == IF phase = "finalize" THEN "completed" ELSE "canceled"
           eff == EffectiveStatus(row, proposed, Owner, FALSE)
<1>1. phase \in {"finalize", "settle"}
  BY DEF CommitOutcome
<1>2. \/ /\ CanTerminate(row, eff, Owner, FALSE)
         /\ row' = Terminated(row, eff, Owner, FALSE)
         /\ trace' = TraceWith(EndOf(eff))
         /\ phase' = IF phase = "finalize" THEN "announce" ELSE "wrap"
      \/ trace' = trace
  BY DEF CommitOutcome
<1>3. CASE /\ CanTerminate(row, eff, Owner, FALSE)
           /\ row' = Terminated(row, eff, Owner, FALSE)
           /\ trace' = TraceWith(EndOf(eff))
           /\ phase' = IF phase = "finalize" THEN "announce" ELSE "wrap"
  <2>1. proposed \in {"completed", "canceled"} /\ (phase = "settle" => proposed = "canceled")
    BY <1>1
  <2> HIDE DEF proposed
  <2>2. eff \in {"completed", "canceled"} /\ (phase = "settle" => eff = "canceled")
    BY <2>1, <1>3, Outcome
  <2> HIDE DEF eff
  <2>3. PICK to \in TerminalStatuses : to = eff
    BY <2>2 DEF TerminalStatuses
  <2>4. to \in {"completed", "canceled"} /\ row' = Terminated(row, to, Owner, FALSE)
    BY <2>2, <2>3, <1>3
  <2>5. row'.status = to
    BY <2>4, RowTerminates
  <2>6. phase' \notin Early
    BY <1>1, <1>3 DEF Early
  <2>7. EndOf(to) \in {Done, Cut} /\ (EndOf(to) = Done <=> to = "completed")
    BY <2>4, EventNumbers DEF EndOf
  <2>8. EndOf(to) \in Told'
    BY <2>5, <2>6, <2>7, EventNumbers DEF Told
  <2>9. trace' = TraceWith(EndOf(to))
    BY <1>3, <2>3
  <2> QED
    BY <1>1, <2>2, <2>3, <2>7, <2>8, <2>9
<1> QED
  BY <1>2, <1>3

LEMMA StoreKept ==
    ASSUME RowOK, WorkOK, StoreOK, OrderOK, Next, Told \subseteq Told', WorkOK'
    PROVE  StoreOK' /\ OrderOK'
<1>1. StoreTyped(trace, flushing, unflushed) /\ trace \in Seq(Told')
      /\ (phase \in Early => trace \in Seq(Events))
  BY StoreNumbers
<1>2. unflushed \in Seq(Events) /\ flushing \in Seq(Events)
  BY DEF StoreOK
<1>3. made \in Nat /\ MaxEvents \in Nat
  BY EventNumbers DEF WorkOK
<1>4. Delivering \subseteq Early
  BY DEF Delivering, Early
<1>5. Chain(trace, flushing, unflushed, made)
  BY DEF OrderOK
<1>6. <<>> \in Seq(Events) /\ <<>> \in Seq(Nat)
  BY EmptySeq
\* a step that writes no event
<1>7. ASSUME UNCHANGED <<trace, unflushed, flushing, made>>, phase' \in Delivering => phase \in Delivering,
             phase \in Delivering => phase' \in Delivering
      PROVE  StoreOK' /\ OrderOK'
  <2>1. StoreOK'
    BY <1>1, <1>7 DEF StoreOK
  <2>2. OrderOK'
    BY <1>7 DEF OrderOK, Chain, Increasing, Before, UpTo
  <2> QED
    BY <2>1, <2>2
<1>8. CASE Emit
  <2> DEFINE e == made + 1
  <2>1. /\ phase \in Delivering /\ phase' \in Delivering /\ made < MaxEvents /\ made' = e /\ trace' = trace
        /\ \/ flushing = <<>> /\ flushing' = Append(unflushed, e) /\ unflushed' = <<>>
           \/ unflushed' = Append(unflushed, e) /\ flushing' = flushing
    BY <1>8 DEF Emit, Delivering
  <2>2. trace \in Seq(Events)
    BY <1>1, <1>4, <2>1
  <2>3. e \in Events /\ e \in Nat
    BY <1>3, <2>1 DEF Events
  <2>4. /\ Below(trace, e) /\ Below(flushing, e) /\ Below(unflushed, e)
        /\ UpTo(trace, e) /\ UpTo(flushing, e) /\ UpTo(unflushed, e)
    BY <1>2, <1>3, <1>5, <2>2, EventsBelow DEF Chain
  <2>5. Append(unflushed, e) \in Seq(Events)
    BY <1>2, <2>3, AppendProperties
  <2>6. /\ Increasing(Append(unflushed, e)) /\ UpTo(Append(unflushed, e), e)
        /\ Before(trace, Append(unflushed, e)) /\ Before(flushing, Append(unflushed, e))
    BY <1>1, <1>5, <2>3, <2>4, AppendOrder DEF Chain, StoreTyped
  <2> HIDE DEF e
  <2>7. CASE flushing = <<>> /\ flushing' = Append(unflushed, e) /\ unflushed' = <<>>
    <3>1. Chain(trace', flushing', unflushed', made')
      BY <1>5, <2>1, <2>4, <2>6, <2>7, EmptyOrder DEF Chain
    <3>2. StoreOK'
      BY <1>1, <1>6, <2>1, <2>5, <2>7 DEF StoreOK
    <3> QED
      BY <3>1, <3>2 DEF OrderOK
  <2>8. CASE unflushed' = Append(unflushed, e) /\ flushing' = flushing
    <3>1. Chain(trace', flushing', unflushed', made')
      BY <1>5, <2>1, <2>4, <2>6, <2>8 DEF Chain
    <3>2. StoreOK'
      BY <1>1, <1>2, <2>1, <2>5, <2>8 DEF StoreOK
    <3> QED
      BY <3>1, <3>2 DEF OrderOK
  <2> QED
    BY <2>1, <2>7, <2>8
<1>9. CASE FlushChunk
  <2>1. /\ phase \in Delivering /\ phase' = phase /\ made' = made /\ flushing' = <<>>
        /\ \/ trace' = trace \o flushing /\ unflushed' = unflushed
           \/ trace' = trace /\ unflushed' = flushing \o unflushed
    BY <1>9 DEF FlushChunk, Delivering, Requeued, worker
  <2>2. CASE trace' = trace \o flushing /\ unflushed' = unflushed
    <3>1. trace \o flushing \in Seq(Told')
      <4>1. flushing \in Seq(Told')
        <5>1. Events \subseteq Told'
          BY EventsAreTold
        <5> QED
          BY <1>2, <5>1, SeqMonotonic
      <4> QED
        BY <1>1, <4>1, ConcatProperties
    <3>2. /\ Increasing(trace \o flushing) /\ Before(trace \o flushing, unflushed)
          /\ UpTo(trace \o flushing, made)
      BY <1>1, <1>3, <1>5, ConcatOrder DEF Chain, StoreTyped
    <3>3. Chain(trace', flushing', unflushed', made')
      BY <1>5, <2>1, <2>2, <3>2, EmptyOrder DEF Chain
    <3>4. StoreOK'
      BY <1>2, <1>6, <2>1, <2>2, <3>1 DEF StoreOK
    <3> QED
      BY <3>3, <3>4 DEF OrderOK
  <2>3. CASE trace' = trace /\ unflushed' = flushing \o unflushed
    <3>1. flushing \o unflushed \in Seq(Events)
      BY <1>2, ConcatProperties
    <3>2. /\ Increasing(flushing \o unflushed) /\ Before(trace, flushing \o unflushed)
          /\ UpTo(flushing \o unflushed, made)
      BY <1>1, <1>3, <1>5, ConcatOrder DEF Chain, StoreTyped
    <3>3. Chain(trace', flushing', unflushed', made')
      BY <1>5, <2>1, <2>3, <3>2, EmptyOrder DEF Chain
    <3>4. StoreOK'
      BY <1>1, <1>6, <2>1, <2>3, <3>1 DEF StoreOK
    <3> QED
      BY <3>3, <3>4 DEF OrderOK
  <2> QED
    BY <2>1, <2>2, <2>3
<1>10. CASE CloseDelivery
  <2>1. /\ phase \in Delivering /\ phase' \notin Delivering /\ made' = made
        /\ flushing = <<>> /\ flushing' = <<>> /\ unflushed' = <<>>
        /\ trace' = trace \o unflushed \/ trace' = trace
    BY <1>10 DEF CloseDelivery, Delivering
  <2>2. trace \o unflushed \in Seq(Told')
    <3>1. Events \subseteq Told'
      BY EventsAreTold
    <3>2. unflushed \in Seq(Told')
      BY <1>2, <3>1, SeqMonotonic
    <3> QED
      BY <1>1, <3>2, ConcatProperties
  <2>3. Increasing(trace \o unflushed) /\ UpTo(trace \o unflushed, made)
    BY <1>1, <1>3, <1>5, ConcatOrder DEF Chain, StoreTyped
  <2>4. trace' \in Seq(Told') /\ Increasing(trace') /\ UpTo(trace', made)
    BY <1>1, <1>5, <2>1, <2>2, <2>3 DEF Chain
  <2>5. Chain(trace', flushing', unflushed', made')
    BY <2>1, <2>4, EmptyOrder DEF Chain
  <2>6. StoreOK'
    BY <1>6, <2>1, <2>4 DEF StoreOK
  <2> QED
    BY <2>5, <2>6 DEF OrderOK
<1>17. CASE CancelClose
  <2>1. /\ phase' \notin Delivering /\ made' = made /\ flushing' = <<>> /\ unflushed' = <<>>
        /\ trace' = trace \o unflushed \/ trace' = trace \o flushing \/ trace' = trace
    BY <1>17 DEF CancelClose, Delivering
  <2>2. ASSUME NEW chunk \in {unflushed, flushing}
        PROVE  /\ trace \o chunk \in Seq(Told')
               /\ Increasing(trace \o chunk) /\ UpTo(trace \o chunk, made)
    <3>1. chunk \in Seq(Events) /\ Increasing(chunk) /\ Before(trace, chunk) /\ UpTo(chunk, made)
      BY <1>2, <1>5 DEF Chain
    <3>2. Events \subseteq Told'
      BY EventsAreTold
    <3>3. chunk \in Seq(Told')
      BY <3>1, <3>2, SeqMonotonic
    <3>4. trace \in Seq(Nat) /\ chunk \in Seq(Nat) /\ Increasing(trace) /\ UpTo(trace, made)
      BY <1>1, <1>5 DEF Chain, StoreTyped
    <3> QED
      BY <1>1, <1>3, <3>1, <3>3, <3>4, ConcatOrder, ConcatProperties
  <2>3. trace' \in Seq(Told') /\ Increasing(trace') /\ UpTo(trace', made)
    BY <1>1, <1>5, <2>1, <2>2 DEF Chain
  <2>4. Chain(trace', flushing', unflushed', made')
    BY <2>1, <2>3, EmptyOrder DEF Chain
  <2>5. StoreOK'
    BY <1>6, <2>1, <2>3 DEF StoreOK
  <2> QED
    BY <2>4, <2>5 DEF OrderOK
\* a terminal event behind everything
<1>11. ASSUME NEW e \in {Done, Cut}, e \in Told', Below(trace, e), trace' = Append(trace, e),
              phase \notin Delivering, phase' \notin Delivering, UNCHANGED <<unflushed, flushing, made>>
       PROVE  StoreOK' /\ OrderOK'
  <2>1. unflushed' = <<>> /\ flushing' = <<>>
    BY <1>11 DEF StoreOK
  <2>2. Append(trace, e) \in Seq(Told')
    BY <1>1, <1>11, AppendProperties
  <2>3. e \in Nat /\ e \notin Events
    BY EventNumbers DEF AnyEvent, Ends
  <2>4. Increasing(Append(trace, e)) /\ UpTo(Append(trace, e), made)
    BY <1>1, <1>3, <1>5, <1>11, <2>3, AppendOrder DEF Chain, StoreTyped
  <2>5. Chain(trace', flushing', unflushed', made')
    BY <1>11, <2>1, <2>4, EmptyOrder DEF Chain
  <2>6. StoreOK'
    BY <1>6, <1>11, <2>1, <2>2 DEF StoreOK
  <2> QED
    BY <2>5, <2>6 DEF OrderOK
<1>12. CASE AnnounceCut
  <2>1. /\ phase = "cut" /\ phase' = "settle" /\ UNCHANGED <<made, unflushed, flushing>> /\ row' = row
        /\ trace' = Append(trace, Cut) \/ trace' = trace
    BY <1>12 DEF AnnounceCut
  <2>2. phase \notin Delivering /\ phase' \notin Delivering /\ phase \in Early
    BY <2>1 DEF Delivering, Early
  <2>3. Below(trace, Cut)
    BY <1>1, <2>2, EventsBelow
  <2>4. Cut \in Told'
    BY <2>1, EventNumbers DEF Told, WorkOK, Early
  <2>5. CASE trace' = Append(trace, Cut)
    BY <1>11, <2>1, <2>2, <2>3, <2>4, <2>5
  <2>6. CASE trace' = trace
    BY <1>7, <2>1, <2>2, <2>6
  <2> QED
    BY <2>1, <2>5, <2>6
<1>13. CASE CommitOutcome
  <2>1. /\ phase \in {"finalize", "settle"} /\ phase' \in {"announce", "wrap"}
        /\ UNCHANGED <<made, unflushed, flushing>>
    BY <1>13 DEF CommitOutcome
  <2>2. phase \notin Delivering /\ phase' \notin Delivering
    BY <2>1 DEF Delivering
  <2>3. CASE trace' = trace
    BY <1>7, <2>1, <2>2, <2>3
  <2>4. ASSUME NEW e \in {Done, Cut}, trace' = TraceWith(e), trace' # trace, e \in Told',
               e = Done => phase = "finalize"
        PROVE  StoreOK' /\ OrderOK'
    <3>1. trace' = Append(trace, e) /\ \A i \in 1..Len(trace) : trace[i] # e
      BY <2>4 DEF TraceWith, Contains
    <3>2. CASE phase = "finalize"
      <4>1. Below(trace, e)
        BY <1>1, <3>2, EventsBelow DEF Early
      <4> QED
        BY <1>11, <2>1, <2>2, <2>4, <3>1, <4>1
    <3>3. CASE phase = "settle"
      <4>1. e = Cut /\ Done \notin Told
        BY <2>4, <3>3, EventNumbers DEF WorkOK, Told
      <4>2. \A i \in 1..Len(trace) : trace[i] \in Events \cup {Cut}
        <5>1. \A i \in 1..Len(trace) : trace[i] \in Told
          BY ElementOfSeq DEF StoreOK
        <5> QED
          BY <4>1, <5>1, EventsAreTold, EventNumbers
      <4>3. Below(trace, e)
        <5>1. \A i \in 1..Len(trace) : trace[i] \in Events
          BY <3>1, <4>1, <4>2
        <5>2. Cut \in Nat /\ \A n \in Events : n < Cut
          BY EventNumbers
        <5> QED
          BY <4>1, <5>1, <5>2 DEF Below
      <4> QED
        BY <1>11, <2>1, <2>2, <2>4, <3>1, <4>3
    <3> QED
      BY <2>1, <3>2, <3>3
  <2> QED
    BY <1>13, <2>3, <2>4, Commits
<1>14. CASE Crash
  <2>1. UNCHANGED <<trace, made>> /\ unflushed' = <<>> /\ flushing' = <<>>
    BY <1>14 DEF Crash
  <2>2. Chain(trace', flushing', unflushed', made')
    BY <1>5, <2>1, EmptyOrder DEF Chain
  <2>3. StoreOK'
    BY <1>1, <1>6, <2>1 DEF StoreOK
  <2> QED
    BY <2>2, <2>3 DEF OrderOK
<1>15. CASE Exhaust \/ CancelExecutor \/ AnnounceEnd \/ WrapUp \/ Abort
  <2>1. UNCHANGED <<trace, unflushed, flushing, made>>
    BY <1>15 DEF Exhaust, CancelExecutor, AnnounceEnd, WrapUp, Abort, store
  <2>2. phase' \in Delivering <=> phase \in Delivering
    BY <1>15 DEF Exhaust, CancelExecutor, AnnounceEnd, WrapUp, Abort, Delivering
  <2> QED
    BY <1>7, <2>1, <2>2
<1>16. CASE \/ ForceClose \/ Stop \/ Age \/ SweepStale
            \/ \E c \in Clients : Attach(c) \/ Subscribe(c) \/ Read(c) \/ Disconnect(c)
  <2>1. UNCHANGED <<trace, unflushed, flushing, made, phase>>
    BY <1>16 DEF ForceClose, Stop, Age, SweepStale, Attach, AttachLive, AttachStale, AttachReplay,
                 Subscribe, Read, Disconnect, store, worker
  <2> QED
    BY <1>7, <2>1
<1> QED
  BY <1>8, <1>9, <1>10, <1>12, <1>13, <1>14, <1>15, <1>16, <1>17 DEF Next, WorkerStep

----------------------------------------------------------------------------
(* The broker and the clients                                              *)

LEMMA Widened ==
    ASSUME NEW S, FanOut(Told), Told \subseteq S
    PROVE  FanOut(S)
<1>1. Seq(Told) \subseteq Seq(S)
  BY SeqMonotonic
<1>2. Seq(Told \cup {Sentinel}) \subseteq Seq(S \cup {Sentinel})
  <2>1. Told \cup {Sentinel} \subseteq S \cup {Sentinel}
    OBVIOUS
  <2> QED
    BY <2>1, SeqMonotonic
<1>3. ReaderWith(Told) \subseteq ReaderWith(S)
  BY <1>1 DEF ReaderWith
<1>4. BrokerWith(S)
  BY <1>1, <1>2 DEF FanOut, BrokerWith
<1>5. reader \in [Clients -> ReaderWith(S)]
  BY <1>3 DEF FanOut
<1> QED
  BY <1>4, <1>5 DEF FanOut

LEMMA QueueTyped ==
    ASSUME NEW S, BrokerWith(S), NEW c \in Clients
    PROVE  /\ queue[c] \in Seq(S \cup {Sentinel}) /\ Len(queue[c]) \in Nat
           /\ Len(queue[c]) <= QueueSize /\ QueueSize \in Nat \ {0}
           /\ c \in listeners => queue[c] \in Seq(S)
<1>1. queue[c] \in Seq(S \cup {Sentinel})
  BY DEF BrokerWith
<1>2. Len(queue[c]) \in Nat
  BY <1>1, LenProperties
<1> QED
  BY <1>1, <1>2, StreamAssumption DEF BrokerWith

LEMMA SentinelTyped ==
    ASSUME NEW S, BrokerWith(S), NEW c \in Clients
    PROVE  WithSentinel(c) \in Seq(S \cup {Sentinel}) /\ Len(WithSentinel(c)) <= QueueSize
<1>0. /\ queue[c] \in Seq(S \cup {Sentinel}) /\ Len(queue[c]) \in Nat
      /\ Len(queue[c]) <= QueueSize /\ QueueSize \in Nat \ {0}
  BY QueueTyped
<1>1. CASE Full(c)
  <2>1. queue[c] # <<>>
    BY <1>1, QueueTyped, EmptySeq DEF Full
  <2>2. Tail(queue[c]) \in Seq(S \cup {Sentinel}) /\ Len(Tail(queue[c])) = QueueSize - 1
    BY <1>1, <2>1, QueueTyped, HeadTailProperties DEF Full
  <2> QED
    BY <1>1, <2>2, QueueTyped, AppendProperties DEF WithSentinel
<1>2. CASE ~Full(c)
  <2>1. Len(queue[c]) < QueueSize
    BY <1>0, <1>2 DEF Full
  <2>2. WithSentinel(c) = Append(queue[c], Sentinel)
    BY <1>2 DEF WithSentinel
  <2>3. Append(queue[c], Sentinel) \in Seq(S \cup {Sentinel}) /\ Len(Append(queue[c], Sentinel)) = Len(queue[c]) + 1
    BY <1>0, AppendProperties
  <2> QED
    BY <1>0, <2>1, <2>2, <2>3
<1> QED
  BY <1>1, <1>2

LEMMA ShedTyped ==
    ASSUME NEW S, S \subseteq AnyEvent, FanOut(S), NEW slow,
           slow \subseteq {c \in listeners : Full(c)}, Shed(slow)
    PROVE  (reader \in [Clients -> ReaderWith(S)])'
<1> SUFFICES ASSUME NEW c \in Clients
             PROVE  (IF c \in slow THEN [reader[c] EXCEPT !.shed = @ \cup {Head(queue[c])}]
                                   ELSE reader[c]) \in ReaderWith(S)
  BY DEF Shed, ReaderWith
<1>1. reader[c] \in ReaderWith(S)
  BY DEF FanOut
<1>2. CASE c \in slow
  <2>1. queue[c] \in Seq(S) /\ queue[c] # <<>>
    BY <1>2, QueueTyped, EmptySeq DEF Full, FanOut
  <2>2. Head(queue[c]) \in AnyEvent
    BY <2>1, HeadTailProperties
  <2> QED
    BY <1>1, <1>2, <2>2 DEF ReaderWith
<1> QED
  BY <1>1, <1>2

LEMMA RingTyped ==
    ASSUME NEW S, BrokerWith(S), NEW e \in S
    PROVE  Remembered(e) \in Seq(S) /\ Len(Remembered(e)) <= RingSize
<1>1. ring \in Seq(S) /\ Len(ring) \in Nat /\ Len(ring) <= RingSize /\ RingSize \in Nat \ {0}
  BY StreamAssumption, LenProperties DEF BrokerWith
<1>2. CASE Len(ring) < RingSize
  BY <1>1, <1>2, AppendProperties DEF Remembered
<1>3. CASE ~(Len(ring) < RingSize)
  <2>1. ring # <<>>
    BY <1>1, <1>3, EmptySeq
  <2>2. Tail(ring) \in Seq(S) /\ Len(Tail(ring)) = Len(ring) - 1
    BY <1>1, <2>1, HeadTailProperties
  <2> QED
    BY <1>1, <1>3, <2>2, AppendProperties DEF Remembered
<1> QED
  BY <1>2, <1>3

LEMMA Published ==
    ASSUME NEW S, S \subseteq AnyEvent, FanOut(S), NEW e \in S, Publish(e)
    PROVE  FanOut(S)'
<1>1. CASE ~open
  BY <1>1 DEF Publish, broker, FanOut, BrokerWith, ReaderWith
<1>2. CASE open
  <2> DEFINE slow == {c \in listeners : Full(c)}
  <2>1. /\ ring' = Remembered(e)
        /\ listeners' = listeners \ slow
        /\ queue' = [c \in Clients |-> IF c \in slow THEN WithSentinel(c)
                                       ELSE IF c \in listeners THEN Append(queue[c], e)
                                       ELSE queue[c]]
        /\ Shed(slow)
        /\ open' = open
    BY <1>2 DEF Publish
  <2>2. slow \subseteq listeners /\ \A c \in listeners : c \notin slow => ~Full(c)
    OBVIOUS
  <2>3. (reader \in [Clients -> ReaderWith(S)])'
    BY <2>1, ShedTyped
  <2> HIDE DEF slow
  <2>4. BrokerWith(S)
    BY DEF FanOut
  <2>5. ring' \in Seq(S) /\ Len(ring') <= RingSize
    BY <2>1, <2>4, RingTyped
  <2>6. \A c \in Clients : queue'[c] \in Seq(S \cup {Sentinel}) /\ Len(queue'[c]) <= QueueSize
    <3> SUFFICES ASSUME NEW c \in Clients
                 PROVE  queue'[c] \in Seq(S \cup {Sentinel}) /\ Len(queue'[c]) <= QueueSize
      OBVIOUS
    <3>1. CASE c \in slow
      BY <2>1, <2>4, <3>1, SentinelTyped
    <3>2. CASE c \notin slow /\ c \in listeners
      <4>1. queue'[c] = Append(queue[c], e) /\ ~Full(c)
        BY <2>1, <2>2, <3>2
      <4>2. /\ queue[c] \in Seq(S) /\ Len(queue[c]) \in Nat
            /\ Len(queue[c]) <= QueueSize /\ QueueSize \in Nat
        BY <2>4, <3>2, QueueTyped
      <4>3. Len(queue[c]) < QueueSize
        BY <4>1, <4>2 DEF Full
      <4>4. Append(queue[c], e) \in Seq(S) /\ Len(Append(queue[c], e)) = Len(queue[c]) + 1
        BY <4>2, AppendProperties
      <4>5. Append(queue[c], e) \in Seq(S \cup {Sentinel})
        BY <4>4, SeqMonotonic
      <4> QED
        BY <4>1, <4>2, <4>3, <4>4, <4>5
    <3>3. CASE c \notin slow /\ c \notin listeners
      BY <2>1, <2>4, <3>3, QueueTyped
    <3> QED
      BY <3>1, <3>2, <3>3
  <2>7. \A c \in listeners' : queue'[c] \in Seq(S)
    <3> SUFFICES ASSUME NEW c \in listeners' PROVE queue'[c] \in Seq(S)
      OBVIOUS
    <3>1. c \in Clients /\ c \in listeners /\ queue'[c] = Append(queue[c], e)
      BY <2>1, <2>4 DEF BrokerWith
    <3>2. queue[c] \in Seq(S)
      BY <2>4, <3>1 DEF BrokerWith
    <3> QED
      BY <3>1, <3>2, AppendProperties
  <2>8. BrokerWith(S)'
    BY <2>1, <2>4, <2>5, <2>6, <2>7 DEF BrokerWith
  <2> QED
    BY <2>3, <2>8 DEF FanOut
<1> QED
  BY <1>1, <1>2

LEMMA Closed ==
    ASSUME NEW S, S \subseteq AnyEvent, FanOut(S), CloseBroker
    PROVE  FanOut(S)'
<1>1. BrokerWith(S)
  BY DEF FanOut
<1>2. (reader \in [Clients -> ReaderWith(S)])'
  BY ShedTyped DEF CloseBroker
<1>3. \A c \in Clients : queue'[c] \in Seq(S \cup {Sentinel}) /\ Len(queue'[c]) <= QueueSize
  BY <1>1, SentinelTyped, QueueTyped DEF CloseBroker
<1>4. BrokerWith(S)'
  BY <1>1, <1>3 DEF CloseBroker, BrokerWith
<1> QED
  BY <1>2, <1>4 DEF FanOut

LEMMA SliceTyped ==
    ASSUME NEW S, NEW s \in Seq(S), NEW cursor
    PROVE  SliceAfter(s, cursor) \in Seq(S)
<1>1. CASE cursor = NoCursor
  BY <1>1 DEF SliceAfter
<1>2. CASE cursor # NoCursor /\ ~Contains(s, cursor)
  BY <1>2, EmptySeq DEF SliceAfter
<1>3. CASE cursor # NoCursor /\ Contains(s, cursor)
  <2>1. PICK at \in 1..Len(s) : at = CHOOSE i \in 1..Len(s) : s[i] = cursor
    BY <1>3 DEF Contains
  <2>2. Len(s) \in Nat /\ \A i \in 1..Len(s) : s[i] \in S
    BY LenProperties, ElementOfSeq
  <2>3. 1 + at \in Int /\ Len(s) \in Int /\ \A i \in (1 + at)..Len(s) : s[i] \in S
    BY <2>2
  <2>4. SubSeq(s, 1 + at, Len(s)) \in Seq(S)
    BY <2>3, SubSeqProperties
  <2> QED
    BY <1>3, <2>1, <2>4 DEF SliceAfter
<1> QED
  BY <1>1, <1>2, <1>3

\* only the response of c, its queue and its registration change
LEMMA ClientKeeps ==
    ASSUME NEW S, FanOut(S), NEW c \in Clients, NEW r \in ReaderWith(S), SetReader(c, r),
           UNCHANGED <<open, ring>>, listeners' \subseteq listeners \cup {c},
           NEW q \in Seq(S \cup {Sentinel}), queue' = [queue EXCEPT ![c] = q], Len(q) <= QueueSize,
           c \in listeners' => q \in Seq(S)
    PROVE  FanOut(S)'
<1>1. BrokerWith(S)
  BY DEF FanOut
<1>2. \A d \in Clients : queue'[d] = IF d = c THEN q ELSE queue[d]
  BY <1>1 DEF BrokerWith
<1>3. queue' \in [Clients -> Seq(S \cup {Sentinel})] /\ \A d \in Clients : Len(queue'[d]) <= QueueSize
  BY <1>1, <1>2 DEF BrokerWith
<1>4. \A d \in listeners' : queue'[d] \in Seq(S)
  BY <1>1, <1>2 DEF BrokerWith
<1>5. BrokerWith(S)'
  BY <1>1, <1>3, <1>4 DEF BrokerWith
<1>6. (reader \in [Clients -> ReaderWith(S)])'
  BY DEF SetReader, FanOut, ReaderWith
<1> QED
  BY <1>5, <1>6 DEF FanOut

LEMMA ReaderTyped ==
    ASSUME NEW S, FanOut(S), NEW c \in Clients
    PROVE  /\ BrokerWith(S) /\ reader[c] \in ReaderWith(S)
           /\ Left(reader[c]) \in ReaderWith(S)
           /\ \A e \in S : Received(reader[c], e) \in ReaderWith(S)
           /\ queue = [queue EXCEPT ![c] = queue[c]]
<1>1. BrokerWith(S) /\ reader[c] \in ReaderWith(S)
  BY DEF FanOut
<1>2. <<>> \in Seq(S)
  BY EmptySeq
<1>3. Left(reader[c]) \in ReaderWith(S)
  BY <1>1, <1>2 DEF Left, ReaderWith
<1>4. \A e \in S : Received(reader[c], e) \in ReaderWith(S)
  BY <1>1 DEF Received, ReaderWith
<1>5. queue = [queue EXCEPT ![c] = queue[c]]
  BY <1>1 DEF BrokerWith
<1> QED
  BY <1>1, <1>3, <1>4, <1>5

LEMMA Subscribed ==
    ASSUME NEW S, FanOut(S), WorkOK, NEW c \in Clients, Subscribe(c)
    PROVE  FanOut(S)'
<1>1. BrokerWith(S) /\ reader[c] \in ReaderWith(S)
  BY ReaderTyped
<1>2. ring \in Seq(S) /\ SliceAfter(ring, reader[c].cursor) \in Seq(S)
  BY <1>1, SliceTyped DEF BrokerWith
<1>3. (1..made) \ ToSet(ring) \subseteq AnyEvent
  BY EventNumbers DEF WorkOK, Events
<1>4. Snapshot(reader[c]) \in ReaderWith(S)
  BY <1>1, <1>2, <1>3 DEF Snapshot, ReaderWith
<1> DEFINE r == [Snapshot(reader[c]) EXCEPT !.mode = IF open THEN "live" ELSE "drain"]
<1>5. r \in ReaderWith(S)
  BY <1>4 DEF ReaderWith
<1>6. /\ SetReader(c, r) /\ UNCHANGED <<open, ring>> /\ listeners' \subseteq listeners \cup {c}
      /\ queue' = [queue EXCEPT ![c] = <<>>]
  BY DEF Subscribe
<1>7. <<>> \in Seq(S) /\ <<>> \in Seq(S \cup {Sentinel}) /\ Len(<<>>) <= QueueSize
  BY EmptySeq, StreamAssumption
<1> HIDE DEF r
<1> QED
  BY <1>5, <1>6, <1>7, ClientKeeps

LEMMA ReadTyped ==
    ASSUME NEW S, FanOut(S), NEW c \in Clients, Read(c)
    PROVE  FanOut(S)'
<1> DEFINE r == reader[c]
<1>1. /\ BrokerWith(S) /\ r \in ReaderWith(S) /\ Left(r) \in ReaderWith(S)
      /\ \A e \in S : Received(r, e) \in ReaderWith(S)
      /\ queue = [queue EXCEPT ![c] = queue[c]]
  BY ReaderTyped
<1>2. /\ queue[c] \in Seq(S \cup {Sentinel}) /\ Len(queue[c]) \in Nat
      /\ Len(queue[c]) <= QueueSize /\ QueueSize \in Nat
      /\ c \in listeners => queue[c] \in Seq(S)
  BY <1>1, QueueTyped
<1>3. UNCHANGED <<open, ring>>
  BY DEF Read
<1>4. CASE /\ r.todo # <<>>
           /\ SetReader(c, Received([r EXCEPT !.todo = Tail(@)], Head(r.todo)))
           /\ UNCHANGED <<queue, listeners>>
  <2>1. r.todo \in Seq(S)
    BY <1>1 DEF ReaderWith
  <2>2. Head(r.todo) \in S /\ Tail(r.todo) \in Seq(S)
    BY <1>4, <2>1, HeadTailProperties
  <2>3. Received([r EXCEPT !.todo = Tail(@)], Head(r.todo)) \in ReaderWith(S)
    BY <1>1, <2>2 DEF Received, ReaderWith
  <2>4. queue' = [queue EXCEPT ![c] = queue[c]] /\ listeners' = listeners
    BY <1>1, <1>4
  <2> QED
    BY <1>2, <1>3, <1>4, <2>3, <2>4, ClientKeeps
<1>5. CASE SetReader(c, Left(r)) /\ UNCHANGED <<queue, listeners>>
  <2>1. queue' = [queue EXCEPT ![c] = queue[c]] /\ listeners' = listeners
    BY <1>1, <1>5
  <2> QED
    BY <1>1, <1>2, <1>3, <1>5, <2>1, ClientKeeps
<1>6. CASE /\ queue[c] # <<>>
           /\ IF Head(queue[c]) = Sentinel
              THEN SetReader(c, Left(r)) /\ listeners' = listeners \ {c}
              ELSE SetReader(c, Received(r, Head(queue[c]))) /\ UNCHANGED listeners
           /\ queue' = [queue EXCEPT ![c] = Tail(queue[c])]
  <2>1. /\ Head(queue[c]) \in S \cup {Sentinel} /\ Tail(queue[c]) \in Seq(S \cup {Sentinel})
        /\ Len(Tail(queue[c])) = Len(queue[c]) - 1
    BY <1>2, <1>6, HeadTailProperties
  <2>2. Len(Tail(queue[c])) <= QueueSize
    BY <1>2, <2>1
  <2>3. c \in listeners => Tail(queue[c]) \in Seq(S)
    BY <1>2, <1>6, HeadTailProperties
  <2>4. PICK q \in Seq(S \cup {Sentinel}) : q = Tail(queue[c])
    BY <2>1
  <2>5. /\ queue' = [queue EXCEPT ![c] = q] /\ Len(q) <= QueueSize /\ listeners' \subseteq listeners \cup {c}
        /\ c \in listeners' => q \in Seq(S)
    BY <1>6, <2>2, <2>3, <2>4
  <2>6. CASE Head(queue[c]) = Sentinel
    <3>1. SetReader(c, Left(r)) /\ Left(r) \in ReaderWith(S)
      BY <1>1, <1>6, <2>6
    <3> QED
      BY <1>3, <2>5, <3>1, ClientKeeps
  <2>7. CASE Head(queue[c]) # Sentinel
    <3>1. SetReader(c, Received(r, Head(queue[c]))) /\ Received(r, Head(queue[c])) \in ReaderWith(S)
      BY <1>1, <1>6, <2>1, <2>7
    <3> QED
      BY <1>3, <2>5, <3>1, ClientKeeps
  <2> QED
    BY <2>6, <2>7
<1> QED
  BY <1>4, <1>5, <1>6 DEF Read

LEMMA FanOutKept ==
    ASSUME RowOK, WorkOK, StoreOK, FanOutOK, Next, Told \subseteq Told', WorkOK', StoreOK'
    PROVE  FanOutOK'
<1>1. PICK S : S = Told'
  OBVIOUS
<1>2. FanOut(S) /\ S \subseteq AnyEvent
  <2>1. Told \subseteq S /\ S \subseteq AnyEvent
    BY <1>1 DEF Told
  <2> QED
    BY <2>1, Widened DEF FanOutOK
<1>3. SUFFICES FanOut(S)'
  BY <1>1 DEF FanOutOK, FanOut, BrokerWith, ReaderWith
<1>4. Events \subseteq S
  BY <1>1, EventsAreTold
<1>5. ASSUME UNCHANGED <<open, ring, listeners, queue, reader>> PROVE FanOut(S)'
  BY <1>2, <1>5 DEF FanOut, BrokerWith, ReaderWith
<1>6. CASE Emit
  <2>1. made + 1 \in Events /\ Publish(made + 1)
    BY <1>6, EventNumbers DEF Emit, WorkOK, Events
  <2>2. made + 1 \in S
    BY <1>4, <2>1
  <2> QED
    BY <1>2, <2>1, <2>2, Published
<1>7. CASE AnnounceCut
  <2>1. Cut \in S /\ Publish(Cut)
    BY <1>1, <1>7, EventNumbers DEF AnnounceCut, Told, WorkOK, Early
  <2> QED
    BY <1>2, <2>1, Published
<1>8. CASE AnnounceEnd
  <2>1. /\ phase' = "wrap" /\ row' = row /\ row.status \in {"completed", "canceled"}
        /\ Publish(EndOf(row.status))
    BY <1>8 DEF AnnounceEnd, WorkOK
  <2>2. EndOf(row.status) \in S
    BY <1>1, <2>1, EventNumbers DEF EndOf, Told, Early
  <2> QED
    BY <1>2, <2>1, <2>2, Published
<1>9. CASE WrapUp \/ ForceClose
  <2>1. CloseBroker
    BY <1>9 DEF WrapUp, ForceClose
  <2> QED
    BY <1>2, <2>1, Closed
<1>10. CASE Crash
  <2>1. /\ open' = FALSE /\ ring' = <<>> /\ listeners' = {} /\ queue' = [c \in Clients |-> <<>>]
        /\ reader' = [c \in Clients |-> [reader[c] EXCEPT !.mode = "away", !.todo = <<>>]]
    BY <1>10 DEF Crash
  <2>2. <<>> \in Seq(S) /\ <<>> \in Seq(S \cup {Sentinel}) /\ Len(<<>>) = 0
    BY EmptySeq
  <2>3. BrokerWith(S)'
    <3>1. Len(<<>>) <= RingSize /\ Len(<<>>) <= QueueSize
      BY <2>2, StreamAssumption
    <3>2. queue' \in [Clients -> Seq(S \cup {Sentinel})] /\ \A c \in Clients : queue'[c] = <<>>
      BY <2>1, <2>2
    <3> QED
      BY <2>1, <2>2, <3>1, <3>2 DEF BrokerWith
  <2>4. \A c \in Clients : [reader[c] EXCEPT !.mode = "away", !.todo = <<>>] \in ReaderWith(S)
    BY <1>2, <2>2 DEF FanOut, ReaderWith
  <2>5. (reader \in [Clients -> ReaderWith(S)])'
    BY <2>1, <2>4 DEF ReaderWith
  <2> QED
    BY <2>3, <2>5 DEF FanOut
<1>11. CASE \/ FlushChunk \/ Exhaust \/ CancelExecutor \/ CloseDelivery \/ CancelClose \/ CommitOutcome
            \/ Abort \/ Stop \/ Age \/ SweepStale \/ \E c \in Clients : AttachStale(c)
  <2>1. UNCHANGED <<open, ring, listeners, queue, reader>>
    BY <1>11 DEF FlushChunk, Exhaust, HoldTerminal, CancelExecutor, CloseDelivery, CancelClose, CommitOutcome,
                 Abort, Stop, Age, SweepStale, AttachStale, broker
  <2> QED
    BY <1>5, <2>1
<1>12. ASSUME NEW c \in Clients, AttachLive(c) \/ AttachReplay(c) \/ Disconnect(c)
       PROVE  FanOut(S)'
  <2>1. /\ BrokerWith(S) /\ reader[c] \in ReaderWith(S) /\ Left(reader[c]) \in ReaderWith(S)
        /\ queue = [queue EXCEPT ![c] = queue[c]]
    BY <1>2, ReaderTyped
  <2>2. /\ queue[c] \in Seq(S \cup {Sentinel}) /\ Len(queue[c]) <= QueueSize
        /\ c \in listeners => queue[c] \in Seq(S)
    BY <2>1, QueueTyped
  <2>3. CASE AttachLive(c)
    <3>1. /\ SetReader(c, [reader[c] EXCEPT !.mode = "opening"])
          /\ UNCHANGED <<open, ring>> /\ listeners' = listeners
          /\ queue' = [queue EXCEPT ![c] = queue[c]]
      BY <2>1, <2>3 DEF AttachLive, broker
    <3>2. [reader[c] EXCEPT !.mode = "opening"] \in ReaderWith(S)
      BY <2>1 DEF ReaderWith
    <3> QED
      BY <1>2, <2>2, <3>1, <3>2, ClientKeeps
  <2>4. CASE AttachReplay(c)
    <3> DEFINE r == [reader[c] EXCEPT !.mode = "drain", !.todo = SliceAfter(trace, reader[c].cursor)]
    <3>1. /\ SetReader(c, r)
          /\ UNCHANGED <<open, ring>> /\ listeners' = listeners
          /\ queue' = [queue EXCEPT ![c] = queue[c]]
      BY <2>1, <2>4 DEF AttachReplay, broker
    <3>2. trace \in Seq(S)
      <4>1. trace' = trace
        BY <2>4 DEF AttachReplay, store
      <4> QED
        BY <1>1, <4>1 DEF StoreOK
    <3>3. SliceAfter(trace, reader[c].cursor) \in Seq(S)
      BY <3>2, SliceTyped
    <3>4. r \in ReaderWith(S)
      BY <2>1, <3>3 DEF ReaderWith
    <3> HIDE DEF r
    <3> QED
      BY <1>2, <2>2, <3>1, <3>4, ClientKeeps
  <2>5. CASE Disconnect(c)
    <3>1. /\ SetReader(c, Left(reader[c])) /\ UNCHANGED <<open, ring>>
          /\ listeners' = listeners \ {c} /\ queue' = [queue EXCEPT ![c] = <<>>]
      BY <2>5 DEF Disconnect
    <3>2. <<>> \in Seq(S \cup {Sentinel}) /\ <<>> \in Seq(S) /\ Len(<<>>) <= QueueSize
      BY EmptySeq, StreamAssumption
    <3> QED
      BY <1>2, <2>1, <3>1, <3>2, ClientKeeps
  <2> QED
    BY <1>12, <2>3, <2>4, <2>5
<1>13. ASSUME NEW c \in Clients, Subscribe(c) \/ Read(c)
       PROVE  FanOut(S)'
  BY <1>2, <1>13, Subscribed, ReadTyped
<1> QED
  BY <1>6, <1>7, <1>8, <1>9, <1>10, <1>11, <1>12, <1>13 DEF Next, WorkerStep, Attach

----------------------------------------------------------------------------
(* The invariant                                                           *)

LEMMA InitInv == Init => IInv
<1> SUFFICES ASSUME Init PROVE IInv
  OBVIOUS
<1>1. RowOK
  BY FirstRow DEF Init, RowOK
<1>2. WorkOK
  BY <1>1, FirstRow, EventNumbers DEF Init, WorkOK, Phases
<1>3. <<>> \in Seq(Told) /\ <<>> \in Seq(Events) /\ <<>> \in Seq(Told \cup {Sentinel}) /\ Len(<<>>) = 0
  BY EmptySeq
<1>4. StoreOK
  BY <1>3 DEF Init, StoreOK
<1>5. OrderOK
  BY EmptyOrder DEF Init, OrderOK, Chain
<1>6. BrokerWith(Told)
  BY <1>3, StreamAssumption DEF Init, BrokerWith
<1>7. reader \in [Clients -> ReaderWith(Told)]
  BY <1>3 DEF Init, ReaderWith
<1> QED
  BY <1>1, <1>2, <1>4, <1>5, <1>6, <1>7 DEF IInv, FanOutOK, FanOut

LEMMA StepInv == IInv /\ [Next]_vars => IInv'
<1>1. ASSUME IInv, Next PROVE IInv'
  <2>1. RowOK' /\ WorkOK' /\ Told \subseteq Told'
    BY <1>1, TruthKept DEF IInv
  <2>2. StoreOK' /\ OrderOK'
    BY <1>1, <2>1, StoreKept DEF IInv
  <2>3. FanOutOK'
    BY <1>1, <2>1, <2>2, FanOutKept DEF IInv
  <2> QED
    BY <2>1, <2>2, <2>3 DEF IInv
<1>2. ASSUME IInv, UNCHANGED vars PROVE IInv'
  <2>1. Told' = Told
    BY <1>2 DEF vars, Told
  <2>2. RowOK' /\ WorkOK' /\ StoreOK' /\ OrderOK'
    BY <1>2, <2>1 DEF vars, IInv, RowOK, WorkOK, StoreOK, OrderOK, Chain, Increasing, Before, UpTo
  <2>3. FanOutOK'
    BY <1>2, <2>1 DEF vars, IInv, FanOutOK, FanOut, BrokerWith, ReaderWith
  <2> QED
    BY <2>2, <2>3 DEF IInv
<1> QED
  BY <1>1, <1>2

LEMMA TypesFollow == IInv => TypeOK
<1> SUFFICES ASSUME IInv PROVE TypeOK
  OBVIOUS
<1>1. FanOut(AnyEvent)
  BY Widened, EventsAreTold DEF IInv, FanOutOK
<1>2. trace \in Seq(AnyEvent)
  BY EventsAreTold, SeqMonotonic DEF IInv, StoreOK
<1>3. reader \in [Clients -> Reader]
  BY <1>1 DEF FanOut, ReaderWith, Reader
<1> QED
  BY <1>1, <1>2, <1>3 DEF IInv, RowOK, WorkOK, StoreOK, FanOut, BrokerWith, TypeOK

LEMMA TruthFollows == IInv => EndIsTheTruth
<1> SUFFICES ASSUME IInv, NEW c \in Clients PROVE reader[c].got \subseteq Told
  BY DEF EndIsTheTruth, Told
<1> QED
  BY DEF IInv, FanOutOK, FanOut, ReaderWith

LEMMA OrderFollows == IInv => TraceIsOrdered
<1> SUFFICES ASSUME IInv PROVE TraceIsOrdered
  OBVIOUS
<1>1. Increasing(trace)
  BY DEF IInv, OrderOK, Chain
<1>2. ASSUME NEW i \in 1..Len(trace), trace[i] \in Ends, i # Len(trace) PROVE FALSE
  <2>1. Len(trace) \in Nat /\ trace[i] \in Told /\ trace[Len(trace)] \in Told
    BY LenProperties, ElementOfSeq DEF IInv, StoreOK
  <2>2. trace[i] < trace[Len(trace)]
    BY <1>1, <1>2, <2>1 DEF Increasing
  <2>3. PICK last \in AnyEvent : last = trace[Len(trace)] /\ trace[i] < last
    BY <2>1, <2>2, EventsAreTold
  <2>4. PICK end \in {Done, Cut} : end = trace[i] /\ end < last
    BY <1>2, <2>3 DEF Ends
  <2>5. end = Done /\ last = Cut
    BY <2>4, EventNumbers
  <2> QED
    BY <2>1, <2>3, <2>4, <2>5, EventNumbers DEF Told
<1> QED
  BY <1>1, <1>2 DEF TraceIsOrdered, Increasing

LEMMA Invariance == Spec => []IInv
BY InitInv, StepInv, PTL DEF Spec

(* The stream keeps its types, whatever fails: the ring and the queues     *)
(* never exceed their sizes, and hold nothing but events.                  *)
THEOREM TypeCorrect == Spec => []TypeOK
BY Invariance, TypesFollow, PTL

(* No client is ever told of an end that the run's row contradicts,        *)
(* however stops, stale sweeps, failed writes and crashes fall between the *)
(* commit and the announcement.                                            *)
THEOREM EndIsTrue == Spec => []EndIsTheTruth
BY Invariance, TruthFollows, PTL

(* The stored trace stays in the order of emission, without duplicates,    *)
(* and ends with the terminal event.                                       *)
THEOREM TraceStaysOrdered == Spec => []TraceIsOrdered
BY Invariance, OrderFollows, PTL

----------------------------------------------------------------------------
(* What a sequence holds                                                   *)

LEMMA Held ==
    ASSUME NEW S, NEW s \in Seq(S), NEW x
    PROVE  /\ ~Contains(<<>>, x)
           /\ Contains(s, x) => x \in S
           /\ s # <<>> => (Contains(s, x) <=> x = Head(s) \/ Contains(Tail(s), x))
<1>1. Len(s) \in Nat /\ (\A i \in 1..Len(s) : s[i] \in S) /\ Len(<<>>) = 0
  BY LenProperties, ElementOfSeq, EmptySeq
<1>2. ASSUME s # <<>> PROVE Contains(s, x) <=> x = Head(s) \/ Contains(Tail(s), x)
  <2>1. /\ Head(s) = s[1] /\ Len(Tail(s)) = Len(s) - 1 /\ Len(s) >= 1
        /\ \A i \in 1..Len(Tail(s)) : Tail(s)[i] = s[i + 1]
    BY <1>1, <1>2, HeadTailProperties, EmptySeq
  <2>2. ASSUME Contains(s, x), x # Head(s) PROVE Contains(Tail(s), x)
    <3>1. PICK i \in 1..Len(s) : s[i] = x
      BY <2>2 DEF Contains
    <3>2. i - 1 \in 1..Len(Tail(s)) /\ Tail(s)[i - 1] = x
      BY <1>1, <2>1, <2>2, <3>1
    <3> QED
      BY <3>2 DEF Contains
  <2>3. ASSUME Contains(Tail(s), x) PROVE Contains(s, x)
    <3>1. PICK i \in 1..Len(Tail(s)) : Tail(s)[i] = x
      BY <2>3 DEF Contains
    <3>2. i + 1 \in 1..Len(s) /\ s[i + 1] = x
      BY <1>1, <2>1, <3>1
    <3> QED
      BY <3>2 DEF Contains
  <2>4. x = Head(s) => Contains(s, x)
    BY <1>1, <2>1 DEF Contains
  <2> QED
    BY <2>2, <2>3, <2>4
<1> QED
  BY <1>1, <1>2 DEF Contains

LEMMA HeldAfter ==
    ASSUME NEW S, NEW s \in Seq(S), NEW x
    PROVE  /\ \A e : e \in S => (Contains(Append(s, e), x) <=> Contains(s, x) \/ x = e)
           /\ \A t \in Seq(S) : Contains(s \o t, x) <=> Contains(s, x) \/ Contains(t, x)
<1>1. Len(s) \in Nat
  BY LenProperties
<1>2. ASSUME NEW e \in S PROVE Contains(Append(s, e), x) <=> Contains(s, x) \/ x = e
  <2>1. /\ Len(Append(s, e)) = Len(s) + 1 /\ Append(s, e)[Len(s) + 1] = e
        /\ \A i \in 1..Len(s) : Append(s, e)[i] = s[i]
    BY AppendProperties
  <2>2. ASSUME Contains(Append(s, e), x), x # e PROVE Contains(s, x)
    <3>1. PICK i \in 1..Len(Append(s, e)) : Append(s, e)[i] = x
      BY <2>2 DEF Contains
    <3>2. i \in 1..Len(s) /\ s[i] = x
      BY <1>1, <2>1, <2>2, <3>1
    <3> QED
      BY <3>2 DEF Contains
  <2>3. ASSUME Contains(s, x) PROVE Contains(Append(s, e), x)
    <3>1. PICK i \in 1..Len(s) : s[i] = x
      BY <2>3 DEF Contains
    <3>2. i \in 1..Len(Append(s, e)) /\ Append(s, e)[i] = x
      BY <1>1, <2>1, <3>1
    <3> QED
      BY <3>2 DEF Contains
  <2>4. Len(s) + 1 \in 1..Len(Append(s, e))
    BY <1>1, <2>1
  <2>5. x = e => Contains(Append(s, e), x)
    BY <2>1, <2>4 DEF Contains
  <2> QED
    BY <2>2, <2>3, <2>5
<1>3. ASSUME NEW t \in Seq(S) PROVE Contains(s \o t, x) <=> Contains(s, x) \/ Contains(t, x)
  <2>1. /\ Len(t) \in Nat /\ Len(s \o t) = Len(s) + Len(t)
        /\ \A i \in 1..Len(s \o t) : (s \o t)[i] = IF i <= Len(s) THEN s[i] ELSE t[i - Len(s)]
    BY LenProperties, ConcatProperties
  <2>2. ASSUME Contains(s \o t, x) PROVE Contains(s, x) \/ Contains(t, x)
    <3>1. PICK i \in 1..Len(s \o t) : (s \o t)[i] = x
      BY <2>2 DEF Contains
    <3>2. \/ i \in 1..Len(s) /\ s[i] = x
          \/ i - Len(s) \in 1..Len(t) /\ t[i - Len(s)] = x
      BY <1>1, <2>1, <3>1
    <3> QED
      BY <3>2 DEF Contains
  <2>3. ASSUME Contains(s, x) PROVE Contains(s \o t, x)
    <3>1. PICK i \in 1..Len(s) : s[i] = x
      BY <2>3 DEF Contains
    <3>2. i \in 1..Len(s \o t) /\ (s \o t)[i] = x
      BY <1>1, <2>1, <3>1
    <3> QED
      BY <3>2 DEF Contains
  <2>4. ASSUME Contains(t, x) PROVE Contains(s \o t, x)
    <3>1. PICK i \in 1..Len(t) : t[i] = x
      BY <2>4 DEF Contains
    <3>2. i + Len(s) \in 1..Len(s \o t) /\ (s \o t)[i + Len(s)] = x
      BY <1>1, <2>1, <3>1
    <3> QED
      BY <3>2 DEF Contains
  <2> QED
    BY <2>2, <2>3, <2>4
<1> QED
  BY <1>2, <1>3

\* the events of a sequence that may hold sentinels are in order
Rising(s) == \A i, j \in 1..Len(s) : i < j /\ s[i] # Sentinel /\ s[j] # Sentinel => s[i] < s[j]

LEMMA RisingEnds ==
    ASSUME NEW s \in Seq(Nat), Rising(s)
    PROVE  /\ Rising(Append(s, Sentinel))
           /\ s # <<>> => /\ Rising(Tail(s))
                          /\ \A x : Contains(Tail(s), x) /\ x # Sentinel /\ Head(s) # Sentinel
                                       => Head(s) < x
           /\ \A e \in Nat : (\A x : Contains(s, x) /\ x # Sentinel => x < e) => Rising(Append(s, e))
<1>1. Len(s) \in Nat /\ (\A i \in 1..Len(s) : s[i] \in Nat)
  BY LenProperties, ElementOfSeq
<1>2. ASSUME NEW e \in Nat, e = Sentinel \/ \A x : Contains(s, x) /\ x # Sentinel => x < e
      PROVE  Rising(Append(s, e))
  <2>1. /\ Len(Append(s, e)) = Len(s) + 1 /\ Append(s, e)[Len(s) + 1] = e
        /\ \A i \in 1..Len(s) : Append(s, e)[i] = s[i]
    BY AppendProperties
  <2>2. \A i \in 1..Len(s) : e # Sentinel /\ s[i] # Sentinel => s[i] < e
    BY <1>2 DEF Contains
  <2> SUFFICES ASSUME NEW i \in 1..Len(s) + 1, NEW j \in 1..Len(s) + 1, i < j,
                      Append(s, e)[i] # Sentinel, Append(s, e)[j] # Sentinel
               PROVE  Append(s, e)[i] < Append(s, e)[j]
    BY <2>1 DEF Rising
  <2>3. i \in 1..Len(s) /\ Append(s, e)[i] = s[i]
    BY <1>1, <2>1
  <2>4. CASE j \in 1..Len(s)
    BY <2>1, <2>3, <2>4 DEF Rising
  <2>5. CASE j = Len(s) + 1
    BY <2>1, <2>2, <2>3, <2>5
  <2> QED
    BY <1>1, <2>4, <2>5
<1>3. ASSUME s # <<>>
      PROVE  /\ Rising(Tail(s))
             /\ \A x : Contains(Tail(s), x) /\ x # Sentinel /\ Head(s) # Sentinel => Head(s) < x
  <2>1. /\ Head(s) = s[1] /\ Len(Tail(s)) = Len(s) - 1 /\ Len(s) >= 1
        /\ \A i \in 1..Len(Tail(s)) : Tail(s)[i] = s[i + 1]
    BY <1>1, <1>3, HeadTailProperties, EmptySeq
  <2>2. \A i \in 1..Len(Tail(s)) : i + 1 \in 1..Len(s) /\ i \in Int
    BY <1>1, <2>1
  <2>3. Rising(Tail(s))
    <3> SUFFICES ASSUME NEW i \in 1..Len(Tail(s)), NEW j \in 1..Len(Tail(s)), i < j,
                        Tail(s)[i] # Sentinel, Tail(s)[j] # Sentinel
                 PROVE  Tail(s)[i] < Tail(s)[j]
      BY DEF Rising
    <3>1. i + 1 \in 1..Len(s) /\ j + 1 \in 1..Len(s) /\ i + 1 < j + 1
      BY <2>2
    <3> QED
      BY <2>1, <3>1 DEF Rising
  <2>4. ASSUME NEW x, Contains(Tail(s), x), x # Sentinel, Head(s) # Sentinel PROVE Head(s) < x
    <3>1. PICK i \in 1..Len(Tail(s)) : Tail(s)[i] = x
      BY <2>4 DEF Contains
    <3>2. 1 \in 1..Len(s) /\ i + 1 \in 1..Len(s) /\ 1 < i + 1 /\ s[i + 1] = x
      BY <1>1, <2>1, <2>2, <3>1
    <3> QED
      BY <2>1, <2>4, <3>2 DEF Rising
  <2> QED
    BY <2>3, <2>4
<1>4. Rising(Append(s, Sentinel))
  BY <1>2 DEF Sentinel
<1> QED
  BY <1>2, <1>3, <1>4

\* the slice behind a cursor that is there: everything above the cursor
LEMMA SliceHolds ==
    ASSUME NEW s \in Seq(AnyEvent), Rising(s), NEW cursor \in AnyEvent \cup {NoCursor}
    PROVE  /\ Rising(SliceAfter(s, cursor))
           /\ \A x : Contains(SliceAfter(s, cursor), x)
                       <=> Contains(s, x) /\ (cursor # NoCursor => Contains(s, cursor) /\ cursor < x)
<1>0. Len(s) \in Nat /\ (\A i \in 1..Len(s) : s[i] \in AnyEvent /\ s[i] \in Nat /\ s[i] # Sentinel)
  BY LenProperties, ElementOfSeq, EventNumbers
<1>1. CASE cursor = NoCursor
  BY <1>1 DEF SliceAfter
<1>2. CASE cursor # NoCursor /\ ~Contains(s, cursor)
  <2>1. SliceAfter(s, cursor) = <<>> /\ Len(<<>>) = 0
    BY <1>2, EmptySeq DEF SliceAfter
  <2> QED
    BY <1>2, <2>1 DEF Rising, Contains
<1>3. CASE cursor # NoCursor /\ Contains(s, cursor)
  <2>1. PICK at \in 1..Len(s) : at = (CHOOSE i \in 1..Len(s) : s[i] = cursor) /\ s[at] = cursor
    BY <1>3 DEF Contains
  <2> DEFINE t == SubSeq(s, 1 + at, Len(s))
  <2>2. SliceAfter(s, cursor) = t
    BY <1>3, <2>1 DEF SliceAfter
  <2>3. \A i \in (1 + at)..Len(s) : s[i] \in AnyEvent
    BY <1>0, <2>1
  <2>4. 1 + at \in Int /\ Len(s) \in Int
    BY <1>0, <2>1
  <2>5. /\ Len(t) = IF 1 + at <= Len(s) THEN Len(s) - (1 + at) + 1 ELSE 0
        /\ \A i \in 1..Len(s) - (1 + at) + 1 : t[i] = s[(1 + at) + i - 1]
    BY <2>3, <2>4, SubSeqProperties
  <2>6. Len(t) = Len(s) - at /\ \A i \in 1..Len(t) : t[i] = s[at + i] /\ at + i \in 1..Len(s)
    <3> HIDE DEF t
    <3>1. at \in Nat /\ at >= 1 /\ at <= Len(s)
      BY <1>0, <2>1
    <3>0. Len(s) - (1 + at) + 1 = Len(s) - at
      BY <1>0, <2>1
    <3>2. Len(t) = Len(s) - at
      <4>1. CASE 1 + at <= Len(s)
        BY <2>5, <3>0, <4>1
      <4>2. CASE ~(1 + at <= Len(s))
        <5>1. Len(s) - at = 0
          BY <1>0, <3>1, <4>2
        <5> QED
          BY <2>5, <4>2, <5>1
      <4> QED
        BY <4>1, <4>2
    <3> SUFFICES ASSUME NEW i \in 1..Len(t) PROVE t[i] = s[at + i] /\ at + i \in 1..Len(s)
      BY <3>2
    <3>3. t[i] = s[(1 + at) + i - 1]
      BY <2>5, <3>0, <3>2
    <3>4. (1 + at) + i - 1 = at + i /\ at + i \in 1..Len(s)
      BY <1>0, <3>1, <3>2
    <3> QED
      BY <3>3, <3>4
  <2> HIDE DEF t
  <2>7. Rising(t)
    <3> SUFFICES ASSUME NEW i \in 1..Len(t), NEW j \in 1..Len(t), i < j PROVE t[i] < t[j]
      BY DEF Rising
    <3>1. at + i < at + j
      BY <2>1, <2>6
    <3> QED
      BY <1>0, <2>6, <3>1 DEF Rising
  <2>8. ASSUME NEW x, Contains(t, x) PROVE Contains(s, x) /\ cursor < x
    <3>1. PICK i \in 1..Len(t) : t[i] = x
      BY <2>8 DEF Contains
    <3>2. at + i \in 1..Len(s) /\ s[at + i] = x /\ at < at + i
      BY <2>1, <2>6, <3>1
    <3> QED
      BY <1>0, <2>1, <3>2 DEF Rising, Contains
  <2>9. ASSUME NEW x, Contains(s, x), cursor < x PROVE Contains(t, x)
    <3>1. PICK i \in 1..Len(s) : s[i] = x
      BY <2>9 DEF Contains
    <3>2. ~(i < at) /\ i # at
      <4>1. i < at => s[i] < s[at]
        BY <1>0, <2>1 DEF Rising
      <4>2. s[i] \in Nat /\ s[at] \in Nat /\ ~(s[i] < s[at]) /\ s[i] # s[at]
        BY <1>0, <2>1, <2>9, <3>1
      <4> QED
        BY <4>1, <4>2
    <3>3. i - at \in 1..Len(t) /\ t[i - at] = x
      <4>1. at < i
        BY <2>1, <3>1, <3>2
      <4>2. Len(t) = Len(s) - at
        BY <2>6
      <4>3. i - at \in 1..Len(t) /\ at + (i - at) = i
        BY <1>0, <2>1, <3>1, <4>1, <4>2
      <4> QED
        BY <2>6, <3>1, <4>3
    <3> QED
      BY <3>3 DEF Contains
  <2> QED
    BY <1>3, <2>2, <2>7, <2>8, <2>9
<1> QED
  BY <1>1, <1>2, <1>3

----------------------------------------------------------------------------
(* What a client has, or is sure to be sent if its response lasts, and why *)
(* it may miss the rest                                                    *)

Buffered == {e \in AnyEvent : Contains(ring, e)}
Todo(c) == {e \in AnyEvent : Contains(reader[c].todo, e)}
Waiting(c) == {e \in AnyEvent : reader[c].mode = "live" /\ Contains(queue[c], e)}
Has(c) == reader[c].got \cup Todo(c) \cup Waiting(c)
Excused(c) == reader[c].told \cup reader[c].shed \cup Lost

\* the phases in which the broker has no terminal event yet
Fresh == Early \cup {"announce"}

\* what is received, then the snapshot, then the queue
InOrder(c) ==
    /\ \A g \in reader[c].got : g <= reader[c].cursor
    /\ reader[c].cursor \in reader[c].got \cup {NoCursor}
    /\ \A t \in Todo(c) : reader[c].cursor < t
    /\ \A w \in Waiting(c) : reader[c].cursor < w /\ \A t \in Todo(c) : t < w
    /\ Rising(reader[c].todo)
    /\ reader[c].mode = "live" => Rising(queue[c])
    /\ reader[c].mode \in {"away", "opening"} => reader[c].todo = <<>>

\* nothing that was emitted is left out between two events it has
Gapless(c) == \A x \in 1..made, f, g \in Has(c) : f < x /\ x < g => x \in Has(c) \cup Excused(c)

\* a listener has everything from its first event on
Following(c) ==
    c \in listeners => /\ open /\ reader[c].mode = "live"
                       /\ \A x \in 1..made, f \in Has(c) : f < x => x \in Has(c) \cup Excused(c)

\* a client has nothing the ring is not up to
Behind(c) ==
    /\ Has(c) \cap Events \subseteq 1..made
    /\ open => reader[c].mode # "drain"
    /\ open \/ reader[c].mode = "opening" => \A e \in Has(c) : \E last \in Buffered : e <= last
    /\ open /\ phase \in Fresh => Has(c) \subseteq Events

ClientOK(c) == InOrder(c) /\ Gapless(c) /\ Following(c) /\ Behind(c)

\* the ring is a stretch of the stream, up to the last event while the broker is open
RingOK ==
    /\ Rising(ring) /\ Buffered \cap Events \subseteq 1..made
    /\ \A x \in 1..made, f \in Buffered :
          f < x /\ (open \/ \E g \in Buffered : x < g) => x \in Buffered
    /\ open /\ phase \in Fresh => Buffered \subseteq Events

HInv == RingOK /\ \A c \in Clients : ClientOK(c)

LEMMA Numbers ==
    ASSUME IInv
    PROVE  /\ made \in Nat /\ 1..made \subseteq Events
           /\ \A e \in AnyEvent : e \in Nat /\ e >= 1 /\ (e \in Events \/ e = Done \/ e = Cut)
           /\ \A e \in Events : e \in AnyEvent /\ e < Done /\ e < Cut
           /\ Done \in AnyEvent /\ Cut \in AnyEvent /\ Done < Cut
           /\ Done \notin Events /\ Cut \notin Events
BY EventNumbers DEF IInv, WorkOK, Events, AnyEvent, Ends

LEMMA Views ==
    ASSUME IInv, NEW c \in Clients
    PROVE  /\ reader[c].got \subseteq Told /\ reader[c].cursor \in Told \cup {NoCursor}
           /\ reader[c].todo \in Seq(Told) /\ ring \in Seq(Told) /\ trace \in Seq(Told)
           /\ queue[c] \in Seq(Told \cup {Sentinel})
           /\ Todo(c) \subseteq Told /\ Waiting(c) \subseteq Told /\ Has(c) \subseteq Told
           /\ reader[c].mode \in {"away", "opening", "live", "drain"}
           /\ Told \subseteq AnyEvent
<1>1. /\ reader[c] \in ReaderWith(Told) /\ ring \in Seq(Told) /\ trace \in Seq(Told)
      /\ queue[c] \in Seq(Told \cup {Sentinel})
  BY DEF IInv, FanOutOK, FanOut, BrokerWith, StoreOK
<1>2. /\ reader[c].got \subseteq Told /\ reader[c].cursor \in Told \cup {NoCursor}
      /\ reader[c].todo \in Seq(Told) /\ reader[c].mode \in {"away", "opening", "live", "drain"}
  BY <1>1 DEF ReaderWith
<1>3. Todo(c) \subseteq Told
  BY <1>2, Held DEF Todo
<1>4. Waiting(c) \subseteq Told
  <2>1. \A e : Contains(queue[c], e) => e \in Told \cup {Sentinel}
    BY <1>1, Held
  <2> QED
    BY <2>1, EventNumbers DEF Waiting
<1> QED
  BY <1>1, <1>2, <1>3, <1>4, EventsAreTold DEF Has

LEMMA RingNumbers ==
    ASSUME IInv
    PROVE  ring \in Seq(Told) /\ Buffered \subseteq Told /\ Told \subseteq AnyEvent
           /\ \A e : e \in Buffered <=> Contains(ring, e)
<1>1. ring \in Seq(Told) /\ Told \subseteq AnyEvent
  BY EventsAreTold DEF IInv, FanOutOK, FanOut, BrokerWith
<1>2. \A e : Contains(ring, e) => e \in Told
  BY <1>1, Held
<1> QED
  BY <1>1, <1>2 DEF Buffered

LEMMA EarlyEvents == phase \in Early => Told \subseteq Events
BY EventNumbers DEF Told, Ends

----------------------------------------------------------------------------
(* What the trace has lost stays lost                                      *)

Stored(x) == Contains(trace, x) \/ Contains(unflushed, x) \/ Contains(flushing, x)

LEMMA LostMeans == Lost = {e \in 1..made : ~Stored(e)}
BY DEF Lost, Stored

\* a step stores at most the event it emits and a terminal event
LEMMA NothingFound ==
    ASSUME IInv, Next, IInv'
    PROVE  made \in Nat /\ made' \in Nat /\ made <= made' /\ \A x \in 1..made : Stored(x)' => Stored(x)
<1> SUFFICES ASSUME NEW x \in 1..made PROVE made <= made' /\ (Stored(x)' => Stored(x))
  BY EventNumbers DEF IInv, WorkOK
<1>1. made \in Nat /\ x \in Events /\ x # Done /\ x # Cut /\ x # made + 1
  BY Numbers
<1>2. trace \in Seq(AnyEvent) /\ unflushed \in Seq(AnyEvent) /\ flushing \in Seq(AnyEvent)
  <2>1. Events \subseteq AnyEvent
    BY EventNumbers
  <2>2. trace \in Seq(Told) /\ unflushed \in Seq(Events) /\ flushing \in Seq(Events)
    BY DEF IInv, StoreOK
  <2> QED
    BY <2>1, <2>2, EventsAreTold, SeqMonotonic
<1>3. ~Contains(<<>>, x)
  BY <1>2, Held
<1> DEFINE later == Stored(x)'
<1>4. later <=> Contains(trace', x) \/ Contains(unflushed', x) \/ Contains(flushing', x)
  BY DEF Stored, Contains
<1> HIDE DEF later
<1>5. SUFFICES made <= made' /\ (later => Stored(x))
  BY DEF later
<1>6. CASE Emit
  <2>1. /\ made < MaxEvents /\ made' = made + 1 /\ trace' = trace
        /\ \/ flushing = <<>> /\ flushing' = Append(unflushed, made + 1) /\ unflushed' = <<>>
           \/ unflushed' = Append(unflushed, made + 1) /\ flushing' = flushing
    BY <1>6 DEF Emit
  <2>2. made + 1 \in AnyEvent
    BY <1>1, <2>1, EventNumbers DEF Events
  <2>3. Contains(Append(unflushed, made + 1), x) => Contains(unflushed, x)
    BY <1>1, <1>2, <2>2, HeldAfter
  <2>4. ASSUME flushing = <<>>, flushing' = Append(unflushed, made + 1), unflushed' = <<>>
        PROVE  later => Stored(x)
    BY <1>3, <1>4, <2>1, <2>3, <2>4, Zenon DEF Stored
  <2>5. ASSUME unflushed' = Append(unflushed, made + 1), flushing' = flushing
        PROVE  later => Stored(x)
    BY <1>4, <2>1, <2>3, <2>5, Zenon DEF Stored
  <2>6. made <= made'
    BY <1>1, <2>1
  <2> QED
    BY <2>1, <2>4, <2>5, <2>6
<1>7. CASE FlushChunk
  <2>1. /\ made' = made /\ flushing' = <<>>
        /\ \/ trace' = trace \o flushing /\ unflushed' = unflushed
           \/ trace' = trace /\ unflushed' = flushing \o unflushed
    BY <1>7 DEF FlushChunk, Requeued, worker
  <2>2. /\ Contains(trace \o flushing, x) => Contains(trace, x) \/ Contains(flushing, x)
        /\ Contains(flushing \o unflushed, x) => Contains(flushing, x) \/ Contains(unflushed, x)
    BY <1>2, HeldAfter
  <2>3. later => Stored(x)
    BY <1>3, <1>4, <2>1, <2>2, Zenon DEF Stored
  <2>4. made <= made'
    BY <1>1, <2>1
  <2> QED
    BY <2>3, <2>4
<1>8. CASE CloseDelivery
  <2>1. made' = made /\ flushing' = flushing /\ unflushed' = <<>>
        /\ (trace' = trace \o unflushed \/ trace' = trace)
    BY <1>8 DEF CloseDelivery
  <2>2. Contains(trace \o unflushed, x) => Contains(trace, x) \/ Contains(unflushed, x)
    BY <1>2, HeldAfter
  <2>3. later => Stored(x)
    BY <1>3, <1>4, <2>1, <2>2, Zenon DEF Stored
  <2>4. made <= made'
    BY <1>1, <2>1
  <2> QED
    BY <2>3, <2>4
<1>14. CASE CancelClose
  <2>1. made' = made /\ flushing' = <<>> /\ unflushed' = <<>>
        /\ (trace' = trace \o unflushed \/ trace' = trace \o flushing \/ trace' = trace)
    BY <1>14 DEF CancelClose
  <2>2. /\ Contains(trace \o unflushed, x) => Contains(trace, x) \/ Contains(unflushed, x)
        /\ Contains(trace \o flushing, x) => Contains(trace, x) \/ Contains(flushing, x)
    BY <1>2, HeldAfter
  <2>3. later => Stored(x)
    BY <1>3, <1>4, <2>1, <2>2, Zenon DEF Stored
  <2>4. made <= made'
    BY <1>1, <2>1
  <2> QED
    BY <2>3, <2>4
<1>9. ASSUME NEW e \in {Done, Cut}, trace' \in {trace, Append(trace, e)},
             UNCHANGED <<made, unflushed, flushing>>
      PROVE  made <= made' /\ (later => Stored(x))
  <2>1. Contains(Append(trace, e), x) => Contains(trace, x)
    BY <1>1, <1>2, <1>9, HeldAfter, Numbers
  <2>2. later => Stored(x)
    BY <1>9, <1>4, <2>1, Zenon DEF Stored
  <2>3. made <= made'
    BY <1>1, <1>9
  <2> QED
    BY <2>2, <2>3
<1>10. CASE AnnounceCut
  <2>1. trace' \in {trace, Append(trace, Cut)} /\ UNCHANGED <<made, unflushed, flushing>>
    BY <1>10 DEF AnnounceCut
  <2> QED
    BY <1>9, <2>1
<1>11. CASE CommitOutcome
  <2>1. UNCHANGED <<made, unflushed, flushing>>
    BY <1>11 DEF CommitOutcome
  <2>2. PICK e \in {Done, Cut} : trace' = trace \/ trace' = TraceWith(e)
    BY <1>11, Commits DEF IInv
  <2>3. trace' \in {trace, Append(trace, e)}
    BY <2>2 DEF TraceWith
  <2> QED
    BY <1>9, <2>1, <2>3
<1>12. CASE Crash
  <2>1. UNCHANGED <<trace, made>> /\ unflushed' = <<>> /\ flushing' = <<>>
    BY <1>12 DEF Crash
  <2> QED
    BY <1>1, <1>3, <1>4, <2>1 DEF Stored
<1>13. CASE \/ Exhaust \/ CancelExecutor \/ AnnounceEnd \/ WrapUp \/ Abort
            \/ ForceClose \/ Stop \/ Age \/ SweepStale
            \/ \E c \in Clients : Attach(c) \/ Subscribe(c) \/ Read(c) \/ Disconnect(c)
  <2>1. UNCHANGED <<trace, unflushed, flushing, made>>
    BY <1>13 DEF Exhaust, CancelExecutor, AnnounceEnd, WrapUp, Abort, ForceClose, Stop, Age, SweepStale,
                 Attach, AttachLive, AttachStale, AttachReplay, Subscribe, Read, Disconnect, store, worker
  <2> QED
    BY <1>1, <1>4, <2>1 DEF Stored
<1> QED
  BY <1>6, <1>7, <1>8, <1>10, <1>11, <1>12, <1>13, <1>14 DEF Next, WorkerStep

LEMMA LostGrows == IInv /\ Next /\ IInv' => Lost \subseteq Lost'
<1> SUFFICES ASSUME IInv, Next, IInv', NEW x \in Lost PROVE x \in Lost'
  OBVIOUS
<1>1. Lost' = {e \in 1..made' : ~Stored(e)'}
  BY DEF Lost, Stored
<1> QED
  BY <1>1, NothingFound, LostMeans

\* no step leads back to a phase without a terminal event
LEMMA FreshEnds == IInv /\ Next /\ phase' \in Fresh => phase \in Fresh
<1> SUFFICES ASSUME Next, phase' \in Fresh PROVE phase \in Fresh
  OBVIOUS
<1>1. CASE WorkerStep \/ CancelClose \/ Abort \/ Crash
  BY <1>1 DEF WorkerStep, Emit, FlushChunk, Exhaust, CancelExecutor, CloseDelivery, CancelClose, AnnounceCut, CommitOutcome,
              AnnounceEnd, WrapUp, Abort, Crash, Fresh, Early, worker
<1>2. CASE \/ ForceClose \/ Stop \/ Age \/ SweepStale
           \/ \E c \in Clients : Attach(c) \/ Subscribe(c) \/ Read(c) \/ Disconnect(c)
  BY <1>2 DEF ForceClose, Stop, Age, SweepStale, Attach, AttachLive, AttachStale, AttachReplay, Subscribe,
              Read, Disconnect, worker
<1> QED
  BY <1>1, <1>2 DEF Next

----------------------------------------------------------------------------
(* One client's view, from one state to the next                           *)

LEMMA ViewNext ==
    ASSUME NEW c \in Clients
    PROVE  /\ Todo(c)' = {e \in AnyEvent : Contains(reader'[c].todo, e)}
           /\ Waiting(c)' = {e \in AnyEvent : reader'[c].mode = "live" /\ Contains(queue'[c], e)}
           /\ Has(c)' = reader'[c].got \cup Todo(c)' \cup Waiting(c)'
           /\ Excused(c)' = reader'[c].told \cup reader'[c].shed \cup Lost'
           /\ Buffered' = {e \in AnyEvent : Contains(ring', e)}
BY DEF Todo, Waiting, Has, Excused, Buffered, Contains

LEMMA RingNext == ring' = ring => Buffered' = Buffered
BY DEF Buffered, Contains

\* what it no longer has is excused, or lies above all it has
LEMMA GaplessKept ==
    ASSUME IInv, IInv', NEW c \in Clients, Gapless(c), made' = made, Has(c)' \subseteq Has(c),
           Excused(c) \subseteq Excused(c)',
           \A x \in Has(c) : x \in Has(c)' \/ x \in Excused(c)' \/ \A g \in Has(c)' : g < x
    PROVE  Gapless(c)'
<1> SUFFICES ASSUME NEW x \in 1..made, NEW f \in Has(c)', NEW g \in Has(c)', f < x, x < g
             PROVE  x \in Has(c)' \/ x \in Excused(c)'
  BY DEF Gapless
<1>1. x \in Has(c) \/ x \in Excused(c)
  BY DEF Gapless
<1>2. g \in Nat /\ x \in Nat
  BY Views, Numbers
<1>3. ~(\A h \in Has(c)' : h < x)
  BY <1>2
<1> QED
  BY <1>1, <1>3

LEMMA FollowingKept ==
    ASSUME NEW c \in Clients, Following(c), made' = made, Has(c)' \subseteq Has(c),
           Excused(c) \subseteq Excused(c)',
           c \in listeners' => /\ c \in listeners /\ open' /\ reader'[c].mode = "live"
                               /\ Has(c) \subseteq Has(c)' \cup Excused(c)'
    PROVE  Following(c)'
<1> SUFFICES ASSUME c \in listeners', NEW x \in 1..made, NEW f \in Has(c)', f < x
             PROVE  x \in Has(c)' \/ x \in Excused(c)'
  BY DEF Following
<1> QED
  BY DEF Following

LEMMA BehindKept ==
    ASSUME IInv, NEW c \in Clients, Behind(c), made' = made, Has(c)' \subseteq Has(c), ring' = ring,
           open' => open /\ reader'[c].mode # "drain",
           reader'[c].mode = "opening" => open \/ reader[c].mode = "opening",
           phase' \in Fresh => phase \in Fresh
    PROVE  Behind(c)'
<1>1. Buffered' = Buffered
  BY RingNext
<1>2. (Has(c)' \cap Events) \subseteq 1..made'
  BY DEF Behind
<1>3. open' \/ reader'[c].mode = "opening" => \A e \in Has(c)' : \E last \in Buffered' : e <= last
  BY <1>1 DEF Behind
<1>4. open' /\ phase' \in Fresh => Has(c)' \subseteq Events
  BY DEF Behind
<1> QED
  BY <1>2, <1>3, <1>4 DEF Behind

\* a client the step does not touch
LEMMA Untouched ==
    ASSUME IInv, IInv', Lost \subseteq Lost', NEW c \in Clients, ClientOK(c),
           reader'[c] = reader[c], queue'[c] = queue[c], ring' = ring, made' = made,
           open' => open, c \in listeners' => c \in listeners /\ open',
           phase' \in Fresh => phase \in Fresh
    PROVE  ClientOK(c)'
<1>1. Todo(c)' = Todo(c) /\ Waiting(c)' = Waiting(c)
  BY ViewNext DEF Todo, Waiting
<1>2. Has(c)' = Has(c)
  BY <1>1, ViewNext DEF Has
<1>3. Excused(c) \subseteq Excused(c)'
  BY ViewNext DEF Excused
<1>4. InOrder(c)'
  BY <1>1 DEF ClientOK, InOrder, Rising
<1>5. Gapless(c)'
  BY <1>2, <1>3, GaplessKept DEF ClientOK
<1>6. Following(c)'
  <2>1. c \in listeners' => reader'[c].mode = "live"
    BY DEF ClientOK, Following
  <2> QED
    BY <1>2, <1>3, <2>1, FollowingKept DEF ClientOK
<1>7. Behind(c)'
  <2>1. open' => reader'[c].mode # "drain"
    BY DEF ClientOK, Behind
  <2> QED
    BY <1>2, <2>1, BehindKept DEF ClientOK
<1> QED
  BY <1>4, <1>5, <1>6, <1>7 DEF ClientOK

\* the ring is left alone
LEMMA RingUntouched ==
    ASSUME RingOK, ring' = ring, made' = made, open' => open, phase' \in Fresh => phase \in Fresh
    PROVE  RingOK'
<1>1. Buffered' = Buffered
  BY RingNext
<1> QED
  BY <1>1 DEF RingOK, Rising

----------------------------------------------------------------------------
(* The broker                                                              *)

\* a sentinel in a full queue costs the listener its oldest event
LEMMA SentinelQueue ==
    ASSUME IInv, NEW c \in listeners, ClientOK(c), queue'[c] = WithSentinel(c),
           reader'[c] = IF Full(c) THEN [reader[c] EXCEPT !.shed = @ \cup {Head(queue[c])}] ELSE reader[c]
    PROVE  /\ c \in Clients /\ Todo(c)' = Todo(c) /\ Waiting(c)' \subseteq Waiting(c)
           /\ Waiting(c) \subseteq Waiting(c)' \cup reader'[c].shed
           /\ Rising(queue'[c])
           /\ reader'[c].todo = reader[c].todo /\ reader'[c].cursor = reader[c].cursor
           /\ reader'[c].mode = reader[c].mode /\ reader'[c].got = reader[c].got
           /\ reader'[c].told = reader[c].told /\ reader[c].shed \subseteq reader'[c].shed
<1> DEFINE q == queue[c]
<1>1. c \in Clients /\ q \in Seq(Told) /\ Len(q) <= QueueSize /\ q \in Seq(Told \cup {Sentinel})
  <2>1. FanOut(Told) /\ BrokerWith(Told)
    BY DEF IInv, FanOutOK, FanOut
  <2> QED
    BY <2>1, QueueTyped DEF BrokerWith
<1>2. reader[c] \in ReaderWith(Told)
  BY <1>1 DEF IInv, FanOutOK, FanOut
<1>3. /\ reader'[c].todo = reader[c].todo /\ reader'[c].cursor = reader[c].cursor
      /\ reader'[c].mode = reader[c].mode /\ reader'[c].got = reader[c].got
      /\ reader'[c].told = reader[c].told /\ reader[c].shed \subseteq reader'[c].shed
      /\ Full(c) => Head(q) \in reader'[c].shed
  BY <1>2 DEF ReaderWith
<1>4. reader[c].mode = "live" /\ Rising(q)
  BY DEF ClientOK, Following, InOrder
<1>5. Told \subseteq Nat /\ Sentinel \notin Told /\ Sentinel \in Nat /\ Told \subseteq AnyEvent
  BY EventsAreTold, EventNumbers DEF Sentinel
<1>6. q \in Seq(Nat) /\ QueueSize \in Nat \ {0}
  BY <1>1, <1>5, SeqMonotonic, StreamAssumption
<1>7. CASE Full(c)
  <2>1. q # <<>>
    BY <1>6, <1>7, EmptySeq DEF Full
  <2>2. /\ Rising(Tail(q)) /\ Tail(q) \in Seq(Nat) /\ queue'[c] = Append(Tail(q), Sentinel)
        /\ Head(q) \in Told
    BY <1>1, <1>4, <1>6, <1>7, <2>1, RisingEnds, HeadTailProperties DEF WithSentinel
  <2>3. Rising(queue'[c])
    BY <2>2, RisingEnds
  <2>4. ASSUME NEW e PROVE Contains(queue'[c], e) <=> Contains(Tail(q), e) \/ e = Sentinel
    <3>1. Tail(q) \in Seq(Nat) /\ Sentinel \in Nat
      BY <1>5, <2>2
    <3>2. Contains(Append(Tail(q), Sentinel), e) <=> Contains(Tail(q), e) \/ e = Sentinel
      BY <3>1, HeldAfter
    <3> QED
      BY <2>2, <3>2, Zenon
  <2>5. \A e : Contains(q, e) <=> e = Head(q) \/ Contains(Tail(q), e)
    BY <1>1, <2>1, Held
  <2>6. Todo(c)' = Todo(c)
    BY <1>1, <1>3, ViewNext DEF Todo
  <2>7. Waiting(c)' \subseteq Waiting(c) /\ Waiting(c) \subseteq Waiting(c)' \cup {Head(q)}
    <3>1. Waiting(c)' = {e \in AnyEvent : Contains(queue'[c], e)}
      BY <1>1, <1>3, <1>4, ViewNext
    <3>2. Waiting(c) = {e \in AnyEvent : Contains(q, e)}
      BY <1>4 DEF Waiting
    <3>3. Sentinel \notin AnyEvent
      BY EventNumbers
    <3> HIDE DEF q
    <3> QED
      BY <2>4, <2>5, <3>1, <3>2, <3>3, Zenon
  <2> QED
    BY <1>1, <1>3, <1>7, <2>3, <2>6, <2>7
<1>8. CASE ~Full(c)
  <2>1. queue'[c] = Append(q, Sentinel)
    BY <1>8 DEF WithSentinel
  <2>2. Rising(queue'[c])
    BY <1>4, <1>6, <2>1, RisingEnds
  <2>3. \A e : Contains(queue'[c], e) <=> Contains(q, e) \/ e = Sentinel
    BY <1>5, <1>6, <2>1, HeldAfter
  <2>4. Todo(c)' = Todo(c)
    BY <1>1, <1>3, ViewNext DEF Todo
  <2>5. Waiting(c)' = Waiting(c)
    BY <1>1, <1>3, <1>4, <1>5, <2>3, EventNumbers, ViewNext DEF Waiting
  <2> QED
    BY <1>1, <1>3, <2>2, <2>4, <2>5
<1> QED
  BY <1>7, <1>8

LEMMA SentinelSent ==
    ASSUME IInv, IInv', Lost \subseteq Lost', NEW c \in listeners, ClientOK(c),
           queue'[c] = WithSentinel(c),
           reader'[c] = IF Full(c) THEN [reader[c] EXCEPT !.shed = @ \cup {Head(queue[c])}] ELSE reader[c]
    PROVE  /\ InOrder(c)' /\ Has(c)' \subseteq Has(c) /\ Has(c) \subseteq Has(c)' \cup Excused(c)'
           /\ Excused(c) \subseteq Excused(c)' /\ reader'[c].mode = reader[c].mode
<1>1. /\ c \in Clients /\ Todo(c)' = Todo(c) /\ Waiting(c)' \subseteq Waiting(c)
      /\ Waiting(c) \subseteq Waiting(c)' \cup reader'[c].shed
      /\ Rising(queue'[c])
      /\ reader'[c].todo = reader[c].todo /\ reader'[c].cursor = reader[c].cursor
      /\ reader'[c].mode = reader[c].mode /\ reader'[c].got = reader[c].got
      /\ reader'[c].told = reader[c].told /\ reader[c].shed \subseteq reader'[c].shed
  BY SentinelQueue
<1>2. Rising(reader'[c].todo)
  BY <1>1 DEF ClientOK, InOrder
<1>3. InOrder(c)'
  <2>1. Rising(reader[c].todo)' /\ Rising(queue[c])'
    BY <1>1, <1>2 DEF Rising
  <2> QED
    BY <1>1, <2>1 DEF ClientOK, InOrder
<1>4. Excused(c) \subseteq Excused(c)'
  BY <1>1, ViewNext DEF Excused
<1>5. Has(c)' \subseteq Has(c) /\ Has(c) \subseteq Has(c)' \cup Excused(c)'
  BY <1>1, ViewNext DEF Has
<1> QED
  BY <1>1, <1>3, <1>4, <1>5

LEMMA ClosedView ==
    ASSUME IInv, IInv', HInv, Lost \subseteq Lost', CloseBroker, made' = made,
           phase' \in Fresh => phase \in Fresh
    PROVE  HInv'
<1>1. open' = FALSE /\ listeners' = {} /\ ring' = ring
  BY DEF CloseBroker
<1>2. RingOK'
  BY <1>1, RingUntouched DEF HInv
<1>3. ASSUME NEW c \in Clients PROVE ClientOK(c)'
  <2>1. CASE c \notin listeners
    <3>1. reader'[c] = reader[c] /\ queue'[c] = queue[c]
      BY <2>1 DEF CloseBroker, Shed
    <3> QED
      BY <1>1, <3>1, Untouched DEF HInv
  <2>2. CASE c \in listeners
    <3>1. /\ queue'[c] = WithSentinel(c)
          /\ reader'[c] = IF Full(c) THEN [reader[c] EXCEPT !.shed = @ \cup {Head(queue[c])}] ELSE reader[c]
      BY <2>2 DEF CloseBroker, Shed
    <3>2. /\ InOrder(c)' /\ Has(c)' \subseteq Has(c) /\ Has(c) \subseteq Has(c)' \cup Excused(c)'
          /\ Excused(c) \subseteq Excused(c)' /\ reader'[c].mode = reader[c].mode
      BY <2>2, <3>1, SentinelSent DEF HInv
    <3>3. Gapless(c)'
      BY <3>2, GaplessKept DEF HInv, ClientOK
    <3>4. Following(c)'
      BY <1>1 DEF Following
    <3>5. Behind(c)'
      BY <1>1, <3>2, BehindKept DEF HInv, ClientOK
    <3> QED
      BY <3>2, <3>3, <3>4, <3>5 DEF ClientOK
  <2> QED
    BY <2>1, <2>2
<1> QED
  BY <1>2, <1>3 DEF HInv

\* e is the next event of the stream, or its end
Newest(e) ==
    /\ e \in AnyEvent /\ \A b \in Buffered : b < e
    /\ e \in Events => made' = made + 1 /\ e = made + 1
    /\ e \notin Events => made' = made /\ phase' \notin Fresh
    /\ phase' \in Fresh => phase \in Fresh

LEMMA NewestNumbers ==
    ASSUME IInv, IInv', NEW e, Newest(e)
    PROVE  /\ e \in Nat /\ 1..made \subseteq 1..made'
           /\ \A x \in 1..made' : x = e \/ (x < e /\ x \in 1..made)
           /\ e \in Events => e \in 1..made'
<1>1. e \in Nat /\ made \in Nat /\ (e \in Events \/ e = Done \/ e = Cut) /\ e >= 1
  BY Numbers DEF Newest
<1>2. CASE e \in Events
  BY <1>1, <1>2 DEF Newest
<1>3. CASE e \notin Events
  <2>1. made' = made /\ \A x \in 1..made : x < Done /\ x < Cut
    BY <1>3, Numbers DEF Newest
  <2> QED
    BY <1>1, <1>3, <2>1
<1> QED
  BY <1>2, <1>3

\* a full ring gives up its oldest event for the new one
LEMMA RingRemembers ==
    ASSUME IInv, IInv', RingOK, open, open', NEW e, Newest(e), ring' = Remembered(e)
    PROVE  RingOK' /\ e \in Buffered'
<1>1. /\ ring \in Seq(Told) /\ Told \subseteq AnyEvent /\ Buffered \subseteq AnyEvent
      /\ AnyEvent \subseteq Nat /\ Sentinel \notin AnyEvent
      /\ \A b : b \in Buffered <=> Contains(ring, b)
  BY RingNumbers, EventNumbers
<1>2. ring \in Seq(AnyEvent) /\ ring \in Seq(Nat) /\ Len(ring) \in Nat /\ RingSize \in Nat \ {0}
  BY <1>1, SeqMonotonic, LenProperties, StreamAssumption
<1>3. e \in AnyEvent /\ e \in Nat /\ \A b \in Buffered : b < e
  BY <1>1 DEF Newest
<1>4. Rising(ring)
  BY DEF RingOK
<1>5. /\ e \in Buffered' /\ Buffered' \subseteq Buffered \cup {e} /\ Rising(ring')
      /\ \A f \in Buffered', x \in Buffered : f < x /\ f # e => x \in Buffered'
  <2>1. CASE Len(ring) < RingSize
    <3>1. ring' = Append(ring, e)
      BY <2>1 DEF Remembered
    <3>2. \A b : Contains(Append(ring, e), b) <=> Contains(ring, b) \/ b = e
      BY <1>2, <1>3, HeldAfter
    <3>3. \A b : Contains(ring', b) <=> Contains(ring, b) \/ b = e
      BY <3>1, <3>2, Zenon
    <3>4. Buffered' = Buffered \cup {e}
      BY <1>1, <1>3, <3>3 DEF Buffered, Contains
    <3>5. Rising(ring')
      BY <1>1, <1>2, <1>3, <1>4, <3>1, RisingEnds
    <3> QED
      BY <3>4, <3>5
  <2>2. CASE ~(Len(ring) < RingSize)
    <3>1. ring # <<>> /\ ring' = Append(Tail(ring), e)
      BY <1>2, <2>2, EmptySeq DEF Remembered
    <3>2. Tail(ring) \in Seq(AnyEvent) /\ Tail(ring) \in Seq(Nat)
      BY <1>2, <3>1, HeadTailProperties
    <3>3. Head(ring) \in AnyEvent /\ Head(ring) \in Nat
      BY <1>1, <1>2, <3>1, HeadTailProperties
    <3>4. \A b : Contains(Append(Tail(ring), e), b) <=> Contains(Tail(ring), b) \/ b = e
      BY <1>3, <3>2, HeldAfter
    <3>5. \A b : Contains(ring', b) <=> Contains(Tail(ring), b) \/ b = e
      BY <3>1, <3>4, Zenon
    <3>6. \A b : Contains(ring, b) <=> b = Head(ring) \/ Contains(Tail(ring), b)
      BY <1>2, <3>1, Held
    <3>7. Rising(Tail(ring)) /\ \A b : Contains(Tail(ring), b) /\ b # Sentinel => Head(ring) < b
      BY <1>1, <1>2, <1>4, <3>1, <3>3, RisingEnds
    <3>8. \A b : Contains(Tail(ring), b) => b \in Buffered /\ b \in Nat /\ b < e /\ Head(ring) < b
      <4>1. \A b : Contains(Tail(ring), b) => b \in Buffered
        BY <1>1, <3>6
      <4> QED
        BY <1>1, <1>3, <3>7, <4>1
    <3>9. Rising(ring')
      <4>1. \A b : Contains(Tail(ring), b) /\ b # Sentinel => b < e
        BY <3>8
      <4> QED
        BY <1>3, <3>1, <3>2, <3>7, <4>1, RisingEnds
    <3>10. \A b : b \in Buffered' <=> Contains(Tail(ring), b) \/ b = e
      <4>1. Buffered' = {b \in AnyEvent : Contains(ring', b)}
        BY DEF Buffered, Contains
      <4> QED
        BY <1>1, <1>3, <3>5, <3>8, <4>1
    <3>11. Buffered' \subseteq Buffered \cup {e}
      BY <3>8, <3>10
    <3>12. ASSUME NEW f \in Buffered', NEW x \in Buffered, f < x, f # e PROVE x \in Buffered'
      <4>1. Head(ring) < f /\ f \in Nat /\ x \in Nat /\ Head(ring) \in Nat
        BY <1>1, <3>3, <3>8, <3>10, <3>12
      <4>2. x # Head(ring)
        BY <3>12, <4>1
      <4> QED
        BY <1>1, <3>6, <3>10, <4>2
    <3> QED
      BY <3>9, <3>10, <3>11, <3>12
  <2> QED
    BY <2>1, <2>2
<1>6. (Buffered' \cap Events) \subseteq 1..made'
  BY <1>5, NewestNumbers DEF RingOK
<1>7. ASSUME NEW x \in 1..made', NEW f \in Buffered', f < x PROVE x \in Buffered'
  <2>1. CASE x = e
    BY <1>5, <2>1
  <2>2. CASE x < e /\ x \in 1..made
    <3>1. f # e
      BY <1>3, <1>7, <2>2
    <3>2. x \in Buffered
      BY <1>5, <1>7, <2>2, <3>1 DEF RingOK
    <3> QED
      BY <1>5, <1>7, <3>1, <3>2
  <2> QED
    BY <2>1, <2>2, NewestNumbers
<1>8. phase' \in Fresh => Buffered' \subseteq Events
  BY <1>5 DEF RingOK, Newest
<1>9. Rising(ring)'
  BY <1>5 DEF Rising
<1>10. RingOK'
  BY <1>6, <1>7, <1>8, <1>9 DEF RingOK
<1> QED
  BY <1>5, <1>10

LEMMA PublishedTo ==
    ASSUME IInv, IInv', NEW c \in Clients, ClientOK(c), open, open', NEW e, Newest(e), e \in Buffered',
           Has(c)' \subseteq Has(c) \cup {e}, Has(c) \subseteq Has(c)' \cup Excused(c)',
           Excused(c) \subseteq Excused(c)', reader'[c].mode = reader[c].mode,
           e \in Has(c)' => c \in listeners, c \in listeners' => c \in listeners /\ e \in Has(c)'
    PROVE  Gapless(c)' /\ Following(c)' /\ Behind(c)'
<1>1. /\ \A x \in 1..made' : x = e \/ (x < e /\ x \in 1..made)
      /\ 1..made \subseteq 1..made' /\ (e \in Events => e \in 1..made') /\ e \in Nat
  BY NewestNumbers
<1>2. \A y \in Has(c) : y < e /\ y \in Nat
  <2> SUFFICES ASSUME NEW y \in Has(c) PROVE y < e /\ y \in Nat
    OBVIOUS
  <2>1. PICK last \in Buffered : y <= last
    BY DEF ClientOK, Behind
  <2>2. last < e /\ last \in Nat /\ y \in Nat
    BY RingNumbers, Views, Numbers DEF Newest
  <2> QED
    BY <1>1, <2>1, <2>2
<1>3. Gapless(c)'
  <2> SUFFICES ASSUME NEW x \in 1..made', NEW f \in Has(c)', NEW g \in Has(c)', f < x, x < g
               PROVE  x \in Has(c)' \/ x \in Excused(c)'
    BY DEF Gapless
  <2>1. x \in 1..made /\ x \in Nat /\ x < e
    <3>1. x \in Nat /\ g \in Nat /\ (g < e \/ g = e)
      BY <1>1, <1>2, EventNumbers DEF IInv, WorkOK
    <3> QED
      BY <1>1, <3>1
  <2>2. f \in Has(c)
    BY <1>1, <2>1
  <2>3. CASE g \in Has(c)
    BY <2>1, <2>2, <2>3 DEF ClientOK, Gapless
  <2>4. CASE g = e
    BY <2>1, <2>2, <2>4 DEF ClientOK, Following
  <2> QED
    BY <2>3, <2>4
<1>4. Following(c)'
  <2>1. c \in listeners' => reader'[c].mode = "live"
    BY DEF ClientOK, Following
  <2> SUFFICES ASSUME c \in listeners', NEW x \in 1..made', NEW f \in Has(c)', f < x
               PROVE  x \in Has(c)' \/ x \in Excused(c)'
    BY <2>1 DEF Following
  <2>2. CASE x = e
    BY <2>2
  <2>3. CASE x < e /\ x \in 1..made
    <3>1. f \in Has(c)
      BY <1>1, <2>3
    <3> QED
      BY <2>3, <3>1 DEF ClientOK, Following
  <2> QED
    BY <1>1, <2>2, <2>3
<1>5. Behind(c)'
  <2>1. Has(c)' \cap Events \subseteq 1..made'
    BY <1>1 DEF ClientOK, Behind
  <2>2. reader'[c].mode # "drain"
    BY DEF ClientOK, Behind
  <2>3. \A y \in Has(c)' : y <= e
    BY <1>1, <1>2
  <2>4. phase' \in Fresh => Has(c)' \subseteq Events
    BY DEF ClientOK, Behind, Newest
  <2> QED
    BY <2>1, <2>2, <2>3, <2>4 DEF Behind
<1> QED
  BY <1>3, <1>4, <1>5

\* the view of a client, when the newest event is published
LEMMA PublishedView ==
    ASSUME IInv, IInv', HInv, Lost \subseteq Lost', open, NEW e, Newest(e), Publish(e)
    PROVE  HInv'
<1> DEFINE slow == {c \in listeners : Full(c)}
<1>1. /\ ring' = Remembered(e) /\ listeners' = listeners \ slow /\ open'
      /\ queue' = [c \in Clients |-> IF c \in slow THEN WithSentinel(c)
                                     ELSE IF c \in listeners THEN Append(queue[c], e)
                                     ELSE queue[c]]
      /\ reader' = [c \in Clients |->
                      IF c \in slow THEN [reader[c] EXCEPT !.shed = @ \cup {Head(queue[c])}]
                                    ELSE reader[c]]
  BY DEF Publish, Shed
<1>2. RingOK' /\ e \in Buffered'
  BY <1>1, RingRemembers DEF HInv
<1>3. e \in AnyEvent /\ e \in Nat /\ e # Sentinel
  BY EventNumbers DEF Newest
<1>4. \A c \in Clients : e \notin Has(c)
  <2> SUFFICES ASSUME NEW c \in Clients, e \in Has(c) PROVE FALSE
    OBVIOUS
  <2>1. PICK last \in Buffered : e <= last
    BY DEF HInv, ClientOK, Behind
  <2>2. last < e /\ last \in Nat
    BY RingNumbers, Numbers DEF Newest
  <2> QED
    BY <1>3, <2>1, <2>2
<1> HIDE DEF slow
<1>5. ASSUME NEW c \in Clients PROVE ClientOK(c)'
  <2>1. CASE c \notin listeners
    <3>1. reader'[c] = reader[c] /\ queue'[c] = queue[c] /\ c \notin listeners'
      BY <1>1, <2>1 DEF slow
    <3>2. Todo(c)' = Todo(c) /\ Waiting(c)' = Waiting(c)
      BY <3>1, ViewNext DEF Todo, Waiting
    <3>3. Has(c)' = Has(c) /\ Excused(c) \subseteq Excused(c)'
      BY <3>1, <3>2, ViewNext DEF Has, Excused
    <3>4. InOrder(c)'
      BY <3>1, <3>2 DEF HInv, ClientOK, InOrder, Rising
    <3>5. Gapless(c)' /\ Following(c)' /\ Behind(c)'
      BY <1>1, <1>2, <1>4, <3>1, <3>3, PublishedTo DEF HInv
    <3> QED
      BY <3>4, <3>5 DEF ClientOK
  <2>2. CASE c \in slow
    <3>1. c \in listeners /\ Full(c)
      BY <2>2 DEF slow
    <3>2. /\ queue'[c] = WithSentinel(c) /\ c \notin listeners'
          /\ reader'[c] = IF Full(c) THEN [reader[c] EXCEPT !.shed = @ \cup {Head(queue[c])}] ELSE reader[c]
      BY <1>1, <2>2, <3>1
    <3>3. /\ InOrder(c)' /\ Has(c)' \subseteq Has(c) /\ Has(c) \subseteq Has(c)' \cup Excused(c)'
          /\ Excused(c) \subseteq Excused(c)' /\ reader'[c].mode = reader[c].mode
      BY <3>1, <3>2, SentinelSent DEF HInv
    <3>4. Gapless(c)' /\ Following(c)' /\ Behind(c)'
      BY <1>1, <1>2, <1>4, <3>2, <3>3, PublishedTo DEF HInv
    <3> QED
      BY <3>3, <3>4 DEF ClientOK
  <2>3. CASE c \in listeners /\ c \notin slow
    <3>1. reader'[c] = reader[c] /\ queue'[c] = Append(queue[c], e) /\ c \in listeners'
      BY <1>1, <2>3
    <3>2. /\ queue[c] \in Seq(Told \cup {Sentinel}) /\ Told \subseteq AnyEvent /\ Has(c) \subseteq AnyEvent
          /\ reader[c].mode = "live" /\ Rising(queue[c])
      BY <2>3, Views DEF HInv, ClientOK, Following, InOrder
    <3>3. queue[c] \in Seq(Nat)
      <4>1. Told \cup {Sentinel} \subseteq Nat
        BY <3>2, EventNumbers DEF Sentinel
      <4> QED
        BY <3>2, <4>1, SeqMonotonic
    <3>4. \A x : Contains(Append(queue[c], e), x) <=> Contains(queue[c], x) \/ x = e
      BY <1>3, <3>3, HeldAfter
    <3>5. \A x : Contains(queue'[c], x) <=> Contains(queue[c], x) \/ x = e
      BY <3>1, <3>4, Zenon
    <3>6. Todo(c)' = Todo(c)
      BY <3>1, ViewNext DEF Todo
    <3>7. Waiting(c)' = Waiting(c) \cup {e}
      BY <1>3, <3>1, <3>2, <3>5, ViewNext DEF Waiting
    <3>8. Has(c)' = Has(c) \cup {e} /\ Excused(c) \subseteq Excused(c)'
      BY <3>1, <3>6, <3>7, ViewNext DEF Has, Excused
    <3>9. \A y \in Has(c) : y < e
      <4> SUFFICES ASSUME NEW y \in Has(c) PROVE y < e
        OBVIOUS
      <4>1. PICK last \in Buffered : y <= last
        BY DEF HInv, ClientOK, Behind
      <4>2. last < e /\ last \in Nat /\ y \in Nat
        BY <3>2, RingNumbers, Numbers DEF Newest
      <4> QED
        BY <1>3, <4>1, <4>2
    <3>10. Rising(queue'[c])
      <4>1. \A x : Contains(queue[c], x) /\ x # Sentinel => x < e
        <5> SUFFICES ASSUME NEW x, Contains(queue[c], x), x # Sentinel PROVE x \in Has(c)
          BY <3>9
        <5>1. x \in AnyEvent
          BY <3>2, Held
        <5> QED
          BY <3>2, <5>1 DEF Waiting, Has
      <4> QED
        BY <1>3, <3>1, <3>2, <3>3, <4>1, RisingEnds
    <3>11. InOrder(c)'
      <4>1. \A t \in Todo(c) : t < e
        BY <3>9 DEF Has
      <4>2. reader[c].cursor < e
        <5>1. reader[c].cursor \in Has(c) \cup {NoCursor} /\ NoCursor < e
          BY <1>3, Numbers DEF HInv, ClientOK, InOrder, Has, NoCursor
        <5> QED
          BY <3>9, <5>1
      <4>3. \A w \in Waiting(c)' : reader[c].cursor < w /\ \A t \in Todo(c) : t < w
        BY <3>7, <4>1, <4>2 DEF HInv, ClientOK, InOrder
      <4>4. Rising(reader[c].todo)' /\ Rising(queue[c])'
        BY <3>1, <3>10 DEF HInv, ClientOK, InOrder, Rising
      <4> QED
        BY <3>1, <3>6, <4>3, <4>4 DEF HInv, ClientOK, InOrder
    <3>12. Gapless(c)' /\ Following(c)' /\ Behind(c)'
      BY <1>1, <1>2, <2>3, <3>1, <3>8, PublishedTo DEF HInv
    <3> QED
      BY <3>11, <3>12 DEF ClientOK
  <2> QED
    BY <2>1, <2>2, <2>3
<1> QED
  BY <1>2, <1>5 DEF HInv

\* a closed broker ignores what is emitted
LEMMA UnheardView ==
    ASSUME IInv, IInv', HInv, Lost \subseteq Lost', ~open, phase \in Early, made' = made + 1,
           UNCHANGED <<open, ring, listeners, queue, reader>>
    PROVE  HInv'
<1>1. made \in Nat /\ Told \subseteq Events /\ Buffered \subseteq Events
  BY Numbers, EarlyEvents, RingNumbers
<1>2. Buffered' = Buffered /\ Buffered \subseteq 1..made
  BY <1>1, RingNext DEF HInv, RingOK
<1>3. RingOK'
  <2>1. ASSUME NEW x \in 1..made', NEW f \in Buffered, NEW g \in Buffered, f < x, x < g
        PROVE  x \in Buffered
    <3>1. x \in 1..made
      BY <1>1, <1>2, <2>1
    <3> QED
      BY <2>1, <3>1 DEF HInv, RingOK
  <2>2. Buffered \subseteq 1..made'
    BY <1>1, <1>2
  <2> QED
    BY <1>2, <2>1, <2>2 DEF HInv, RingOK, Rising
<1>4. ASSUME NEW c \in Clients PROVE ClientOK(c)'
  <2>1. Todo(c)' = Todo(c) /\ Waiting(c)' = Waiting(c)
    BY ViewNext DEF Todo, Waiting
  <2>2. Has(c)' = Has(c) /\ Excused(c) \subseteq Excused(c)'
    BY <2>1, ViewNext DEF Has, Excused
  <2>3. Has(c) \subseteq 1..made
    BY <1>1, Views DEF HInv, ClientOK, Behind
  <2>4. InOrder(c)'
    BY <2>1 DEF HInv, ClientOK, InOrder, Rising
  <2>5. Gapless(c)'
    <3> SUFFICES ASSUME NEW x \in 1..made', NEW f \in Has(c), NEW g \in Has(c), f < x, x < g
                 PROVE  x \in Has(c) \/ x \in Excused(c)'
      BY <2>2 DEF Gapless
    <3>1. x \in 1..made
      BY <1>1, <2>3
    <3> QED
      BY <2>2, <3>1 DEF HInv, ClientOK, Gapless
  <2>6. Following(c)'
    BY DEF HInv, ClientOK, Following
  <2>7. Behind(c)'
    <3>1. Has(c) \subseteq 1..made'
      BY <1>1, <2>3
    <3> QED
      BY <1>2, <2>2, <3>1 DEF HInv, ClientOK, Behind
  <2> QED
    BY <2>4, <2>5, <2>6, <2>7 DEF ClientOK
<1> QED
  BY <1>3, <1>4 DEF HInv

\* nothing of the broker and the clients changes
LEMMA QuietView ==
    ASSUME IInv, IInv', HInv, Lost \subseteq Lost', made' = made, phase' \in Fresh => phase \in Fresh,
           UNCHANGED <<open, ring, listeners, queue, reader>>
    PROVE  HInv'
<1>1. RingOK'
  BY RingUntouched DEF HInv
<1>2. ASSUME NEW c \in Clients PROVE ClientOK(c)'
  <2>1. c \in listeners' => open'
    BY DEF HInv, ClientOK, Following
  <2> QED
    BY <2>1, Untouched DEF HInv
<1> QED
  BY <1>1, <1>2 DEF HInv

LEMMA PublishView ==
    ASSUME IInv, IInv', HInv, Lost \subseteq Lost', NEW e, Newest(e), Publish(e), made' = made \/ phase \in Early
    PROVE  HInv'
<1>1. CASE open
  BY <1>1, PublishedView
<1>2. CASE ~open
  <2>1. UNCHANGED <<open, ring, listeners, queue, reader>>
    BY <1>2 DEF Publish, broker
  <2>2. CASE made' = made
    BY <2>1, <2>2, QuietView DEF Newest
  <2>3. CASE made' # made
    <3>1. made' = made + 1 /\ phase \in Early
      BY <2>3 DEF Newest
    <3> QED
      BY <1>2, <2>1, <3>1, UnheardView
  <2> QED
    BY <2>2, <2>3
<1> QED
  BY <1>1, <1>2

----------------------------------------------------------------------------
(* The clients                                                             *)

\* a response ends: what had not been received is above what was
LEMMA Leaves ==
    ASSUME IInv, IInv', Lost \subseteq Lost', NEW c \in Clients, ClientOK(c),
           reader'[c] = Left(reader[c]), c \notin listeners', made' = made,
           open' => open /\ ring' = ring, phase' \in Fresh => phase \in Fresh
    PROVE  ClientOK(c)'
<1>1. reader[c] \in ReaderWith(Told)
  BY DEF IInv, FanOutOK, FanOut
<1>2. /\ reader'[c].mode = "away" /\ reader'[c].todo = <<>> /\ reader'[c].cursor = reader[c].cursor
      /\ reader'[c].got = reader[c].got /\ reader'[c].told = reader[c].told
      /\ reader'[c].shed = reader[c].shed
  BY <1>1 DEF Left, ReaderWith
<1>3. Todo(c)' = {} /\ Waiting(c)' = {}
  <2>1. \A e : ~Contains(<<>>, e)
    BY <1>1, Held DEF ReaderWith
  <2> QED
    BY <1>2, <2>1, ViewNext
<1>4. Has(c)' = reader[c].got /\ Has(c)' \subseteq Has(c) /\ Excused(c) \subseteq Excused(c)'
  BY <1>2, <1>3, ViewNext DEF Has, Excused
<1>5. InOrder(c)'
  <2>1. Rising(reader[c].todo)'
    BY <1>2, EmptySeq DEF Rising
  <2> QED
    BY <1>2, <1>3, <2>1 DEF ClientOK, InOrder
<1>6. Gapless(c)'
  <2>1. ASSUME NEW x \in Has(c), x \notin Has(c)', NEW g \in Has(c)' PROVE g < x
    <3>1. x \in Todo(c) \cup Waiting(c) /\ g <= reader[c].cursor /\ reader[c].cursor < x
      BY <1>4, <2>1 DEF Has, ClientOK, InOrder
    <3>2. g \in Nat /\ x \in Nat /\ reader[c].cursor \in Nat
      BY <1>4, Views, Numbers DEF NoCursor
    <3> QED
      BY <3>1, <3>2
  <2> QED
    BY <1>4, <2>1, GaplessKept DEF ClientOK
<1>7. Following(c)'
  BY DEF Following
<1>8. Behind(c)'
  <2>1. open' => Buffered' = Buffered
    BY RingNext
  <2> QED
    BY <1>2, <1>4, <2>1 DEF ClientOK, Behind
<1> QED
  BY <1>5, <1>6, <1>7, <1>8 DEF ClientOK

LEMMA CrashView ==
    ASSUME IInv, IInv', HInv, Lost \subseteq Lost', Crash
    PROVE  HInv'
<1>1. /\ phase' = "dead" /\ open' = FALSE /\ ring' = <<>> /\ listeners' = {} /\ made' = made
      /\ \A c \in Clients : reader'[c] = Left(reader[c])
  BY DEF Crash, Left
<1>2. phase' \notin Fresh
  BY <1>1 DEF Fresh, Early
<1>3. RingOK'
  <2>1. Buffered' = {} /\ Rising(ring)'
    BY <1>1, EmptySeq DEF Buffered, Contains, Rising
  <2> QED
    BY <1>1, <2>1 DEF RingOK
<1>4. ASSUME NEW c \in Clients PROVE ClientOK(c)'
  BY <1>1, <1>2, Leaves DEF HInv
<1> QED
  BY <1>3, <1>4 DEF HInv

\* a step of c leaves the others as they are
LEMMA OneView ==
    ASSUME IInv, IInv', HInv, Lost \subseteq Lost', NEW c \in Clients, ClientOK(c)',
           UNCHANGED <<open, ring, made, phase>>,
           \A d \in Clients \ {c} : /\ reader'[d] = reader[d] /\ queue'[d] = queue[d]
                                    /\ d \in listeners' => d \in listeners
    PROVE  HInv'
<1>1. RingOK'
  BY RingUntouched DEF HInv
<1>2. ASSUME NEW d \in Clients PROVE ClientOK(d)'
  <2>1. CASE d = c
    BY <2>1
  <2>2. CASE d # c
    <3>1. d \in listeners' => d \in listeners /\ open'
      BY <2>2 DEF HInv, ClientOK, Following
    <3> QED
      BY <2>2, <3>1, Untouched DEF HInv
  <2> QED
    BY <2>1, <2>2
<1> QED
  BY <1>1, <1>2 DEF HInv

\* an event reaches the client: it moves from the snapshot or the queue to what is received
Taken(c, e) ==
    /\ UNCHANGED listeners
    /\ reader'[c].mode = reader[c].mode /\ reader'[c].mode \in {"live", "drain"}
    /\ reader'[c].got = reader[c].got \cup {e} /\ reader'[c].cursor = e
    /\ reader'[c].told = reader[c].told /\ reader'[c].shed = reader[c].shed
    /\ Rising(reader'[c].todo) /\ (reader'[c].mode = "live" => Rising(queue'[c]))
    /\ Todo(c)' \subseteq Todo(c) /\ Waiting(c)' \subseteq Waiting(c)
    /\ e \in Todo(c) \cup Waiting(c) /\ Todo(c) \cup Waiting(c) = Todo(c)' \cup Waiting(c)' \cup {e}
    /\ \A x \in Todo(c)' \cup Waiting(c)' : e < x

LEMMA Receives ==
    ASSUME IInv, IInv', HInv, Lost \subseteq Lost', NEW c \in Clients, NEW e \in AnyEvent,
           UNCHANGED <<open, ring, made, phase>>, Taken(c, e)
    PROVE  ClientOK(c)'
<1> USE DEF Taken
<1>1. Has(c)' = Has(c) /\ Excused(c) \subseteq Excused(c)'
  BY ViewNext DEF Has, Excused
<1>2. InOrder(c)'
  <2>1. \A g \in reader'[c].got : g <= e
    <3>1. reader[c].cursor < e
      BY DEF HInv, ClientOK, InOrder
    <3>2. e \in Nat /\ reader[c].cursor \in Nat /\ \A g \in reader[c].got : g \in Nat /\ g <= reader[c].cursor
      BY Views, Numbers DEF NoCursor, HInv, ClientOK, InOrder
    <3> QED
      BY <3>1, <3>2
  <2>2. \A w \in Waiting(c)', t \in Todo(c)' : t < w
    BY DEF HInv, ClientOK, InOrder
  <2>3. Rising(reader[c].todo)' /\ (reader'[c].mode = "live" => Rising(queue[c])')
    BY DEF Rising
  <2> QED
    BY <2>1, <2>2, <2>3 DEF InOrder
<1>3. Gapless(c)'
  BY <1>1, GaplessKept DEF HInv, ClientOK
<1>4. Following(c)'
  BY <1>1, FollowingKept DEF HInv, ClientOK, Following
<1>5. Behind(c)'
  BY <1>1, BehindKept DEF HInv, ClientOK, Behind
<1> QED
  BY <1>2, <1>3, <1>4, <1>5 DEF ClientOK

LEMMA ReadKinds ==
    ASSUME IInv, HInv, NEW c \in Clients, Read(c)
    PROVE  /\ UNCHANGED <<open, ring, made, phase, row>>
           /\ \A d \in Clients \ {c} : /\ reader'[d] = reader[d] /\ queue'[d] = queue[d]
                                       /\ d \in listeners' => d \in listeners
           /\ \/ reader'[c] = Left(reader[c]) /\ c \notin listeners'
              \/ \E e \in AnyEvent : Taken(c, e)
<1> DEFINE r == reader[c]
<1>1. /\ r \in ReaderWith(Told) /\ queue[c] \in Seq(Told \cup {Sentinel}) /\ r.todo \in Seq(Told)
      /\ Told \subseteq AnyEvent /\ AnyEvent \subseteq Nat /\ Sentinel \notin AnyEvent
      /\ reader \in [Clients -> ReaderWith(Told)]
      /\ queue \in [Clients -> Seq(Told \cup {Sentinel})]
  BY Views, EventNumbers DEF IInv, FanOutOK, FanOut, BrokerWith
<1>2. /\ UNCHANGED <<open, ring, made, phase, row>>
      /\ \A d \in Clients \ {c} : /\ reader'[d] = reader[d] /\ queue'[d] = queue[d]
                                  /\ d \in listeners' => d \in listeners
  BY <1>1 DEF Read, SetReader, worker
<1>3. CASE /\ r.mode \in {"live", "drain"} /\ r.todo # <<>>
           /\ SetReader(c, Received([r EXCEPT !.todo = Tail(@)], Head(r.todo)))
           /\ UNCHANGED <<queue, listeners>>
  <2>1. reader'[c] = Received([r EXCEPT !.todo = Tail(@)], Head(r.todo))
    BY <1>1, <1>3 DEF SetReader
  <2>2. PICK e \in Told : e = Head(r.todo)
    BY <1>1, <1>3, HeadTailProperties
  <2>3. /\ reader'[c].mode = r.mode /\ reader'[c].got = r.got \cup {e} /\ reader'[c].cursor = e
        /\ reader'[c].told = r.told /\ reader'[c].shed = r.shed /\ reader'[c].todo = Tail(r.todo)
    BY <1>1, <2>1, <2>2 DEF Received, ReaderWith
  <2>4. r.todo \in Seq(Nat)
    BY <1>1, SeqMonotonic
  <2>5. /\ Rising(Tail(r.todo))
        /\ \A x : Contains(Tail(r.todo), x) /\ x # Sentinel => e < x
    <3>1. Rising(r.todo) /\ Head(r.todo) # Sentinel
      BY <1>1, <2>2 DEF HInv, ClientOK, InOrder
    <3> QED
      BY <1>3, <2>2, <2>4, <3>1, RisingEnds
  <2>6. \A x : Contains(r.todo, x) <=> x = e \/ Contains(Tail(r.todo), x)
    BY <1>1, <1>3, <2>2, Held
  <2>7. Waiting(c)' = Waiting(c)
    BY <1>3, <2>3, ViewNext DEF Waiting
  <2>8. Todo(c) = Todo(c)' \cup {e} /\ e \in AnyEvent /\ \A x \in Todo(c)' : e < x
    <3>1. Todo(c)' = {x \in AnyEvent : Contains(Tail(r.todo), x)}
      BY <2>3, ViewNext
    <3>2. Todo(c) = {x \in AnyEvent : Contains(r.todo, x)}
      BY DEF Todo
    <3> HIDE DEF r
    <3>3. e \in AnyEvent
      BY <1>1, <2>2
    <3> QED
      BY <1>1, <2>5, <2>6, <3>1, <3>2, <3>3
  <2>9. \A w \in Waiting(c) : e < w
    BY <2>8 DEF HInv, ClientOK, InOrder
  <2>10. r.mode = "live" => Rising(queue'[c])
    BY <1>3 DEF HInv, ClientOK, InOrder
  <2>11. UNCHANGED listeners
    BY <1>3
  <2>12. Taken(c, e)
    BY <1>3, <2>3, <2>5, <2>7, <2>8, <2>9, <2>10, <2>11 DEF Taken
  <2> QED
    BY <1>2, <2>8, <2>12
<1>4. CASE /\ r.mode = "drain" /\ r.todo = <<>> /\ SetReader(c, Left(r)) /\ UNCHANGED <<queue, listeners>>
  <2>1. reader'[c] = Left(reader[c]) /\ c \notin listeners'
    BY <1>1, <1>4 DEF SetReader, HInv, ClientOK, Following
  <2> QED
    BY <1>2, <2>1
<1>5. CASE /\ r.mode = "live" /\ r.todo = <<>> /\ queue[c] # <<>>
           /\ IF Head(queue[c]) = Sentinel
              THEN SetReader(c, Left(r)) /\ listeners' = listeners \ {c}
              ELSE SetReader(c, Received(r, Head(queue[c]))) /\ UNCHANGED listeners
           /\ queue' = [queue EXCEPT ![c] = Tail(@)]
  <2>1. CASE Head(queue[c]) = Sentinel
    <3>1. reader'[c] = Left(reader[c]) /\ c \notin listeners'
      BY <1>1, <1>5, <2>1 DEF SetReader
    <3> QED
      BY <1>2, <3>1
  <2>2. CASE Head(queue[c]) # Sentinel
    <3>0. Head(queue[c]) \in Told \cup {Sentinel}
      BY <1>1, <1>5, HeadTailProperties
    <3>1. PICK e \in Told : e = Head(queue[c])
      BY <2>2, <3>0
    <3>2. reader'[c] = Received(r, e) /\ queue'[c] = Tail(queue[c]) /\ listeners' = listeners
      BY <1>1, <1>5, <2>2, <3>1 DEF SetReader
    <3>3. /\ reader'[c].mode = r.mode /\ reader'[c].got = r.got \cup {e} /\ reader'[c].cursor = e
          /\ reader'[c].told = r.told /\ reader'[c].shed = r.shed /\ reader'[c].todo = r.todo
      BY <1>1, <3>2 DEF Received, ReaderWith
    <3>4. queue[c] \in Seq(Nat)
      <4>1. Told \cup {Sentinel} \subseteq Nat
        BY <1>1, EventNumbers DEF Sentinel
      <4> QED
        BY <1>1, <4>1, SeqMonotonic
    <3>5. /\ Rising(Tail(queue[c]))
          /\ \A x : Contains(Tail(queue[c]), x) /\ x # Sentinel => e < x
      <4>1. Rising(queue[c])
        BY <1>5 DEF HInv, ClientOK, InOrder
      <4> QED
        BY <1>5, <2>2, <3>1, <3>4, <4>1, RisingEnds
    <3>6. \A x : Contains(queue[c], x) <=> x = e \/ Contains(Tail(queue[c]), x)
      BY <1>1, <1>5, <3>1, Held
    <3>7. Todo(c)' = {} /\ Todo(c) = {}
      <4>1. \A x : ~Contains(<<>>, x)
        BY <1>1, Held
      <4> QED
        BY <1>5, <3>3, <4>1, ViewNext DEF Todo
    <3>8. Waiting(c) = Waiting(c)' \cup {e} /\ e \in AnyEvent /\ \A x \in Waiting(c)' : e < x
      <4>1. Waiting(c)' = {x \in AnyEvent : Contains(Tail(queue[c]), x)}
        BY <1>5, <3>2, <3>3, ViewNext
      <4>2. Waiting(c) = {x \in AnyEvent : Contains(queue[c], x)}
        BY <1>5 DEF Waiting
      <4>3. e \in AnyEvent
        BY <1>1, <3>1
      <4> QED
        BY <1>1, <3>5, <3>6, <4>1, <4>2, <4>3
    <3>9. Rising(r.todo)
      BY DEF HInv, ClientOK, InOrder
    <3>10. Taken(c, e)
      BY <1>5, <3>2, <3>3, <3>5, <3>7, <3>8, <3>9 DEF Taken
    <3> QED
      BY <1>2, <3>8, <3>10
  <2> QED
    BY <2>1, <2>2
<1> QED
  BY <1>3, <1>4, <1>5 DEF Read

LEMMA ReadView ==
    ASSUME IInv, IInv', HInv, Lost \subseteq Lost', NEW c \in Clients, Read(c)
    PROVE  HInv'
<1>1. /\ UNCHANGED <<open, ring, made, phase>>
      /\ \A d \in Clients \ {c} : /\ reader'[d] = reader[d] /\ queue'[d] = queue[d]
                                  /\ d \in listeners' => d \in listeners
  BY ReadKinds
<1>2. SUFFICES ClientOK(c)'
  BY <1>1, OneView
<1>3. CASE reader'[c] = Left(reader[c]) /\ c \notin listeners'
  BY <1>1, <1>3, Leaves DEF HInv
<1>4. ASSUME NEW e \in AnyEvent, Taken(c, e) PROVE ClientOK(c)'
  BY <1>1, <1>4, Receives
<1> QED
  BY <1>3, <1>4, ReadKinds

\* a response starts with a snapshot of what follows the cursor
LEMMA Resumes ==
    ASSUME IInv, IInv', Lost \subseteq Lost', NEW c \in Clients, ClientOK(c), made' = made,
           Todo(c) = {}, Waiting(c) = {}, Waiting(c)' = {},
           reader'[c].got = reader[c].got, reader'[c].cursor = reader[c].cursor,
           reader[c].told \subseteq reader'[c].told, reader'[c].shed = reader[c].shed,
           reader'[c].mode \in {"live", "drain"}, reader'[c].mode = "live" => queue'[c] = <<>>,
           Rising(reader'[c].todo), \A t \in Todo(c)' : reader[c].cursor < t,
           \A x \in 1..made, g \in Todo(c)', f \in Todo(c)' \cup {reader[c].cursor} :
              f \in Has(c)' /\ f < x /\ x < g => x \in Todo(c)' \cup Excused(c)'
    PROVE  /\ InOrder(c)' /\ Gapless(c)' /\ Has(c) = reader[c].got
           /\ Has(c)' = Has(c) \cup Todo(c)' /\ Excused(c) \subseteq Excused(c)'
<1>1. /\ Has(c) = reader[c].got /\ Has(c)' = Has(c) \cup Todo(c)'
      /\ Excused(c) \subseteq Excused(c)'
  BY ViewNext DEF Has, Excused
<1>2. InOrder(c)'
  <2>1. Rising(reader[c].todo)' /\ (reader'[c].mode = "live" => Rising(queue[c])')
    BY EmptySeq DEF Rising
  <2> QED
    BY <2>1 DEF ClientOK, InOrder
<1>3. Gapless(c)'
  <2> SUFFICES ASSUME NEW x \in 1..made, NEW f \in Has(c)', NEW g \in Has(c)', f < x, x < g
               PROVE  x \in Has(c)' \/ x \in Excused(c)'
    BY DEF Gapless
  <2>1. /\ f \in Nat /\ g \in Nat /\ x \in Nat /\ f >= 1 /\ reader[c].cursor \in Nat
        /\ \A y \in Has(c) : y <= reader[c].cursor
        /\ \A t \in Todo(c)' : reader[c].cursor < t
        /\ reader[c].cursor \in Has(c) \cup {0}
    <3>1. f \in AnyEvent /\ g \in AnyEvent
      BY <1>1, Views, ViewNext
    <3> QED
      BY <1>1, <3>1, Views, Numbers DEF NoCursor, ClientOK, InOrder
  <2>2. CASE g \in Has(c)
    <3>1. f \in Has(c)
      BY <1>1, <2>1, <2>2
    <3> QED
      BY <1>1, <2>2, <3>1 DEF ClientOK, Gapless
  <2>3. CASE g \in Todo(c)' /\ f \in Todo(c)'
    BY <1>1, <2>3
  <2>4. CASE g \in Todo(c)' /\ f \in Has(c)
    <3>1. reader[c].cursor \in Has(c)
      BY <2>1, <2>4
    <3>2. CASE x < reader[c].cursor
      BY <1>1, <2>4, <3>1, <3>2 DEF ClientOK, Gapless
    <3>3. CASE x = reader[c].cursor
      BY <1>1, <3>1, <3>3
    <3>4. CASE reader[c].cursor < x
      BY <1>1, <2>4, <3>1, <3>4
    <3> QED
      BY <2>1, <3>2, <3>3, <3>4
  <2> QED
    BY <1>1, <2>2, <2>3, <2>4
<1> QED
  BY <1>1, <1>2, <1>3

\* what the trace skips is lost: chunk and buffer come after it
LEMMA TraceGaps ==
    ASSUME IInv, NEW g, Contains(trace, g), NEW x \in 1..made, x < g
    PROVE  Contains(trace, x) \/ x \in Lost
<1>1. trace \in Seq(Nat) /\ flushing \in Seq(Nat) /\ unflushed \in Seq(Nat) /\ x \in Nat
  BY StoreNumbers, Numbers DEF IInv, StoreTyped
<1>2. PICK i \in 1..Len(trace) : trace[i] = g
  BY DEF Contains
<1>3. g \in Nat
  BY <1>1, <1>2, ElementOfSeq
<1>4. ~Contains(flushing, x)
  <2> SUFFICES ASSUME NEW j \in 1..Len(flushing), flushing[j] = x PROVE FALSE
    BY DEF Contains
  <2>1. trace[i] < flushing[j]
    BY DEF IInv, OrderOK, Chain, Before
  <2> QED
    BY <1>1, <1>2, <1>3, <2>1
<1>5. ~Contains(unflushed, x)
  <2> SUFFICES ASSUME NEW j \in 1..Len(unflushed), unflushed[j] = x PROVE FALSE
    BY DEF Contains
  <2>1. trace[i] < unflushed[j]
    BY DEF IInv, OrderOK, Chain, Before
  <2> QED
    BY <1>1, <1>2, <1>3, <2>1
<1> QED
  BY <1>4, <1>5 DEF Lost

\* a client without a response has what it has received
LEMMA Waits ==
    ASSUME IInv, NEW c \in Clients, ClientOK(c), reader[c].mode \in {"away", "opening"}
    PROVE  Todo(c) = {} /\ Waiting(c) = {} /\ Has(c) = reader[c].got /\ c \notin listeners
<1>1. \A e : ~Contains(<<>>, e)
  BY Views, Held
<1> QED
  BY <1>1 DEF ClientOK, InOrder, Following, Todo, Waiting, Has

LEMMA AttachView ==
    ASSUME IInv, IInv', HInv, Lost \subseteq Lost', NEW c \in Clients, AttachLive(c) \/ AttachReplay(c)
    PROVE  HInv'
<1> DEFINE r == reader[c]
<1>1. /\ reader \in [Clients -> ReaderWith(Told)] /\ r \in ReaderWith(Told)
      /\ queue \in [Clients -> Seq(Told \cup {Sentinel})]
  BY DEF IInv, FanOutOK, FanOut, BrokerWith
<1>2. /\ UNCHANGED <<open, ring, made, phase, listeners, queue, store>>
      /\ \A d \in Clients \ {c} : reader'[d] = reader[d]
  BY <1>1 DEF AttachLive, AttachReplay, SetReader, worker, broker, store
<1>3. SUFFICES ClientOK(c)'
  BY <1>2, OneView
<1>4. /\ ClientOK(c) /\ r.mode = "away"
      /\ Todo(c) = {} /\ Waiting(c) = {} /\ Has(c) = r.got /\ c \notin listeners'
  BY <1>2, Waits DEF AttachLive, AttachReplay, HInv
<1>5. CASE AttachLive(c)
  <2>1. open /\ reader'[c] = [r EXCEPT !.mode = "opening"]
    BY <1>1, <1>5 DEF AttachLive, SetReader
  <2>2. /\ reader'[c].mode = "opening" /\ reader'[c].todo = r.todo /\ reader'[c].cursor = r.cursor
        /\ reader'[c].got = r.got /\ reader'[c].told = r.told /\ reader'[c].shed = r.shed
    BY <1>1, <2>1 DEF ReaderWith
  <2>3. Todo(c)' = Todo(c) /\ Waiting(c)' = Waiting(c)
    BY <1>4, <2>2, ViewNext DEF Todo
  <2>4. Has(c)' = Has(c) /\ Excused(c) \subseteq Excused(c)'
    BY <2>2, <2>3, ViewNext DEF Has, Excused
  <2>5. InOrder(c)'
    <3>1. Rising(reader[c].todo)'
      BY <1>4, <2>2 DEF ClientOK, InOrder, Rising
    <3> QED
      BY <1>4, <2>2, <2>3, <3>1 DEF ClientOK, InOrder
  <2>6. Gapless(c)'
    BY <1>2, <1>4, <2>4, GaplessKept DEF ClientOK
  <2>7. Behind(c)'
    BY <1>2, <1>4, <2>1, <2>2, <2>4, BehindKept DEF ClientOK
  <2> QED
    BY <1>4, <2>5, <2>6, <2>7 DEF ClientOK, Following
<1>6. CASE AttachReplay(c)
  <2>1. ~open /\ reader'[c] = [r EXCEPT !.mode = "drain", !.todo = SliceAfter(trace, r.cursor)]
    BY <1>1, <1>6 DEF AttachReplay, SetReader
  <2>2. /\ reader'[c].mode = "drain" /\ reader'[c].todo = SliceAfter(trace, r.cursor)
        /\ reader'[c].cursor = r.cursor
        /\ reader'[c].got = r.got /\ reader'[c].told = r.told /\ reader'[c].shed = r.shed
    BY <1>1, <2>1 DEF ReaderWith
  <2>3. /\ trace \in Seq(AnyEvent) /\ r.cursor \in AnyEvent \cup {NoCursor}
        /\ \A e : Contains(trace, e) => e \in AnyEvent
    <3>1. trace \in Seq(Told) /\ Told \subseteq AnyEvent /\ r.cursor \in Told \cup {NoCursor}
      BY Views
    <3>2. trace \in Seq(AnyEvent)
      BY <3>1, SeqMonotonic
    <3> QED
      BY <3>1, <3>2, Held
  <2>4. Rising(trace)
    BY DEF IInv, OrderOK, Chain, Increasing, Rising
  <2>5. /\ Rising(reader'[c].todo)
        /\ \A e : e \in Todo(c)' <=> /\ Contains(trace, e)
                                     /\ r.cursor # NoCursor => Contains(trace, r.cursor) /\ r.cursor < e
    <3>1. /\ Rising(SliceAfter(trace, r.cursor))
          /\ \A e : Contains(SliceAfter(trace, r.cursor), e)
                      <=> /\ Contains(trace, e)
                          /\ r.cursor # NoCursor => Contains(trace, r.cursor) /\ r.cursor < e
      BY <2>3, <2>4, SliceHolds
    <3>2. Todo(c)' = {e \in AnyEvent : Contains(SliceAfter(trace, r.cursor), e)}
      BY <2>2, ViewNext
    <3> HIDE DEF r
    <3> QED
      BY <2>2, <2>3, <3>1, <3>2
  <2>6. \A t \in Todo(c)' : r.cursor < t
    BY <2>3, <2>5, Numbers DEF NoCursor
  <2>7. ASSUME NEW x \in 1..made, NEW g \in Todo(c)', NEW f \in Todo(c)' \cup {r.cursor},
               f \in Has(c)', f < x, x < g
        PROVE  x \in Todo(c)' \cup Excused(c)'
    <3>1. Contains(trace, x) \/ x \in Lost
      BY <2>5, <2>7, TraceGaps
    <3>2. CASE x \in Lost
      BY <3>2, ViewNext
    <3>3. CASE Contains(trace, x)
      <4>1. r.cursor < x
        <5>1. r.cursor \in Nat /\ f \in Nat /\ x \in Nat
          BY <2>3, <2>5, <2>7, Numbers DEF NoCursor
        <5>2. f = r.cursor \/ r.cursor < f
          BY <2>6
        <5> QED
          BY <2>7, <5>1, <5>2
      <4> QED
        BY <2>5, <3>3, <4>1
    <3> QED
      BY <3>1, <3>2, <3>3
  <2>8. Waiting(c)' = {}
    BY <2>2, ViewNext
  <2> HIDE DEF r
  <2>9. /\ InOrder(c)' /\ Gapless(c)' /\ Has(c)' = Has(c) \cup Todo(c)'
    BY <1>2, <1>4, <2>2, <2>5, <2>6, <2>7, <2>8, Resumes DEF r
  <2>10. Behind(c)'
    <3>1. (Todo(c)' \cap Events) \subseteq 1..made
      <4> SUFFICES ASSUME NEW e \in Todo(c)', e \in Events PROVE e \in 1..made
        OBVIOUS
      <4>1. PICK i \in 1..Len(trace) : trace[i] = e
        BY <2>5 DEF Contains
      <4>2. e <= made
        BY <4>1 DEF IInv, OrderOK, Chain, UpTo
      <4> QED
        BY <4>2, Numbers
    <3>2. (Has(c)' \cap Events) \subseteq 1..made'
      BY <1>2, <1>4, <2>9, <3>1 DEF ClientOK, Behind
    <3> QED
      BY <1>2, <2>1, <2>2, <3>2 DEF Behind
  <2> QED
    BY <1>4, <2>9, <2>10 DEF ClientOK, Following
<1> QED
  BY <1>5, <1>6

\* a cursor that is not in the ring, though the ring is up to it, is older than all of the ring
LEMMA EvictedCursor ==
    ASSUME IInv, RingOK, NEW c \in Clients, ClientOK(c), reader[c].mode = "opening", Evicted(reader[c].cursor)
    PROVE  \A b \in Buffered : reader[c].cursor < b
<1> SUFFICES ASSUME NEW b \in Buffered PROVE reader[c].cursor < b
  OBVIOUS
<1>1. /\ reader[c].cursor \in Told /\ reader[c].cursor \notin Buffered /\ Buffered \subseteq Told
      /\ reader[c].cursor \in Has(c) /\ Told \subseteq AnyEvent
  BY Views, RingNumbers DEF Evicted, ClientOK, InOrder, Has
<1>2. PICK last \in Buffered : reader[c].cursor <= last
  BY <1>1 DEF ClientOK, Behind
<1>3. b \in Nat /\ last \in Nat /\ reader[c].cursor \in Nat /\ reader[c].cursor # b /\ reader[c].cursor # last
  BY <1>1, Numbers
<1>4. CASE reader[c].cursor \in Events
  <2>1. reader[c].cursor \in 1..made
    BY <1>1, <1>4 DEF ClientOK, Behind
  <2>2. ~(b < reader[c].cursor)
    BY <1>1, <1>2, <1>3, <2>1 DEF RingOK
  <2> QED
    BY <1>3, <2>2
<1>5. CASE reader[c].cursor \notin Events
  <2>1. /\ reader[c].cursor = Done \/ reader[c].cursor = Cut
        /\ last \in Events \/ last = Done \/ last = Cut
    BY <1>1, <1>5, Numbers
  <2>2. reader[c].cursor = Done /\ last = Cut
    BY <1>2, <1>3, <2>1, Numbers
  <2>3. Done \in Told /\ Cut \in Told
    BY <1>1, <2>2
  <2> QED
    BY <2>3 DEF Told
<1> QED
  BY <1>4, <1>5

LEMMA SubscribeView ==
    ASSUME IInv, IInv', HInv, Lost \subseteq Lost', NEW c \in Clients, Subscribe(c)
    PROVE  HInv'
<1> DEFINE r == reader[c]
           s == Snapshot(r)
<1>1. /\ reader \in [Clients -> ReaderWith(Told)] /\ r \in ReaderWith(Told)
      /\ queue \in [Clients -> Seq(Told \cup {Sentinel})] /\ open \in BOOLEAN
  BY DEF IInv, FanOutOK, FanOut, BrokerWith
<1>2. /\ UNCHANGED <<open, ring, made, phase>> /\ r.mode = "opening"
      /\ \A d \in Clients \ {c} : /\ reader'[d] = reader[d] /\ queue'[d] = queue[d]
                                  /\ d \in listeners' => d \in listeners
      /\ listeners' = (IF open THEN listeners \cup {c} ELSE listeners) /\ queue'[c] = <<>>
      /\ reader'[c] = [s EXCEPT !.mode = IF open THEN "live" ELSE "drain"]
  BY <1>1 DEF Subscribe, SetReader, worker
<1>3. SUFFICES ClientOK(c)'
  BY <1>2, OneView
<1>4. /\ ClientOK(c) /\ RingOK
      /\ Todo(c) = {} /\ Waiting(c) = {} /\ Has(c) = r.got /\ c \notin listeners
  BY <1>2, Waits DEF HInv
<1>5. /\ r.cursor \in Told \cup {NoCursor} /\ ring \in Seq(Told) /\ Told \subseteq AnyEvent
      /\ Buffered \subseteq AnyEvent /\ \A e : e \in Buffered <=> Contains(ring, e)
  BY Views, RingNumbers
<1>6. /\ s.cursor = r.cursor /\ s.got = r.got /\ s.shed = r.shed /\ s.mode = r.mode
      /\ s.todo = (IF Evicted(r.cursor) THEN ring ELSE SliceAfter(ring, r.cursor))
      /\ s.told = (IF Evicted(r.cursor) THEN r.told \cup ((1..made) \ ToSet(ring)) ELSE r.told)
      /\ s \in [mode : {"opening"}, todo : {s.todo}, cursor : {s.cursor}, got : {s.got},
                told : {s.told}, shed : {s.shed}]
  BY <1>1, <1>2 DEF Snapshot, ReaderWith
<1> HIDE DEF s
<1>7. /\ reader'[c].mode = (IF open THEN "live" ELSE "drain") /\ reader'[c].todo = s.todo
      /\ reader'[c].cursor = r.cursor /\ reader'[c].got = r.got /\ reader'[c].shed = r.shed
      /\ reader'[c].told = s.told
  BY <1>2, <1>6
<1>8. Evicted(r.cursor) => \A x \in 1..made : x \in Buffered \/ x \in s.told
  <2> SUFFICES ASSUME Evicted(r.cursor), NEW x \in 1..made, x \notin s.told PROVE Contains(ring, x)
    BY <1>5
  <2>1. x \in ToSet(ring)
    BY <1>6
  <2>2. \A e \in ToSet(ring) : Contains(ring, e)
    BY <1>5 DEF ToSet, Contains
  <2> QED
    BY <2>1, <2>2
<1>9. /\ Rising(s.todo)
      /\ \A e : Contains(s.todo, e) <=> /\ e \in Buffered
                                        /\ Evicted(r.cursor) \/ (r.cursor # NoCursor => r.cursor < e)
  <2>1. CASE Evicted(r.cursor)
    BY <1>4, <1>5, <1>6, <2>1 DEF RingOK
  <2>2. CASE ~Evicted(r.cursor)
    <3>1. ring \in Seq(AnyEvent) /\ r.cursor \in AnyEvent \cup {NoCursor} /\ Rising(ring)
      BY <1>4, <1>5, SeqMonotonic DEF RingOK
    <3>2. /\ Rising(SliceAfter(ring, r.cursor))
          /\ \A e : Contains(SliceAfter(ring, r.cursor), e)
                      <=> Contains(ring, e) /\ (r.cursor # NoCursor => Contains(ring, r.cursor) /\ r.cursor < e)
      BY <3>1, SliceHolds
    <3>3. r.cursor # NoCursor => Contains(ring, r.cursor)
      BY <2>2 DEF Evicted
    <3> HIDE DEF r
    <3> QED
      BY <1>5, <1>6, <2>2, <3>2, <3>3
  <2> QED
    BY <2>1, <2>2
<1>10. \A e : e \in Todo(c)' <=> /\ e \in Buffered
                                 /\ Evicted(r.cursor) \/ (r.cursor # NoCursor => r.cursor < e)
  <2>1. Todo(c)' = {e \in AnyEvent : Contains(s.todo, e)}
    BY <1>7, ViewNext
  <2> HIDE DEF r
  <2> QED
    BY <1>5, <1>9, <2>1
<1>11. \A t \in Todo(c)' : r.cursor < t
  <2>1. CASE Evicted(r.cursor)
    BY <1>2, <1>4, <1>10, <2>1, EvictedCursor
  <2>2. CASE ~Evicted(r.cursor)
    BY <1>5, <1>10, <2>2, Numbers DEF NoCursor
  <2> QED
    BY <2>1, <2>2
<1>12. Waiting(c)' = {}
  <2>1. \A e : ~Contains(<<>>, e)
    BY <1>5, Held
  <2> QED
    BY <1>2, <2>1, ViewNext
<1>13. Excused(c)' = s.told \cup r.shed \cup Lost'
  BY <1>7, ViewNext
\* a cursor in the ring, or none: the ring has what comes next
<1>14. ASSUME ~Evicted(r.cursor), NEW x \in 1..made, NEW f \in Todo(c)' \cup {r.cursor}, f \in Has(c)', f < x,
              open \/ \E g \in Buffered : x < g
       PROVE  x \in Todo(c)'
  <2>1. f \in Buffered
    <3>1. CASE f \in Todo(c)'
      BY <1>10, <3>1
    <3>2. CASE f = r.cursor /\ f \notin Todo(c)'
      <4>1. f \in AnyEvent
        <5>1. Has(c)' = r.got \cup Todo(c)'
          BY <1>7, <1>12, ViewNext
        <5>2. r.got \subseteq AnyEvent
          BY <1>5, Views
        <5> QED
          BY <1>14, <3>2, <5>1, <5>2
      <4>2. f # NoCursor
        BY <4>1, Numbers DEF NoCursor
      <4> QED
        BY <1>5, <1>14, <3>2, <4>2 DEF Evicted
    <3> QED
      BY <3>1, <3>2
  <2>2. x \in Buffered
    BY <1>4, <1>14, <2>1 DEF RingOK
  <2>3. r.cursor < x
    <3>1. r.cursor \in Nat
      BY <1>5, Numbers DEF NoCursor
    <3>2. f \in Nat /\ x \in Nat
      BY <1>5, <2>1, <2>2, Numbers
    <3>3. f = r.cursor \/ r.cursor < f
      BY <1>11
    <3> QED
      BY <1>14, <3>1, <3>2, <3>3
  <2> QED
    BY <1>10, <2>2, <2>3
<1>15. ASSUME Evicted(r.cursor), NEW x \in 1..made PROVE x \in Todo(c)' \cup Excused(c)'
  BY <1>8, <1>10, <1>13, <1>15
<1>16. \A x \in 1..made, g \in Todo(c)', f \in Todo(c)' \cup {r.cursor} :
          f \in Has(c)' /\ f < x /\ x < g => x \in Todo(c)' \cup Excused(c)'
  BY <1>10, <1>14, <1>15
<1> HIDE DEF r
<1>17. /\ InOrder(c)' /\ Gapless(c)' /\ Has(c)' = Has(c) \cup Todo(c)' /\ Excused(c) \subseteq Excused(c)'
       /\ r.told \subseteq s.told
  <2>1. r.told \subseteq s.told
    BY <1>6
  <2>2. reader'[c].mode \in {"live", "drain"}
    BY <1>7
  <2> QED
    BY <1>2, <1>4, <1>7, <1>9, <1>11, <1>12, <1>16, <2>1, <2>2, Resumes DEF r
<1>18. Following(c)'
  <2> SUFFICES ASSUME c \in listeners'
               PROVE  /\ open' /\ reader'[c].mode = "live"
                      /\ \A x \in 1..made, f \in Has(c)' : f < x => x \in Has(c)' \cup Excused(c)'
    BY <1>2 DEF Following
  <2>1. open /\ open' /\ reader'[c].mode = "live"
    BY <1>2, <1>4, <1>7
  <2> SUFFICES ASSUME NEW x \in 1..made, NEW f \in Has(c)', f < x
               PROVE  x \in Has(c)' \cup Excused(c)'
    BY <2>1
  <2>2. CASE Evicted(r.cursor)
    BY <1>15, <1>17, <2>2
  <2>3. CASE ~Evicted(r.cursor) /\ f \in Todo(c)'
    BY <1>14, <1>17, <2>1, <2>3
  <2>4. CASE ~Evicted(r.cursor) /\ f \in Has(c)
    <3>1. /\ f \in Nat /\ x \in Nat /\ f >= 1 /\ r.cursor \in Nat /\ f <= r.cursor
          /\ r.cursor \in Has(c) \cup {0}
      BY <1>4, <1>5, <2>4, Views, Numbers DEF NoCursor, ClientOK, InOrder, r
    <3>2. r.cursor \in Has(c)
      BY <3>1
    <3>3. CASE x < r.cursor
      BY <1>4, <1>17, <2>4, <3>2, <3>3 DEF ClientOK, Gapless
    <3>4. CASE x = r.cursor
      BY <1>17, <3>2, <3>4
    <3>5. CASE r.cursor < x
      BY <1>14, <1>17, <2>1, <2>4, <3>2, <3>5
    <3> QED
      BY <3>1, <3>3, <3>4, <3>5
  <2> QED
    BY <1>17, <2>2, <2>3, <2>4
<1>19. Behind(c)'
  <2>1. Buffered' = Buffered /\ Todo(c)' \subseteq Buffered
    BY <1>2, <1>10, RingNext
  <2>2. (Has(c)' \cap Events) \subseteq 1..made'
    BY <1>2, <1>4, <1>17, <2>1 DEF ClientOK, Behind, RingOK
  <2>3. \A e \in Has(c)' : \E last \in Buffered : e <= last
    <3> SUFFICES ASSUME NEW e \in Has(c)' PROVE \E last \in Buffered : e <= last
      OBVIOUS
    <3>1. CASE e \in Has(c)
      BY <1>2, <1>4, <3>1 DEF ClientOK, Behind, r
    <3>2. CASE e \in Todo(c)'
      <4>1. e \in Buffered /\ e <= e
        BY <1>5, <2>1, <3>2, Numbers
      <4> QED
        BY <4>1
    <3> QED
      BY <1>17, <3>1, <3>2
  <2>4. open' /\ phase' \in Fresh => Has(c)' \subseteq Events
    BY <1>2, <1>4, <1>17, <2>1 DEF ClientOK, Behind, RingOK
  <2>5. open' => reader'[c].mode # "drain"
    BY <1>2, <1>7
  <2> QED
    BY <2>1, <2>2, <2>3, <2>4, <2>5 DEF Behind
<1> QED
  BY <1>17, <1>18, <1>19 DEF ClientOK

LEMMA DisconnectView ==
    ASSUME IInv, IInv', HInv, Lost \subseteq Lost', NEW c \in Clients, Disconnect(c)
    PROVE  HInv'
<1>1. /\ UNCHANGED <<open, ring, made, phase>> /\ listeners' = listeners \ {c}
      /\ reader' = [reader EXCEPT ![c] = Left(reader[c])] /\ queue' = [queue EXCEPT ![c] = <<>>]
  BY DEF Disconnect, SetReader, worker
<1>2. reader \in [Clients -> ReaderWith(Told)] /\ queue \in [Clients -> Seq(Told \cup {Sentinel})]
  BY DEF IInv, FanOutOK, FanOut, BrokerWith
<1>3. /\ reader'[c] = Left(reader[c]) /\ c \notin listeners'
      /\ \A d \in Clients \ {c} : /\ reader'[d] = reader[d] /\ queue'[d] = queue[d]
                                  /\ d \in listeners' => d \in listeners
  BY <1>1, <1>2
<1>4. ClientOK(c)'
  BY <1>1, <1>3, Leaves DEF HInv
<1> QED
  BY <1>1, <1>3, <1>4, OneView

----------------------------------------------------------------------------
(* No hole without a reason                                                *)

LEMMA InitViews == Init => HInv
<1> SUFFICES ASSUME Init PROVE HInv
  OBVIOUS
<1>1. \A e : ~Contains(<<>>, e)
  BY EmptySeq DEF Contains
<1>2. Rising(<<>>)
  BY EmptySeq DEF Rising
<1>3. Buffered = {}
  BY <1>1 DEF Init, Buffered
<1>4. RingOK
  BY <1>2, <1>3 DEF Init, RingOK
<1>5. ASSUME NEW c \in Clients PROVE ClientOK(c)
  <2>1. /\ reader[c].mode = "away" /\ reader[c].todo = <<>> /\ reader[c].cursor = NoCursor
        /\ reader[c].got = {} /\ listeners = {}
    BY DEF Init
  <2>2. Todo(c) = {} /\ Waiting(c) = {} /\ Has(c) = {}
    BY <1>1, <2>1 DEF Todo, Waiting, Has
  <2> QED
    BY <1>2, <2>1, <2>2 DEF ClientOK, InOrder, Gapless, Following, Behind
<1> QED
  BY <1>4, <1>5 DEF HInv

LEMMA StepViews == IInv /\ IInv' /\ HInv /\ [Next]_vars => HInv'
<1>1. ASSUME IInv, IInv', HInv, Next PROVE HInv'
  <2>1. Lost \subseteq Lost' /\ (phase' \in Fresh => phase \in Fresh)
    BY <1>1, LostGrows, FreshEnds
  <2>2. CASE Emit
    <3>1. /\ made < MaxEvents /\ made' = made + 1 /\ phase = "stream" /\ phase' = phase
          /\ Publish(made + 1)
      BY <2>2 DEF Emit
    <3>2. phase \in Early
      BY <3>1 DEF Early
    <3>3. Newest(made + 1)
      <4>1. made + 1 \in Events
        BY <1>1, <3>1, Numbers, StreamAssumption DEF Events
      <4>2. Buffered \subseteq 1..made
        BY <1>1, <3>2, RingNumbers, EarlyEvents DEF HInv, RingOK
      <4>3. \A b \in Buffered : b < made + 1
        BY <1>1, <4>2, Numbers
      <4> QED
        BY <1>1, <3>1, <4>1, <4>3, Numbers DEF Newest
    <3> QED
      BY <1>1, <2>1, <3>1, <3>2, <3>3, PublishView
  <2>3. CASE AnnounceCut
    <3>1. phase = "cut" /\ phase' = "settle" /\ made' = made /\ Publish(Cut)
      BY <2>3 DEF AnnounceCut
    <3>2. phase' \notin Fresh /\ phase \in Early
      BY <3>1 DEF Fresh, Early
    <3>3. \A b \in Buffered : b < Cut
      BY <1>1, <3>2, RingNumbers, EarlyEvents, Numbers
    <3>4. Newest(Cut)
      BY <1>1, <3>1, <3>2, <3>3, Numbers DEF Newest
    <3> QED
      BY <1>1, <2>1, <3>1, <3>4, PublishView
  <2>4. CASE AnnounceEnd
    <3>1. phase = "announce" /\ phase' = "wrap" /\ made' = made /\ Publish(EndOf(row.status))
      BY <2>4 DEF AnnounceEnd
    <3>2. phase' \notin Fresh /\ phase \in Fresh
      BY <3>1 DEF Fresh, Early
    <3>3. CASE open
      <4>1. EndOf(row.status) = Done \/ EndOf(row.status) = Cut
        BY DEF EndOf
      <4>2. Buffered \subseteq Events
        BY <1>1, <3>2, <3>3 DEF HInv, RingOK
      <4>3. \A b \in Buffered : b < EndOf(row.status)
        BY <1>1, <4>1, <4>2, Numbers
      <4>4. Newest(EndOf(row.status))
        BY <1>1, <3>1, <3>2, <4>1, <4>3, Numbers DEF Newest
      <4> QED
        BY <1>1, <2>1, <3>1, <4>4, PublishView
    <3>4. CASE ~open
      <4>1. UNCHANGED <<open, ring, listeners, queue, reader>>
        BY <3>1, <3>4 DEF Publish, broker
      <4> QED
        BY <1>1, <2>1, <3>1, <4>1, QuietView
    <3> QED
      BY <3>3, <3>4
  <2>5. CASE WrapUp \/ ForceClose
    <3>1. CloseBroker /\ made' = made
      BY <2>5 DEF WrapUp, ForceClose, worker
    <3> QED
      BY <1>1, <2>1, <3>1, ClosedView
  <2>6. CASE Crash
    BY <1>1, <2>1, <2>6, CrashView
  <2>7. CASE \/ FlushChunk \/ Exhaust \/ CancelExecutor \/ CloseDelivery \/ CancelClose \/ CommitOutcome
             \/ Abort \/ Stop \/ Age \/ SweepStale \/ \E c \in Clients : AttachStale(c)
    <3>1. UNCHANGED <<open, ring, listeners, queue, reader>> /\ made' = made
      BY <2>7 DEF FlushChunk, Exhaust, HoldTerminal, CancelExecutor, CloseDelivery, CancelClose, CommitOutcome,
                  Abort, Stop, Age, SweepStale, AttachStale, broker, worker
    <3> QED
      BY <1>1, <2>1, <3>1, QuietView
  <2>8. ASSUME NEW c \in Clients,
               AttachLive(c) \/ AttachReplay(c) \/ Subscribe(c) \/ Read(c) \/ Disconnect(c)
        PROVE  HInv'
    BY <1>1, <2>1, <2>8, AttachView, SubscribeView, ReadView, DisconnectView
  <2> QED
    BY <1>1, <2>2, <2>3, <2>4, <2>5, <2>6, <2>7, <2>8 DEF Next, WorkerStep, Attach
<1>2. ASSUME HInv, UNCHANGED vars PROVE HInv'
  <2>1. /\ Buffered' = Buffered /\ Lost' = Lost
        /\ \A c \in Clients : Todo(c)' = Todo(c) /\ Waiting(c)' = Waiting(c)
    BY <1>2 DEF vars, Buffered, Lost, Todo, Waiting, Contains
  <2>2. \A c \in Clients : Has(c)' = Has(c) /\ Excused(c)' = Excused(c)
    BY <1>2, <2>1 DEF vars, Has, Excused
  <2>3. RingOK'
    BY <1>2, <2>1 DEF vars, HInv, RingOK, Rising
  <2>4. ASSUME NEW c \in Clients PROVE ClientOK(c)'
    <3>1. InOrder(c)'
      BY <1>2, <2>1 DEF vars, HInv, ClientOK, InOrder, Rising
    <3>2. Gapless(c)' /\ Following(c)' /\ Behind(c)'
      BY <1>2, <2>1, <2>2 DEF vars, HInv, ClientOK, Gapless, Following, Behind
    <3> QED
      BY <3>1, <3>2 DEF ClientOK
  <2> QED
    BY <2>3, <2>4 DEF HInv
<1> QED
  BY <1>1, <1>2

LEMMA HolesFollow == IInv /\ HInv => HolesAreExplained
<1> SUFFICES ASSUME IInv, HInv, NEW c \in Clients, NEW e \in Missed(c)
             PROVE  e \in Excused(c)
  BY DEF HolesAreExplained, Excused
<1>1. PICK f \in reader[c].got, g \in reader[c].got : f < e /\ e < g
  BY DEF Missed
<1>2. e \in 1..made /\ e \notin reader[c].got
  BY DEF Missed
<1>3. e \in Has(c) \cup Excused(c)
  BY <1>1, <1>2 DEF Has, HInv, ClientOK, Gapless
<1>4. e \notin Todo(c) \cup Waiting(c)
  <2>1. g <= reader[c].cursor /\ \A x \in Todo(c) \cup Waiting(c) : reader[c].cursor < x
    BY DEF HInv, ClientOK, InOrder
  <2>2. g \in Nat /\ e \in Nat /\ reader[c].cursor \in Nat
    BY <1>2, Views, Numbers DEF NoCursor
  <2> QED
    BY <1>1, <2>1, <2>2
<1> QED
  BY <1>2, <1>3, <1>4 DEF Has

(* Whatever a client misses between two events it has received, a gap      *)
(* marker announced, the trace lost, or the broker shed from its full      *)
(* queue: for any sizes of ring and queues, any number of reconnections,   *)
(* failed writes and closed brokers.                                       *)
THEOREM HolesStayExplained == Spec => []HolesAreExplained
<1>1. Init => HInv
  BY InitViews
<1>2. IInv /\ IInv' /\ HInv /\ [Next]_vars => HInv'
  BY StepViews
<1>3. IInv /\ HInv => HolesAreExplained
  BY HolesFollow
<1> QED
  BY <1>1, <1>2, <1>3, Invariance, PTL DEF Spec

----------------------------------------------------------------------------
(* The stream implements StreamContract                                    *)

LEMMA ComingIs ==
    ASSUME NEW c \in Clients
    PROVE  Coming(c) = Todo(c) \cup Waiting(c) /\ Coming(c)' = Todo(c)' \cup Waiting(c)'
BY DEF Coming, Todo, Waiting

\* an event that may be told is one that was emitted, or the end
LEMMA ToldIsKnown ==
    ASSUME IInv, NEW e \in Told, e \in Events => e <= made
    PROVE  e \in 1..made \/ e = Verdict
<1>1. CASE e \in Events
  BY <1>1, Numbers
<1>2. CASE e \in Ends
  BY <1>2 DEF Told, Verdict, Ends
<1> QED
  BY <1>1, <1>2 DEF Told, AnyEvent

ComingOK == \A c \in Clients : \A e \in Coming(c) : /\ e \in 1..made \/ e = Verdict
                                                  /\ reader[c].cursor < e

LEMMA ComingKnown == IInv /\ HInv => ComingOK
<1> SUFFICES ASSUME IInv, HInv, NEW c \in Clients, NEW e \in Coming(c)
             PROVE  (e \in 1..made \/ e = Verdict) /\ reader[c].cursor < e
  BY DEF ComingOK
<1>1. e \in Has(c) /\ e \in Told
  BY ComingIs, Views DEF Has
<1>2. e \in Events => e <= made
  BY <1>1, Numbers DEF HInv, ClientOK, Behind
<1>3. reader[c].cursor < e
  BY ComingIs DEF HInv, ClientOK, InOrder
<1> QED
  BY <1>1, <1>2, <1>3, ToldIsKnown

\* what is decided is decided for good
LEMMA VerdictStays ==
    ASSUME IInv, Told \subseteq Told', phase \notin Early
    PROVE  phase' \notin Early /\ Verdict' = Verdict
<1>1. Verdict \in Ends /\ Verdict \in Told /\ Verdict # NoCursor
  BY EventNumbers DEF Verdict, Told, Ends, AnyEvent, NoCursor
<1>2. Verdict \in Told'
  BY <1>1
<1>3. phase' \notin Early /\ (Verdict = Done => row'.status = "completed")
                         /\ (Verdict = Cut => row'.status # "completed")
  BY <1>1, <1>2 DEF Told
<1> QED
  BY <1>1, <1>3, EventNumbers DEF Verdict, Ends

LEMMA StreamInit == Init => Stream!Init
<1> SUFFICES ASSUME Init PROVE Stream!Init
  OBVIOUS
<1>1. \A c \in Clients : reader[c].cursor = NoCursor /\ reader[c].todo = <<>> /\ reader[c].mode = "away"
  BY DEF Init
<1>2. \A c \in Clients : Coming(c) = {}
  BY <1>1 DEF Coming, Contains
<1>3. made = 0 /\ Verdict = 0
  BY DEF Init, Verdict, Early, NoCursor
<1> QED
  BY <1>1, <1>2, <1>3 DEF Stream!Init, Stream!Nothing, NoCursor

\* a step that gives no event to a client changes nothing but what is on its way, or emits, or
\* settles the end
LEMMA SteppedOn ==
    ASSUME IInv, ComingOK', Told \subseteq Told',
           \A c \in Clients : reader'[c].cursor = reader[c].cursor,
           \/ made' = made
           \/ phase \in Early /\ phase' \in Early /\ made < MaxEvents /\ made' = made + 1
    PROVE  Stream!Next
<1>1. Stream!Routed
  <2>1. \A c \in Clients : \A e \in Coming(c)' : /\ e \in 1..made' \/ e = Verdict'
                                               /\ reader[c].cursor < e
    BY DEF ComingOK
  <2> QED
    BY <2>1 DEF Stream!Routed
<1>2. [c \in Clients |-> reader[c].cursor]' = [c \in Clients |-> reader[c].cursor]
  OBVIOUS
<1>3. CASE made' = made /\ Verdict' = Verdict
  BY <1>1, <1>2, <1>3 DEF Stream!Next, Stream!Route
<1>4. CASE phase \in Early /\ phase' \in Early /\ made < MaxEvents /\ made' = made + 1
  <2>1. Verdict = NoCursor /\ Verdict' = NoCursor
    BY <1>4 DEF Verdict
  <2> QED
    BY <1>1, <1>2, <1>4, <2>1 DEF Stream!Next, Stream!Emit, Stream!Nothing, NoCursor
<1>5. CASE made' = made /\ Verdict' # Verdict
  <2>1. phase \in Early /\ phase' \notin Early
    BY <1>5, VerdictStays DEF Verdict
  <2>2. Verdict = NoCursor /\ Verdict' \in Ends
    BY <2>1 DEF Verdict, Ends
  <2>3. Stream!Settle(Verdict')
    BY <1>1, <1>2, <1>5, <2>2 DEF Stream!Settle, Stream!Nothing, NoCursor
  <2> QED
    BY <2>2, <2>3 DEF Stream!Next
<1> QED
  BY <1>3, <1>4, <1>5

LEMMA ReadReceives ==
    ASSUME IInv, HInv, ComingOK', Told \subseteq Told', NEW c \in Clients, Read(c)
    PROVE  Stream!Next
<1>1. /\ UNCHANGED <<made, phase, row>>
      /\ \A d \in Clients \ {c} : reader'[d] = reader[d] /\ queue'[d] = queue[d]
      /\ \/ reader'[c] = Left(reader[c])
         \/ \E e \in AnyEvent : Taken(c, e)
  BY ReadKinds
<1>2. CASE reader'[c] = Left(reader[c])
  <2>1. reader[c] \in ReaderWith(Told)
    BY DEF IInv, FanOutOK, FanOut
  <2>2. reader'[c].cursor = reader[c].cursor
    BY <1>2, <2>1 DEF Left, ReaderWith
  <2>3. \A d \in Clients : reader'[d].cursor = reader[d].cursor
    BY <1>1, <2>2
  <2> QED
    BY <1>1, <2>3, SteppedOn
<1>3. ASSUME NEW e \in AnyEvent, Taken(c, e) PROVE Stream!Next
  <2>1. Coming(c) = Coming(c)' \cup {e} /\ \A x \in Coming(c)' : e < x
    BY <1>3, ComingIs DEF Taken
  <2>2. \A x \in Coming(c)' : x \in Nat
    BY EventNumbers DEF Coming
  <2>3. Coming(c)' = Coming(c) \ {e} /\ e \in Coming(c) /\ \A f \in Coming(c) : e <= f
    BY <2>1, <2>2, EventNumbers
  <2>4. \A d \in Clients \ {c} : Coming(d)' = Coming(d) /\ reader'[d].cursor = reader[d].cursor
    BY <1>1 DEF Coming, Contains
  <2>5. [d \in Clients |-> Coming(d)]' = [[d \in Clients |-> Coming(d)] EXCEPT ![c] = @ \ {e}]
    BY <2>3, <2>4
  <2>6. [d \in Clients |-> reader[d].cursor]' = [[d \in Clients |-> reader[d].cursor] EXCEPT ![c] = e]
    BY <1>3, <2>4 DEF Taken
  <2>7. Verdict' = Verdict
    BY <1>1 DEF Verdict
  <2>8. Stream!Receive(c, e)
    BY <1>1, <2>3, <2>5, <2>6, <2>7 DEF Stream!Receive
  <2> QED
    BY <2>3, <2>8 DEF Stream!Next
<1> QED
  BY <1>1, <1>2, <1>3

\* a client's last event id is changed by the events it receives and by nothing else
LEMMA CursorStays ==
    ASSUME IInv, NEW d \in Clients,
           \/ \E e \in AnyEvent : Publish(e)
           \/ CloseBroker
           \/ UNCHANGED reader
           \/ Crash
           \/ \E c \in Clients : AttachLive(c) \/ AttachReplay(c) \/ Subscribe(c) \/ Disconnect(c)
    PROVE  reader'[d].cursor = reader[d].cursor
<1>1. reader \in [Clients -> ReaderWith(Told)]
  BY DEF IInv, FanOutOK, FanOut
<1>2. \A c \in Clients : reader[c] \in ReaderWith(Told)
  BY <1>1
<1>3. ASSUME NEW S, Shed(S) PROVE reader'[d].cursor = reader[d].cursor
  BY <1>2, <1>3 DEF Shed, ReaderWith
<1>4. CASE \/ \E e \in AnyEvent : Publish(e)
           \/ CloseBroker
           \/ UNCHANGED reader
  BY <1>3, <1>4 DEF Publish, CloseBroker
<1>5. CASE Crash
  BY <1>2, <1>5 DEF Crash, ReaderWith
<1>6. ASSUME NEW c \in Clients, AttachLive(c) \/ AttachReplay(c) \/ Subscribe(c) \/ Disconnect(c)
      PROVE  reader'[d].cursor = reader[d].cursor
  <2>1. CASE AttachLive(c) \/ AttachReplay(c)
    <3>1. CASE AttachLive(c)
      BY <1>1, <1>2, <3>1 DEF AttachLive, SetReader, ReaderWith
    <3>2. CASE AttachReplay(c)
      <4> DEFINE after == SliceAfter(trace, reader[c].cursor)
      <4>1. reader' = [reader EXCEPT ![c] = [reader[c] EXCEPT !.mode = "drain", !.todo = after]]
        BY <3>2 DEF AttachReplay, SetReader
      <4> HIDE DEF after
      <4> QED
        BY <1>1, <1>2, <4>1 DEF ReaderWith
    <3> QED
      BY <2>1, <3>1, <3>2
  <2>2. CASE Disconnect(c)
    BY <1>1, <1>2, <2>2 DEF Disconnect, SetReader, Left, ReaderWith
  <2>3. CASE Subscribe(c)
    <3>1. Snapshot(reader[c]).cursor = reader[c].cursor
      BY <1>2 DEF Snapshot, ReaderWith
    <3>2. [Snapshot(reader[c]) EXCEPT !.mode = IF open THEN "live" ELSE "drain"].cursor
              = Snapshot(reader[c]).cursor
      BY <1>2 DEF Snapshot, ReaderWith
    <3>3. reader'[c].cursor = reader[c].cursor /\ \A q \in Clients \ {c} : reader'[q] = reader[q]
      BY <1>1, <2>3, <3>1, <3>2 DEF Subscribe, SetReader
    <3> QED
      BY <3>3
  <2> QED
    BY <1>6, <2>1, <2>2, <2>3
<1> QED
  BY <1>4, <1>5, <1>6

LEMMA StreamNext ==
    IInv /\ HInv /\ ComingOK' /\ [Next]_vars => [Stream!Next]_(Stream!vars)
<1> SUFFICES ASSUME IInv, HInv, ComingOK', [Next]_vars PROVE [Stream!Next]_(Stream!vars)
  OBVIOUS
<1>1. CASE UNCHANGED vars
  <2>1. UNCHANGED <<made, phase, row, reader, queue>>
    BY <1>1 DEF vars
  <2>2. Verdict' = Verdict
    BY <2>1 DEF Verdict
  <2>3. \A c \in Clients : Coming(c)' = Coming(c)
    BY <2>1 DEF Coming, Contains
  <2> QED
    BY <2>1, <2>2, <2>3 DEF Stream!vars
<1>2. CASE Next
  <2>1. Told \subseteq Told'
    BY <1>2, TruthKept DEF IInv
  <2>2. CASE Emit
    <3>1. phase \in Early /\ phase' \in Early /\ made < MaxEvents /\ made' = made + 1
      BY <2>2 DEF Emit, Early
    <3>2. made + 1 \in AnyEvent
      BY <2>2, Numbers, EventNumbers DEF Emit, Events, AnyEvent
    <3>3. Publish(made + 1)
      BY <2>2 DEF Emit
    <3>4. \A c \in Clients : reader'[c].cursor = reader[c].cursor
      BY <3>2, <3>3, CursorStays
    <3> QED
      BY <2>1, <3>1, <3>4, SteppedOn
  <2>3. ASSUME NEW c \in Clients, Read(c) PROVE Stream!Next
    BY <2>1, <2>3, ReadReceives
  <2>4. CASE AnnounceCut \/ AnnounceEnd
    <3>1. made' = made
      BY <2>4 DEF AnnounceCut, AnnounceEnd
    <3>2. \E e \in AnyEvent : Publish(e)
      BY <2>4, Numbers DEF AnnounceCut, AnnounceEnd, EndOf
    <3>3. \A c \in Clients : reader'[c].cursor = reader[c].cursor
      BY <3>2, CursorStays
    <3> QED
      BY <2>1, <3>1, <3>3, SteppedOn
  <2>5. CASE WrapUp \/ ForceClose
    <3>1. made' = made /\ CloseBroker
      BY <2>5 DEF WrapUp, ForceClose, worker
    <3>2. \A c \in Clients : reader'[c].cursor = reader[c].cursor
      BY <3>1, CursorStays
    <3> QED
      BY <2>1, <3>1, <3>2, SteppedOn
  <2>6. CASE \/ FlushChunk \/ Exhaust \/ CancelExecutor \/ CloseDelivery \/ CancelClose \/ CommitOutcome
             \/ Abort \/ Stop \/ Age \/ SweepStale \/ \E c \in Clients : AttachStale(c)
    <3>1. made' = made /\ UNCHANGED reader
      BY <2>6 DEF FlushChunk, Exhaust, HoldTerminal, CancelExecutor, CloseDelivery, CancelClose, CommitOutcome,
                  Abort, Stop, Age, SweepStale, AttachStale, broker, worker
    <3> QED
      BY <2>1, <3>1, SteppedOn
  <2>7. CASE Crash \/ \E c \in Clients : AttachLive(c) \/ AttachReplay(c) \/ Subscribe(c) \/ Disconnect(c)
    <3>1. made' = made
      BY <2>7 DEF Crash, AttachLive, AttachReplay, Subscribe, Disconnect, worker
    <3>2. \A c \in Clients : reader'[c].cursor = reader[c].cursor
      BY <2>7, CursorStays
    <3> QED
      BY <2>1, <3>1, <3>2, SteppedOn
  <2> QED
    BY <1>2, <2>2, <2>3, <2>4, <2>5, <2>6, <2>7 DEF Next, WorkerStep, Attach
<1> QED
  BY <1>1, <1>2

(* A client receives the events of the run in their order and none twice,  *)
(* however often it reconnects and is moved between ring, queue and trace; *)
(* and, as its last one, the end that was settled.                         *)
THEOREM StreamKept == Spec => KeepsStream
<1>1. Init => HInv
  BY InitViews
<1>2. IInv /\ IInv' /\ HInv /\ [Next]_vars => HInv'
  BY StepViews
<1> QED
  BY <1>1, <1>2, Invariance, ComingKnown, StreamInit, StreamNext, PTL
     DEF Spec, KeepsStream, Stream!Spec

----------------------------------------------------------------------------
(* No response waits on a queue nobody feeds                               *)

\* a queue that ends with the sentinel
Closing(s) == s # <<>> /\ s[Len(s)] = Sentinel

(* A response that follows the broker is fed by it or has the end of the   *)
(* response in its queue, also when it was dropped because its queue was   *)
(* full; and the broker of a task that ended or died feeds no one.         *)
EveryoneIsServed ==
    /\ \A c \in Clients : reader[c].mode = "live" => c \in listeners \/ Closing(queue[c])
    /\ phase \in {"over", "dead"} => ~open

Served(c) == reader[c].mode = "live" => c \in listeners \/ Closing(queue[c])

LEMMA SentinelLast == ASSUME IInv, NEW c \in Clients PROVE Closing(WithSentinel(c))
<1>1. PICK q \in Seq(Told \cup {Sentinel}) : WithSentinel(c) = Append(q, Sentinel)
  <2>1. queue[c] \in Seq(Told \cup {Sentinel}) /\ QueueSize \in Nat \ {0}
    BY Views, StreamAssumption
  <2>2. CASE Full(c)
    <3>1. Tail(queue[c]) \in Seq(Told \cup {Sentinel})
      BY <2>1, <2>2, EmptySeq, HeadTailProperties DEF Full
    <3> QED
      BY <2>2, <3>1 DEF WithSentinel
  <2>3. CASE ~Full(c)
    BY <2>1, <2>3 DEF WithSentinel
  <2> QED
    BY <2>2, <2>3
<1>2. /\ Len(Append(q, Sentinel)) = Len(q) + 1 /\ Len(q) \in Nat
      /\ Append(q, Sentinel)[Len(q) + 1] = Sentinel
  BY AppendProperties, EventNumbers
<1>3. Append(q, Sentinel) # <<>>
  BY <1>2, EmptySeq
<1> QED
  BY <1>1, <1>2, <1>3 DEF Closing

\* publishing and closing drop a listener only with the sentinel
LEMMA DroppedWithSentinel ==
    ASSUME IInv, NEW c \in Clients, Served(c), NEW gone, gone \subseteq listeners,
           listeners' = listeners \ gone,
           c \in gone => queue'[c] = WithSentinel(c),
           c \notin listeners => queue'[c] = queue[c],
           reader'[c].mode = reader[c].mode
    PROVE  Served(c)'
<1>1. CASE c \in gone
  BY <1>1, SentinelLast DEF Served, Closing
<1>2. CASE c \notin gone
  BY <1>2 DEF Served, Closing
<1> QED
  BY <1>1, <1>2

LEMMA ModesStay ==
    ASSUME IInv, NEW S, Shed(S), NEW c \in Clients
    PROVE  reader'[c].mode = reader[c].mode
<1>1. reader[c] \in ReaderWith(Told)
  BY DEF IInv, FanOutOK, FanOut
<1> QED
  BY <1>1 DEF Shed, ReaderWith

LEMMA PublishServes ==
    ASSUME IInv, NEW c \in Clients, Served(c), NEW e, Publish(e)
    PROVE  Served(c)'
<1>1. CASE open
  <2> DEFINE slow == {d \in listeners : Full(d)}
  <2>1. /\ listeners' = listeners \ slow /\ slow \subseteq listeners
        /\ c \in slow => queue'[c] = WithSentinel(c)
        /\ c \notin listeners => queue'[c] = queue[c]
        /\ Shed(slow)
    BY <1>1 DEF Publish
  <2> HIDE DEF slow
  <2> QED
    BY <2>1, ModesStay, DroppedWithSentinel
<1>2. CASE ~open
  BY <1>2 DEF Publish, broker, Served, Closing
<1> QED
  BY <1>1, <1>2

LEMMA CloseServes ==
    ASSUME IInv, NEW c \in Clients, Served(c), CloseBroker
    PROVE  Served(c)'
<1>1. /\ listeners' = listeners \ listeners
      /\ c \in listeners => queue'[c] = WithSentinel(c)
      /\ c \notin listeners => queue'[c] = queue[c]
      /\ Shed({d \in listeners : Full(d)})
  BY DEF CloseBroker
<1> QED
  BY <1>1, ModesStay, DroppedWithSentinel

\* a client that reads comes nearer to the sentinel, and leaves when it has come to it
LEMMA ReadServes ==
    ASSUME IInv, NEW c \in Clients, Served(c), Read(c)
    PROVE  Served(c)'
<1>1. /\ reader \in [Clients -> ReaderWith(Told)] /\ reader[c] \in ReaderWith(Told)
      /\ queue \in [Clients -> Seq(Told \cup {Sentinel})] /\ queue[c] \in Seq(Told \cup {Sentinel})
  BY DEF IInv, FanOutOK, FanOut, BrokerWith
<1>2. \A r : reader' = [reader EXCEPT ![c] = r] => reader'[c] = r
  BY <1>1
<1>3. CASE /\ reader[c].mode \in {"live", "drain"} /\ reader[c].todo # <<>>
           /\ SetReader(c, Received([reader[c] EXCEPT !.todo = Tail(@)], Head(reader[c].todo)))
           /\ UNCHANGED <<queue, listeners>>
  <2> DEFINE rest == Tail(reader[c].todo)
             e == Head(reader[c].todo)
  <2>1. reader'[c] = Received([reader[c] EXCEPT !.todo = rest], e)
    BY <1>2, <1>3 DEF SetReader
  <2> HIDE DEF rest, e
  <2>2. reader'[c].mode = reader[c].mode
    BY <1>1, <2>1 DEF Received, ReaderWith
  <2> QED
    BY <1>3, <2>2 DEF Served, Closing
<1>4. CASE SetReader(c, Left(reader[c]))
  <2>1. reader'[c].mode = "away"
    BY <1>1, <1>2, <1>4 DEF SetReader, Left, ReaderWith
  <2> QED
    BY <2>1 DEF Served
<1>5. CASE /\ queue[c] # <<>> /\ Head(queue[c]) # Sentinel
           /\ UNCHANGED listeners /\ queue' = [queue EXCEPT ![c] = Tail(@)]
           /\ SetReader(c, Received(reader[c], Head(queue[c])))
  <2>1. reader'[c].mode = reader[c].mode /\ queue'[c] = Tail(queue[c])
    BY <1>1, <1>2, <1>5 DEF SetReader, Received, ReaderWith
  <2>2. ASSUME Closing(queue[c]) PROVE Closing(Tail(queue[c]))
    <3> DEFINE q == queue[c]
    <3>1. /\ Len(q) \in Nat /\ Len(q) > 0 /\ Tail(q) \in Seq(Told \cup {Sentinel})
          /\ Len(Tail(q)) = Len(q) - 1
          /\ \A i \in 1..Len(Tail(q)) : Tail(q)[i] = q[i + 1]
      BY <1>1, <1>5, HeadTailProperties, EmptySeq
    <3>2. Len(q) # 1
      <4>1. Head(q) = q[1]
        OBVIOUS
      <4> QED
        BY <1>5, <2>2, <4>1 DEF Closing
    <3> HIDE DEF q
    <3>3. Len(q) - 1 \in 1..Len(Tail(q)) /\ Len(q) - 1 + 1 = Len(q)
      BY <3>1, <3>2
    <3>4. Tail(q)[Len(Tail(q))] = q[Len(q)]
      BY <3>1, <3>3
    <3>5. Tail(q) # <<>>
      <4>1. Len(Tail(q)) # 0
        BY <3>1, <3>2
      <4> QED
        BY <4>1, EmptySeq
    <3> QED
      BY <2>2, <3>4, <3>5 DEF Closing, q
  <2> QED
    BY <1>5, <2>1, <2>2 DEF Served, Closing
<1> QED
  BY <1>3, <1>4, <1>5 DEF Read

LEMMA InitServes == Init => EveryoneIsServed
BY DEF Init, EveryoneIsServed

LEMMA StepServes == IInv /\ EveryoneIsServed /\ [Next]_vars => EveryoneIsServed'
<1> SUFFICES ASSUME IInv, EveryoneIsServed, [Next]_vars PROVE EveryoneIsServed'
  OBVIOUS
<1>1. (phase \in {"over", "dead"} => ~open)'
  <2>1. CASE UNCHANGED vars
    BY <2>1 DEF vars, EveryoneIsServed
  <2>2. CASE WrapUp \/ Crash \/ ForceClose
    BY <2>2 DEF WrapUp, Crash, ForceClose, CloseBroker
  <2>3. CASE Next /\ ~(WrapUp \/ Crash \/ ForceClose)
    <3>1. open' = open /\ (phase' \in {"over", "dead"} => phase \in {"over", "dead"})
      BY <2>3 DEF Next, WorkerStep, Emit, FlushChunk, Exhaust, HoldTerminal, CancelExecutor,
                  CloseDelivery, CancelClose, AnnounceCut, CommitOutcome, AnnounceEnd, Abort, Stop, Age,
                  SweepStale, Attach, AttachLive, AttachStale, AttachReplay, Subscribe, Read,
                  Disconnect, Publish, broker, worker
    <3> QED
      BY <3>1 DEF EveryoneIsServed
  <2> QED
    BY <2>1, <2>2, <2>3
<1>2. ASSUME NEW c \in Clients PROVE Served(c)'
  <2>0. Served(c)
    BY DEF EveryoneIsServed, Served
  <2>1. CASE UNCHANGED vars
    BY <2>0, <2>1 DEF vars, Served, Closing
  <2>2. CASE \E e : Publish(e)
    BY <2>0, <2>2, PublishServes
  <2>3. CASE CloseBroker
    BY <2>0, <2>3, CloseServes
  <2>4. CASE UNCHANGED <<listeners, queue, reader>>
    BY <2>0, <2>4 DEF Served, Closing
  <2>5. CASE Crash
    <3>1. reader[c] \in ReaderWith(Told)
      BY DEF IInv, FanOutOK, FanOut
    <3> QED
      BY <2>5, <3>1 DEF Crash, Served, ReaderWith
  <2>6. ASSUME NEW d \in Clients, AttachLive(d) \/ AttachReplay(d) \/ Subscribe(d) \/ Read(d) \/ Disconnect(d)
        PROVE  Served(c)'
    <3>1. /\ reader \in [Clients -> ReaderWith(Told)] /\ reader[c] \in ReaderWith(Told)
          /\ queue \in [Clients -> Seq(Told \cup {Sentinel})]
      BY DEF IInv, FanOutOK, FanOut, BrokerWith
    <3>2. CASE c = d /\ Read(d)
      BY <2>0, <3>2, ReadServes
    <3>3. CASE c # d
      <4>1. reader'[c] = reader[c] /\ queue'[c] = queue[c] /\ (c \in listeners => c \in listeners')
        BY <2>6, <3>1, <3>3 DEF AttachLive, AttachReplay, Subscribe, Read, Disconnect, SetReader, broker
      <4> QED
        BY <2>0, <4>1 DEF Served, Closing
    <3>4. CASE c = d /\ ~Read(d)
      <4>1. CASE AttachLive(c)
        BY <3>1, <4>1 DEF AttachLive, SetReader, Served, ReaderWith
      <4>2. CASE AttachReplay(c)
        <5> DEFINE after == SliceAfter(trace, reader[c].cursor)
        <5>1. reader'[c] = [reader[c] EXCEPT !.mode = "drain", !.todo = after]
          BY <3>1, <4>2 DEF AttachReplay, SetReader
        <5> HIDE DEF after
        <5> QED
          BY <3>1, <5>1 DEF Served, ReaderWith
      <4>3. CASE Subscribe(c)
        <5>1. reader'[c] = [Snapshot(reader[c]) EXCEPT !.mode = IF open THEN "live" ELSE "drain"]
          BY <3>1, <4>3 DEF Subscribe, SetReader
        <5>2. reader'[c].mode = IF open THEN "live" ELSE "drain"
          BY <3>1, <5>1 DEF Snapshot, ReaderWith
        <5>3. open => c \in listeners'
          BY <4>3 DEF Subscribe
        <5> QED
          BY <5>2, <5>3 DEF Served
      <4>4. CASE Disconnect(c)
        BY <3>1, <4>4 DEF Disconnect, SetReader, Left, Served, ReaderWith
      <4> QED
        BY <2>6, <3>4, <4>1, <4>2, <4>3, <4>4
    <3> QED
      BY <3>2, <3>3, <3>4
  <2> QED
    <3>1. CASE WrapUp \/ ForceClose
      BY <2>3, <3>1 DEF WrapUp, ForceClose
    <3>2. CASE Emit \/ AnnounceCut \/ AnnounceEnd
      BY <2>2, <3>2 DEF Emit, AnnounceCut, AnnounceEnd
    <3>3. CASE \/ FlushChunk \/ Exhaust \/ CancelExecutor \/ CloseDelivery \/ CancelClose \/ CommitOutcome
               \/ Abort \/ Stop \/ Age \/ SweepStale \/ \E d \in Clients : AttachStale(d)
      <4>1. UNCHANGED <<listeners, queue, reader>>
        BY <3>3 DEF FlushChunk, Exhaust, HoldTerminal, CancelExecutor, CloseDelivery, CancelClose, CommitOutcome,
                    Abort, Stop, Age, SweepStale, AttachStale, broker
      <4> QED
        BY <2>4, <4>1
    <3> QED
      BY <2>1, <2>5, <2>6, <3>1, <3>2, <3>3 DEF Next, WorkerStep, Attach
<1> QED
  BY <1>1, <1>2 DEF EveryoneIsServed, Served

(* No response is left waiting on a queue that nobody feeds and that does  *)
(* not end: what ReaderIsReleased needs beside the reading itself.         *)
THEOREM EveryoneStaysServed == Spec => []EveryoneIsServed
<1> QED
  BY Invariance, InitServes, StepServes, PTL DEF Spec
=============================================================================
