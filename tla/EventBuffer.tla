----------------------------- MODULE EventBuffer -----------------------------
(***************************************************************************)
(* Capture of console output (src/boardfarm3/api/console.py): logging      *)
(* threads append numbered events to a bounded buffer, the event loop      *)
(* reads it by cursor (GET /console) and streams it (GET /console/stream). *)
(* Nothing but the lock of the logging handler is held: the threads switch *)
(* between the steps below.                                                *)
(***************************************************************************)
EXTENDS Naturals, SequencesExt

CONSTANTS
    NumEvents,  \* how many events are appended: a bound of the model
    MaxLen,     \* the events the buffer retains (maxlen)
    Limit,      \* the events one GET /console returns at most
    Devices     \* devices whose output is captured

ASSUME BufferAssumption == {NumEvents, MaxLen, Limit} \subseteq Nat \ {0}

VARIABLES
    next,       \* _next_seq
    events,     \* _events
    writer,     \* where the logging thread stands, and with which event
    handler,    \* whether ConsoleCapture is installed, and what it remembers
    propagate,  \* of the console and the framework loggers
    stream,     \* one GET /console/stream: its place, live_from and queue
    sent,       \* the numbers the stream yielded
    poll,       \* one client of GET /console: its cursor, device and scan
    polled      \* the numbers it was given

bufferVars == <<next, events, writer, handler, propagate, stream, sent, poll, polled>>

Event(n, d) == [seq |-> n, device |-> d]
Written == [seq : 0 .. NumEvents - 1, device : Devices]
Loggers == {"pexpect", "boardfarm3"}
Quiet == [at |-> "idle", event |-> Event(0, CHOOSE d \in Devices : TRUE)]
Closed == [at |-> "closed", from |-> 0, scan |-> <<>>, queue |-> <<>>]
Seqs(list) == {list[i].seq : i \in DOMAIN list}

BufferTypeOK ==
    /\ next \in 0 .. NumEvents
    /\ events \in Seq(Written) /\ Len(events) <= MaxLen
    /\ writer \in [at : {"idle", "stored"}, event : Written]
    /\ handler.on \in BOOLEAN /\ handler.previous \in [Loggers -> BOOLEAN]
    /\ propagate \in [Loggers -> BOOLEAN]
    /\ stream.at \in {"closed", "subscribed", "reading", "scanning", "live"}
    /\ stream.from \in 0 .. NumEvents /\ stream.queue \in Seq(Written)
    /\ poll.at \in {"idle", "scanning"} /\ poll.cursor \in 0 .. NumEvents
    /\ polled \subseteq 0 .. NumEvents - 1

BufferInit ==
    /\ next = 0 /\ events = <<>> /\ writer = Quiet
    /\ handler = [on |-> FALSE, previous |-> [l \in Loggers |-> TRUE]]
    /\ propagate = [l \in Loggers |-> TRUE]
    /\ stream = Closed /\ sent = {}
    /\ poll \in [at : {"idle"}, cursor : {0}, device : Devices, scan : {<<>>}]
    /\ polled = {}

-----------------------------------------------------------------------------
(* ConsoleCapture: install may be called again before uninstall.           *)

Install ==
    /\ handler' = IF handler.on THEN handler ELSE [on |-> TRUE, previous |-> propagate]
    /\ propagate' = [propagate EXCEPT !["pexpect"] = FALSE]
    /\ UNCHANGED <<next, events, writer, stream, sent, poll, polled>>

Uninstall ==
    /\ propagate' = IF handler.on THEN handler.previous ELSE propagate
    /\ handler' = [handler EXCEPT !.on = FALSE]
    /\ UNCHANGED <<next, events, writer, stream, sent, poll, polled>>

-----------------------------------------------------------------------------
(* EventBuffer.append, called by emit under the lock of the handler.       *)

Defect_Push(list, e) == IF Len(list) <= MaxLen THEN Append(list, e) ELSE Append(Tail(list), e)

Push(list, e) == IF Len(list) < MaxLen THEN Append(list, e) ELSE Append(Tail(list), e)

(* A thread does not switch between the number and the append: CPython     *)
(* looks for another thread behind a call, and there is none between them. *)
EventStored(d) ==
    /\ writer.at = "idle" /\ handler.on /\ next < NumEvents
    /\ next' = next + 1
    /\ events' = Push(events, Event(next, d))
    /\ writer' = [at |-> "stored", event |-> Event(next, d)]
    /\ UNCHANGED <<handler, propagate, stream, sent, poll, polled>>

Defect_EventQueued ==
    /\ writer.at = "stored"
    /\ stream' = IF stream.queue = <<>> /\ stream.at = "live"
                 THEN [stream EXCEPT !.queue = Append(@, writer.event)] ELSE stream
    /\ writer' = Quiet
    /\ UNCHANGED <<next, events, handler, propagate, sent, poll, polled>>

(* The queue of every subscriber gets the event. *)
EventQueued ==
    /\ writer.at = "stored"
    /\ stream' = IF stream.at = "closed" THEN stream
                 ELSE [stream EXCEPT !.queue = Append(@, writer.event)]
    /\ writer' = Quiet
    /\ UNCHANGED <<next, events, handler, propagate, sent, poll, polled>>

-----------------------------------------------------------------------------
(* GET /console: EventBuffer.read *)

PollBegins ==
    /\ poll.at = "idle"
    /\ poll' = [poll EXCEPT !.at = "scanning", !.scan = events]
    /\ UNCHANGED <<next, events, writer, handler, propagate, stream, sent, polled>>

PollResumesAt(n) == poll' = [poll EXCEPT !.at = "idle", !.scan = <<>>, !.cursor = n]

(* The numbers of the events that match, and the first of them, which are  *)
(* returned.                                                               *)
Found == {e.seq : e \in {f \in Range(poll.scan) : f.seq >= poll.cursor /\ f.device = poll.device}}
Page == {n \in Found : Cardinality({m \in Found : m <= n}) <= Limit}

(* A deque that changed under its iterator raises.  The next cursor is     *)
(* behind the last event returned when the limit cut the scan short.       *)
PollEnds ==
    /\ poll.at = "scanning"
    /\ IF events # poll.scan
       THEN PollResumesAt(poll.cursor) /\ UNCHANGED polled
       ELSE /\ polled' = polled \cup Page
            /\ IF Cardinality(Found) < Limit
               THEN PollResumesAt(next)
               ELSE \E last \in Page : (\A n \in Page : n <= last) /\ PollResumesAt(last + 1)
    /\ UNCHANGED <<next, events, writer, handler, propagate, stream, sent>>

-----------------------------------------------------------------------------
(* GET /console/stream from cursor 0, of all devices *)

StreamSubscribed ==
    /\ stream.at = "closed" /\ sent = {}
    /\ stream' = [stream EXCEPT !.at = "subscribed"]
    /\ UNCHANGED <<next, events, writer, handler, propagate, sent, poll, polled>>

HeadTaken ==
    /\ stream.at = "subscribed"
    /\ stream' = [stream EXCEPT !.at = "reading", !.from = next]
    /\ UNCHANGED <<next, events, writer, handler, propagate, sent, poll, polled>>

HistoryBegins ==
    /\ stream.at = "reading"
    /\ stream' = [stream EXCEPT !.at = "scanning", !.scan = events]
    /\ UNCHANGED <<next, events, writer, handler, propagate, sent, poll, polled>>

Defect_HistoryRead ==
    /\ stream.at = "scanning"
    /\ IF events # stream.scan
       THEN stream' = Closed /\ UNCHANGED sent
       ELSE /\ stream' = [stream EXCEPT !.at = "live", !.scan = <<>>, !.queue = <<>>]
            /\ sent' = {n \in Seqs(events) : n < stream.from}
    /\ UNCHANGED <<next, events, writer, handler, propagate, poll, polled>>

(* What is numbered before the head is yielded from the history; a deque   *)
(* that changed during the scan breaks the stream.                         *)
HistoryRead ==
    /\ stream.at = "scanning"
    /\ IF events # stream.scan
       THEN stream' = Closed /\ UNCHANGED sent
       ELSE /\ stream' = [stream EXCEPT !.at = "live", !.scan = <<>>]
            /\ sent' = {n \in Seqs(events) : n < stream.from}
    /\ UNCHANGED <<next, events, writer, handler, propagate, poll, polled>>

EventYielded ==
    /\ stream.at = "live" /\ stream.queue # <<>>
    /\ sent' = sent \cup {Head(stream.queue).seq}
    /\ stream' = [stream EXCEPT !.queue = Tail(@)]
    /\ UNCHANGED <<next, events, writer, handler, propagate, poll, polled>>

-----------------------------------------------------------------------------
WriterSteps == EventQueued
StreamSteps == HeadTaken \/ HistoryBegins \/ HistoryRead \/ EventYielded

BufferNext ==
    \/ Install \/ Uninstall
    \/ (\E d \in Devices : EventStored(d)) \/ WriterSteps
    \/ PollBegins \/ PollEnds
    \/ StreamSubscribed \/ StreamSteps

(* Both threads are scheduled; the stream polls its queue every second.    *)
BufferSpec ==
    BufferInit /\ [][BufferNext]_bufferVars
        /\ WF_bufferVars(WriterSteps) /\ WF_bufferVars(StreamSteps)

-----------------------------------------------------------------------------
(* Properties *)

(* A client that follows the cursors is given every event of its device    *)
(* that the buffer still retains: a page cut short, a buffer that overruns *)
(* and a thread that appends meanwhile lose it nothing else.               *)
PollMissesNothing ==
    \A i \in DOMAIN events :
        events[i].device = poll.device /\ events[i].seq < poll.cursor
            => events[i].seq \in polled

(* A stream that did not break has yielded, or holds in its queue, every   *)
(* event from the first of its history to the last that was appended.      *)
StreamHasNoGap ==
    stream.at = "live" /\ writer.at = "idle" /\ next > 0 =>
        LET reached == sent \cup Seqs(stream.queue)
        IN  \E first \in 0 .. next - 1 : reached = first .. next - 1

(* What is appended while a stream is open reaches its client.             *)
StreamCatchesUp ==
    \A n \in 1 .. NumEvents :
        stream.at = "live" /\ next = n
            ~> (\E m \in sent : m >= n - 1) \/ stream.from >= n

(* However often it was installed, an uninstalled capture leaves the       *)
(* loggers as it found them.                                               *)
PropagationRestored == ~handler.on => propagate = [l \in Loggers |-> TRUE]

(* Capture is whole: no reader misses an event, and the loggers are put    *)
(* back.                                                                   *)
CaptureIsWhole == PollMissesNothing /\ StreamHasNoGap /\ PropagationRestored
=============================================================================
