------------------------------ MODULE Streams ------------------------------
(***************************************************************************)
(* Bidirectional streams of the session engine (infrastructure/peer/conn): *)
(* OpenStream and the goroutine that follows the caller's context, the     *)
(* stream object with its two bounded queues, its pump, Recv, Send,        *)
(* CloseSend and finishStream, the read loop, the goroutine that serves an *)
(* inbound stream, Close and end().  The client opens the streams and the  *)
(* server serves them; a stream is known by its ID at both ends.           *)
(*                                                                         *)
(* end() is two steps: the cancellation, taken with the failure that leads *)
(* to it, and the closing of the transport with the release of everything  *)
(* the session owns, which UnaryCalls takes apart.  An end() that finds    *)
(* its session ended and its maps empty has nothing to do and is not a     *)
(* step, and neither is the return of a goroutine that nobody waits for.   *)
(***************************************************************************)
EXTENDS Integers, Sequences, FiniteSets

CONSTANTS
    Streams,               \* the streams the client opens
    MaxConcurrentStreams,  \* Limits.MaxConcurrentStreams of the server
    MaxStreamQueueDepth,   \* Limits.MaxStreamQueueDepth
    Environments           \* what the applications and the network may do

Endpoints == {"client", "server"}

ASSUME LimitAssumption ==
    /\ IsFiniteSet(Streams)
    /\ MaxConcurrentStreams \in Nat \ {0}
    /\ MaxStreamQueueDepth \in Nat \ {0}

\* An environment: which streams the client opens, bounds on the messages sent
\* on one, the endpoints whose first message exceeds the receiver's bound, whose
\* application calls CloseSend itself, keeps calling Recv, and may Close; whether
\* a handler returns only after Recv reported the end or its context ended, and
\* whether a caller's context may end and the network fail.
ASSUME EnvironmentAssumption ==
    Environments \subseteq [streams: SUBSET Streams, messages: [Endpoints -> Nat], oversized: SUBSET Endpoints,
                            halfClosers: SUBSET Endpoints, receiving: SUBSET Endpoints, closing: SUBSET Endpoints,
                            draining: BOOLEAN, cancels: BOOLEAN, linkMayFail: BOOLEAN]

Other(e) == IF e = "client" THEN "server" ELSE "client"

\* Goroutines that write frames or read them, and may therefore run end().
Threads == ({"reader", "closer"} \X Endpoints)
               \cup ({"opener", "follower", "handler"} \X Streams)
               \cup ({"pump"} \X (Streams \X Endpoints))
Reader(e) == <<"reader", e>>
Closer(e) == <<"closer", e>>
Opener(s) == <<"opener", s>>
Follower(s) == <<"follower", s>>
Handler(s) == <<"handler", s>>
Pump(s, e) == <<"pump", <<s, e>>>>
Home(t) == IF t[1] \in {"reader", "closer"} THEN t[2]
           ELSE IF t[1] = "pump" THEN t[2][2]
           ELSE IF t[1] = "handler" THEN "server" ELSE "client"

Statuses == {"ok", "canceled", "overloaded", "refused", "failed", "tooLarge"}
\* "closed" is ErrStreamClosed, "lost" is ErrConnectionClosed and "broken" the
\* error of a failed read or write.
Errors == (Statuses \ {"ok"}) \cup {"closed", "lost", "broken", "violation"}
Causes == {"nil", "eof", "broken", "canceled", "violation"}

Frames == [type: {"OpenStream", "Ack", "Data", "CloseSend", "StreamEnd"}, s: Streams, n: Nat, status: Statuses]
              \cup [type: {"Close"}]
OpenStream(s) == [type |-> "OpenStream", s |-> s, n |-> 0, status |-> "ok"]
Ack(s) == [type |-> "Ack", s |-> s, n |-> 0, status |-> "ok"]
Data(s, n) == [type |-> "Data", s |-> s, n |-> n, status |-> "ok"]
CloseSendFrame(s) == [type |-> "CloseSend", s |-> s, n |-> 0, status |-> "ok"]
StreamEnd(s, status) == [type |-> "StreamEnd", s |-> s, n |-> 0, status |-> status]
CloseFrame == [type |-> "Close"]

\* outboundItem: the n-th message, the close marker, or a flush barrier.
Items == [kind: {"data", "close", "barrier"}, n: Nat]

VARIABLES
    \* the connection
    wire, open, linkUp,
    \* the sessions, and the cause of each goroutine that is in end()
    streams, opens, ended, terminal, ctxDone, closer, ending,
    \* the read loops: where, and the frame being delivered
    reader, delivering,
    \* the stream objects, one at each end of a stream
    obj,
    \* the client's OpenStream, its caller's context and the following goroutine
    opc, accepted, callerDone, follow,
    \* the server's gate, the router's slots, the serving goroutines
    streamGate, streamSlots, hpc, herr,
    \* what the applications have sent and seen
    sent, received, rend,
    \* the environment of this behaviour
    env

connVars == <<wire, open, linkUp>>
sessVars == <<ended, terminal, closer>>
readVars == <<reader, delivering>>
openVars == <<opc, accepted, callerDone, follow>>
serveVars == <<streamGate, streamSlots, hpc, herr>>
appVars == <<sent, received, rend, env>>
sessionVars == <<streams, opens, sessVars, ctxDone, ending>>
engineVars == <<connVars, sessionVars, readVars>>
vars == <<engineVars, obj, openVars, serveVars, appVars>>

\* newStreamWithin.  inb: the inbound queue is open, closed by the peer's
\* CloseSend, or closed by finishStream.  fin: finishErr, "none" before
\* finishStream.  csend: where CloseSend is or what it returned.
newStream == [inbound |-> <<>>, inb |-> "open", outbound |-> <<>>, csend |-> "no", fin |-> "none", pump |-> "idle"]

Init ==
    /\ wire = [e \in Endpoints |-> <<>>]
    /\ open = [e \in Endpoints |-> TRUE]
    /\ linkUp = TRUE
    /\ streams = [e \in Endpoints |-> {}]
    /\ opens = {}
    /\ ended = [e \in Endpoints |-> FALSE]
    /\ terminal = [e \in Endpoints |-> "none"]
    /\ ctxDone = [e \in Endpoints |-> FALSE]
    /\ closer = [e \in Endpoints |-> "idle"]
    /\ ending = [t \in Threads |-> "none"]
    /\ reader = [e \in Endpoints |-> "read"]
    /\ delivering = [e \in Endpoints |-> <<>>]
    /\ obj = [s \in Streams |-> [e \in Endpoints |-> newStream]]
    /\ opc = [s \in Streams |-> "idle"]
    /\ accepted = [s \in Streams |-> <<>>]
    /\ callerDone = [s \in Streams |-> FALSE]
    /\ follow = [s \in Streams |-> "none"]
    /\ streamGate = 0
    /\ streamSlots = 0
    /\ hpc = [s \in Streams |-> "none"]
    /\ herr = [s \in Streams |-> "none"]
    /\ sent = [s \in Streams |-> [e \in Endpoints |-> 0]]
    /\ received = [s \in Streams |-> [e \in Endpoints |-> <<>>]]
    /\ rend = [s \in Streams |-> [e \in Endpoints |-> "none"]]
    /\ env \in Environments

-----------------------------------------------------------------------------
(* Writing a frame, and the beginning of end(): as in UnaryCalls.            *)

Transmit(w, e, f) ==
    IF linkUp /\ open[Other(e)] /\ reader[Other(e)] # "stopped"
    THEN [w EXCEPT ![e] = Append(@, f)] ELSE w

WriteCanFail(e) == ~open[e] \/ ~open[Other(e)] \/ ~linkUp

beginEnd(t, cause) == [ending EXCEPT ![t] = cause]

StartEnd(t, cause) ==
    LET e == Home(t)
        nothingLeft == ended[e] /\ streams[e] = {} /\ (e = "client" => opens = {}) IN
    /\ ending' = IF nothingLeft THEN ending ELSE beginEnd(t, cause)
    /\ ctxDone' = [ctxDone EXCEPT ![e] = TRUE]

WriteOK(w, t, f) ==
    /\ open[Home(t)]
    /\ wire' = Transmit(w, Home(t), f)
    /\ UNCHANGED <<ending, ctxDone>>
WriteFails(w, t) ==
    /\ WriteCanFail(Home(t))
    /\ wire' = w
    /\ StartEnd(t, "broken")
sendFrame(w, t, f) == WriteOK(w, t, f) \/ WriteFails(w, t)

Ready(t) == ending[t] = "none"

-----------------------------------------------------------------------------
(* The stream object.                                                        *)

\* A caller's stream lives within the caller's context, a served stream within
\* the session's.  Nothing but finishStream cancels the stream's own context.
ContextDone(s, e) == IF e = "client" THEN callerDone[s] ELSE ctxDone[e]
StreamDone(s, e) == obj[s][e].fin # "none" \/ ContextDone(s, e)

\* inboundMu is held from one step to the next only by a blocked deliver.
InboundLocked(s, e) == reader[e] = "blocked" /\ delivering[e][1] = s

closeInboundFinal(o) == IF o.inb = "open" THEN [o EXCEPT !.inb = "final"] ELSE o
closeInboundHalf(o) == IF o.inb = "open" THEN [o EXCEPT !.inb = "half"] ELSE o

\* Faulty variant: the queue is closed without its lock.
finishStreamUnlocked(s, e, err) ==
    IF obj[s][e].fin # "none" THEN obj[s][e] ELSE closeInboundFinal([obj[s][e] EXCEPT !.fin = err])
\* finishStream records the first error, cancels and closes the inbound queue.
\* It waits for a blocked deliver, which gives up its lock as the stream is
\* done, and the queue is closed then; what follows finishStream waits as well.
finishStream(s, e, err) ==
    LET o == obj[s][e] IN
    IF o.fin # "none" THEN o
    ELSE IF InboundLocked(s, e) THEN [o EXCEPT !.fin = err]
    ELSE closeInboundFinal([o EXCEPT !.fin = err])
Unlocked(o) == IF o.fin # "none" THEN closeInboundFinal(o) ELSE o

HasRoom(o) == Len(o.outbound) < MaxStreamQueueDepth

objOnly == UNCHANGED <<engineVars, openVars, serveVars, appVars>>

\* The application holds the stream: OpenStream returned it, the handler runs.
Holds(s, e) == IF e = "client" THEN opc[s] = "established" ELSE hpc[s] = "running"

\* An error return of Send changes nothing and is not a step.
Send(s, e) ==
    /\ Holds(s, e) /\ ~StreamDone(s, e)
    /\ obj[s][e].csend = "no"
    /\ HasRoom(obj[s][e])
    /\ sent[s][e] < env.messages[e]
    /\ sent' = [sent EXCEPT ![s][e] = @ + 1]
    /\ obj' = [obj EXCEPT ![s][e].outbound = Append(@, [kind |-> "data", n |-> sent[s][e] + 1])]
    /\ UNCHANGED <<engineVars, openVars, serveVars, received, rend, env>>

\* CloseSend, called by the application, or by the serving goroutine for it.
CloseSendBegin(s, e) ==
    /\ (Holds(s, e) /\ e \in env.halfClosers) \/ (e = "server" /\ hpc[s] = "closing")
    /\ obj[s][e].csend = "no"
    /\ obj' = [obj EXCEPT ![s][e].csend = "enqueue"]
    /\ objOnly

enqueued(o, item) == [o EXCEPT !.outbound = Append(@, [kind |-> item, n |-> 0])]

\* Faulty variants: the marker replaces what is queued, is dropped by a full
\* queue, or closes both directions.
CloseSendEnqueueAlone(s, e) ==
    /\ obj[s][e].csend = "enqueue" /\ objOnly
    /\ obj' = [obj EXCEPT ![s][e] = enqueued([@ EXCEPT !.csend = "await", !.outbound = <<>>], "close")]
CloseSendEnqueueDrops(s, e) ==
    /\ obj[s][e].csend = "enqueue" /\ objOnly
    /\ obj' = [obj EXCEPT ![s][e] = [IF HasRoom(@) THEN enqueued(@, "close") ELSE @ EXCEPT !.csend = "await"]]
CloseSendEnqueueBoth(s, e) ==
    /\ obj[s][e].csend = "enqueue" /\ HasRoom(obj[s][e]) /\ objOnly
    /\ obj' = [obj EXCEPT ![s][e] = closeInboundFinal([enqueued(@, "close") EXCEPT !.csend = "await"])]

CloseSendEnqueue(s, e) ==
    /\ obj[s][e].csend = "enqueue" /\ HasRoom(obj[s][e])
    /\ obj' = [obj EXCEPT ![s][e] = [enqueued(@, "close") EXCEPT !.csend = "await"]]
    /\ objOnly

\* The pump reported the write of the marker.
CloseSendWritten(s, e) ==
    /\ obj[s][e].csend \in {"written", "failed"}
    /\ obj' = [obj EXCEPT ![s][e].csend = IF @ = "written" THEN "nil" ELSE "broken"]
    /\ objOnly

\* terminal() before any finishErr is ErrStreamClosed.
closeSendAfterTerminal(o) == IF o.fin \in {"none", "closed"} THEN "nil" ELSE "canceled"

CloseSendCancelled(s, e) ==
    /\ obj[s][e].csend \in {"enqueue", "await", "written", "failed"}
    /\ StreamDone(s, e)
    /\ obj' = [obj EXCEPT ![s][e].csend = closeSendAfterTerminal(obj[s][e])]
    /\ objOnly

\* Recv: a message that is queued comes first, whatever the state of the stream.
RecvMessage(s, e) ==
    /\ Holds(s, e) /\ rend[s][e] = "none"
    /\ obj[s][e].inbound # <<>>
    /\ received' = [received EXCEPT ![s][e] = Append(@, Head(obj[s][e].inbound))]
    /\ obj' = [obj EXCEPT ![s][e].inbound = Tail(@)]
    /\ UNCHANGED <<engineVars, openVars, serveVars, sent, rend, env>>

\* Recv: the drained queue is closed.
RecvEnd(s, e) ==
    /\ Holds(s, e) /\ rend[s][e] = "none"
    /\ obj[s][e].inbound = <<>> /\ obj[s][e].inb # "open"
    /\ rend' = [rend EXCEPT ![s][e] = IF obj[s][e].inb = "half" THEN "eof" ELSE obj[s][e].fin]
    /\ UNCHANGED <<engineVars, obj, openVars, serveVars, sent, received, env>>

settleCancelled(s, e) == finishStream(s, e, IF ended[e] THEN terminal[e] ELSE "canceled")

\* Recv: the context is done and nothing is queued.
RecvCancelled(s, e) ==
    /\ Holds(s, e) /\ rend[s][e] = "none"
    /\ obj[s][e].inbound = <<>> /\ obj[s][e].inb = "open"
    /\ StreamDone(s, e)
    /\ obj' = [obj EXCEPT ![s][e] = settleCancelled(s, e)]
    /\ rend' = [rend EXCEPT ![s][e] = settleCancelled(s, e).fin]
    /\ UNCHANGED <<engineVars, openVars, serveVars, sent, received, env>>

\* The pump takes the next item.  The close marker is its last.  Once the stream
\* is done the pump may return instead.
PumpItem(s, e) ==
    LET o == obj[s][e]
        item == Head(o.outbound)
        popped == [o EXCEPT !.outbound = Tail(o.outbound)]
        t == Pump(s, e)
        reported(result) == IF o.csend = "await" THEN result ELSE o.csend
    IN
    /\ o.pump = "running" /\ o.outbound # <<>>
    /\ \/ /\ item.kind = "data"
          /\ \/ WriteOK(wire, t, Data(s, item.n)) /\ obj' = [obj EXCEPT ![s][e] = popped]
             \/ WriteFails(wire, t) /\ obj' = [obj EXCEPT ![s][e] = [popped EXCEPT !.pump = "stopped"]]
          /\ UNCHANGED hpc
       \/ /\ item.kind = "close"
          /\ \/ /\ WriteOK(wire, t, CloseSendFrame(s))
                /\ obj' = [obj EXCEPT ![s][e] = [popped EXCEPT !.pump = "closed", !.csend = reported("written")]]
             \/ /\ WriteFails(wire, t)
                /\ obj' = [obj EXCEPT ![s][e] = [popped EXCEPT !.pump = "stopped", !.csend = reported("failed")]]
          /\ UNCHANGED hpc
       \/ /\ item.kind = "barrier"
          /\ obj' = [obj EXCEPT ![s][e] = popped]
          /\ hpc' = [hpc EXCEPT ![s] = IF @ = "barrier" THEN "flushed" ELSE @]
          /\ UNCHANGED <<wire, ending, ctxDone>>
    /\ UNCHANGED <<open, linkUp, streams, opens, sessVars, readVars, openVars, streamGate, streamSlots, herr, appVars>>

-----------------------------------------------------------------------------
(* OpenStream and followStreamContext, at the client.                        *)

OpenCheck(s) ==
    /\ s \in env.streams /\ opc[s] = "idle"
    /\ opc' = [opc EXCEPT ![s] = IF ended["client"] THEN "failed" ELSE "usable"]
    /\ UNCHANGED <<engineVars, obj, accepted, callerDone, follow, serveVars, appVars>>

\* registerStream, registerOpen, startPump and the OpenStream frame.  The end()
\* of a failed write releases the two entries as well.
OpenWrite(s) ==
    /\ opc[s] = "usable"
    /\ streams' = [streams EXCEPT !["client"] = @ \cup {s}]
    /\ opens' = opens \cup {s}
    /\ \/ /\ WriteOK(wire, Opener(s), OpenStream(s))
          /\ opc' = [opc EXCEPT ![s] = "waiting"]
          /\ obj' = [obj EXCEPT ![s]["client"].pump = "running"]
       \/ /\ wire' = wire /\ WriteCanFail("client")
          /\ ending' = beginEnd(Opener(s), "broken")
          /\ ctxDone' = [ctxDone EXCEPT !["client"] = TRUE]
          /\ opc' = [opc EXCEPT ![s] = "returning"]
          /\ obj' = [obj EXCEPT ![s]["client"] = [finishStream(s, "client", "broken") EXCEPT !.pump = "running"]]
    /\ UNCHANGED <<open, linkUp, sessVars, readVars, accepted, callerDone, follow, serveVars, appVars>>

\* await: the answer is there.
OpenSettled(s) ==
    /\ opc[s] = "waiting" /\ accepted[s] # <<>>
    /\ accepted' = [accepted EXCEPT ![s] = Tail(@)]
    /\ opens' = opens \ {s}
    /\ IF Head(accepted[s]) = "ok"
       THEN /\ opc' = [opc EXCEPT ![s] = "established"]
            /\ follow' = [follow EXCEPT ![s] = "watching"]
            /\ UNCHANGED obj
       ELSE /\ opc' = [opc EXCEPT ![s] = "failed"]
            /\ obj' = [obj EXCEPT ![s]["client"] = finishStream(s, "client", Head(accepted[s]))]
            /\ UNCHANGED follow
    /\ UNCHANGED <<connVars, streams, sessVars, ctxDone, ending, readVars, callerDone, serveVars, appVars>>

\* await: the caller's context ended, also when an answer is there.
OpenCancelled(s) ==
    /\ opc[s] = "waiting" /\ callerDone[s]
    /\ opc' = [opc EXCEPT ![s] = "notify"]
    /\ obj' = [obj EXCEPT ![s]["client"] = finishStream(s, "client", "canceled")]
    /\ UNCHANGED <<engineVars, accepted, callerDone, follow, serveVars, appVars>>

OpenNotify(s) ==
    /\ opc[s] = "notify" /\ obj[s]["client"].inb # "open"
    /\ opc' = [opc EXCEPT ![s] = "returning"]
    /\ sendFrame(wire, Opener(s), StreamEnd(s, "canceled"))
    /\ UNCHANGED <<open, linkUp, streams, opens, sessVars, readVars, obj, accepted, callerDone, follow, serveVars, appVars>>

\* The deferred discardOpen.
OpenReturn(s) ==
    /\ opc[s] = "returning" /\ Ready(Opener(s))
    /\ opc' = [opc EXCEPT ![s] = "failed"]
    /\ opens' = opens \ {s}
    /\ UNCHANGED <<connVars, streams, sessVars, ctxDone, ending, readVars, obj, accepted, callerDone, follow, serveVars, appVars>>

\* The caller gives up, or its deadline passes.
CancelCaller(s) ==
    /\ env.cancels /\ opc[s] # "idle" /\ ~callerDone[s]
    /\ callerDone' = [callerDone EXCEPT ![s] = TRUE]
    /\ UNCHANGED <<engineVars, obj, opc, accepted, follow, serveVars, appVars>>

\* The stream's context is done.  A stream without an entry has had its terminal
\* frame and needs nothing.
FollowFind(s) ==
    /\ follow[s] = "watching" /\ StreamDone(s, "client")
    /\ s \in streams["client"]
    /\ follow' = [follow EXCEPT ![s] = "found"]
    /\ UNCHANGED <<engineVars, obj, opc, accepted, callerDone, serveVars, appVars>>

\* Faulty variant: the peer is not told.
FollowSilently(s) ==
    /\ follow[s] = "found"
    /\ follow' = [follow EXCEPT ![s] = "done"]
    /\ streams' = [streams EXCEPT !["client"] = @ \ {s}]
    /\ obj' = [obj EXCEPT ![s]["client"] = finishStream(s, "client", "canceled")]
    /\ UNCHANGED <<connVars, opens, sessVars, ctxDone, ending, readVars, opc, accepted, callerDone, serveVars, appVars>>

\* Any other is discarded and finished, and will be reported, also when a terminal
\* frame or end() has taken the entry since.  In between, the read loop ignores the
\* stream as it does afterwards, and Recv goes by the context as it did before.
Follow(s) ==
    /\ follow[s] = "found"
    /\ follow' = [follow EXCEPT ![s] = "notify"]
    /\ streams' = [streams EXCEPT !["client"] = @ \ {s}]
    /\ obj' = [obj EXCEPT ![s]["client"] = finishStream(s, "client", "canceled")]
    /\ UNCHANGED <<connVars, opens, sessVars, ctxDone, ending, readVars, opc, accepted, callerDone, serveVars, appVars>>

FollowNotify(s) ==
    /\ follow[s] = "notify" /\ obj[s]["client"].inb # "open"
    /\ follow' = [follow EXCEPT ![s] = "done"]
    /\ sendFrame(wire, Follower(s), StreamEnd(s, "canceled"))
    /\ UNCHANGED <<open, linkUp, streams, opens, sessVars, readVars, obj, opc, accepted, callerDone, serveVars, appVars>>

-----------------------------------------------------------------------------
(* The read loops.                                                           *)

Reading(e) == reader[e] = "read" /\ Ready(Reader(e))
Arriving(e) == Head(wire[Other(e)])
ArrivesAt(e, type) == Reading(e) /\ wire[Other(e)] # <<>> /\ Arriving(e).type = type
Consumed(e) == [wire EXCEPT ![Other(e)] = Tail(@)]

acquire(gate) == gate + 1
\* Faulty variant: the budget is not returned.
releaseNothing(gate) == gate
release(gate) == gate - 1

\* Faulty variant: the handler runs without an acknowledgement.
acknowledgeLater(s) == open["server"] /\ wire' = Consumed("server") /\ UNCHANGED <<ending, ctxDone>>
acknowledge(s) == WriteOK(Consumed("server"), Reader("server"), Ack(s))

\* Faulty variant: the entry stays.
takeOpenKept(s) == opens
takeOpen(s) == opens \ {s}

\* openStream.  The router refuses for reasons of its own: an unknown method, a
\* denied peer, slots taken by other connections.  When the acknowledgement
\* cannot be written, the handler that would release the router's slot never
\* runs.
ReadOpenStream ==
    LET s == Arriving("server").s
        full == streamGate = MaxConcurrentStreams
        t == Reader("server")
        refusals == {"overloaded"} \cup (IF full THEN {} ELSE {"refused"})
    IN
    /\ ArrivesAt("server", "OpenStream")
    /\ \/ /\ \E status \in refusals : sendFrame(Consumed("server"), t, StreamEnd(s, status))
          /\ UNCHANGED <<streams, obj, streamGate, streamSlots, hpc>>
       \/ /\ ~full /\ streamSlots < MaxConcurrentStreams
          /\ acknowledge(s)
          /\ streamGate' = acquire(streamGate)
          /\ streamSlots' = acquire(streamSlots)
          /\ streams' = [streams EXCEPT !["server"] = @ \cup {s}]
          /\ obj' = [obj EXCEPT ![s]["server"].pump = "running"]
          /\ hpc' = [hpc EXCEPT ![s] = "running"]
       \/ /\ ~full /\ streamSlots < MaxConcurrentStreams
          /\ WriteFails(Consumed("server"), t)
          /\ streamSlots' = acquire(streamSlots)
          /\ obj' = [obj EXCEPT ![s]["server"] = [finishStream(s, "server", "broken") EXCEPT !.pump = "running"]]
          /\ UNCHANGED <<streams, streamGate, hpc>>
    /\ UNCHANGED <<open, linkUp, opens, sessVars, readVars, openVars, herr, appVars>>

\* settleOpen, or the answer to an OpenStream that gave up.
ReadAck ==
    LET s == Arriving("client").s IN
    /\ ArrivesAt("client", "Ack")
    /\ wire' = Consumed("client")
    /\ opens' = takeOpen(s)
    /\ accepted' = IF s \in opens THEN [accepted EXCEPT ![s] = Append(@, "ok")] ELSE accepted
    /\ UNCHANGED <<open, linkUp, streams, sessVars, ctxDone, ending, readVars, obj, opc, callerDone, follow, serveVars, appVars>>

\* findStream for a Data frame.  The entry may go before deliver has its lock.
\* (settleOpen would refuse a frame of a pending OpenStream: AckComesFirst.)
ReadData(e) ==
    LET f == Arriving(e) IN
    /\ ArrivesAt(e, "Data")
    /\ wire' = Consumed(e)
    /\ IF f.s \in streams[e]
       THEN reader' = [reader EXCEPT ![e] = "deliver"] /\ delivering' = [delivering EXCEPT ![e] = <<f.s, f.n>>]
       ELSE UNCHANGED readVars
    /\ UNCHANGED <<open, linkUp, streams, opens, sessVars, ctxDone, ending, obj, openVars, serveVars, appVars>>

\* readLoop ends the session and returns; what was not read is lost.
StopReading(e, cause) ==
    /\ reader' = [reader EXCEPT ![e] = "stopped"]
    /\ delivering' = [delivering EXCEPT ![e] = <<>>]
    /\ wire' = [wire EXCEPT ![Other(e)] = <<>>]
    /\ StartEnd(Reader(e), cause)
    /\ UNCHANGED <<open, linkUp, streams, opens, sessVars, openVars, serveVars, appVars>>

\* The select of deliver hands the message over when the queue has room, and
\* fails when the stream's context is done; when both hold it may do either.
HandOver(e) ==
    LET s == delivering[e][1] IN
    /\ Len(obj[s][e].inbound) < MaxStreamQueueDepth
    /\ obj' = [obj EXCEPT ![s][e] = Unlocked([obj[s][e] EXCEPT !.inbound = Append(@, delivering[e][2])])]
    /\ reader' = [reader EXCEPT ![e] = "read"]
    /\ delivering' = [delivering EXCEPT ![e] = <<>>]
    /\ UNCHANGED <<connVars, sessionVars, openVars, serveVars, appVars>>
\* Faulty variant: the message is dropped and the reader goes on.
HandOverDrops(e) ==
    /\ StreamDone(delivering[e][1], e)
    /\ reader' = [reader EXCEPT ![e] = "read"] /\ delivering' = [delivering EXCEPT ![e] = <<>>]
    /\ obj' = [obj EXCEPT ![delivering[e][1]][e] = Unlocked(@)]
    /\ UNCHANGED <<connVars, sessionVars, openVars, serveVars, appVars>>
HandOverFails(e) ==
    LET s == delivering[e][1] IN
    /\ StreamDone(s, e)
    /\ obj' = [obj EXCEPT ![s][e] = Unlocked(@)]
    /\ StopReading(e, "canceled")

\* deliver, from its size check to the select.
Deliver(e) ==
    LET s == delivering[e][1]
        tooLarge == Other(e) \in env.oversized /\ delivering[e][2] = 1
        closed == obj[s][e].inb # "open"
    IN
    /\ reader[e] = "deliver"
    /\ \/ /\ tooLarge
          /\ obj' = [obj EXCEPT ![s][e] = finishStream(s, e, "tooLarge")]
          /\ sendFrame(wire, Reader(e), StreamEnd(s, "tooLarge"))
          /\ reader' = [reader EXCEPT ![e] = "read"]
          /\ delivering' = [delivering EXCEPT ![e] = <<>>]
          /\ UNCHANGED <<open, linkUp, streams, opens, sessVars, openVars, serveVars, appVars>>
       \/ ~tooLarge /\ closed /\ StopReading(e, "violation") /\ UNCHANGED obj
       \/ ~tooLarge /\ ~closed /\ HandOver(e)
       \/ ~tooLarge /\ ~closed /\ HandOverFails(e)
       \/ /\ ~tooLarge /\ ~closed
          /\ Len(obj[s][e].inbound) = MaxStreamQueueDepth /\ ~StreamDone(s, e)
          /\ reader' = [reader EXCEPT ![e] = "blocked"]
          /\ UNCHANGED <<connVars, sessionVars, delivering, obj, openVars, serveVars, appVars>>

DeliverBlocked(e) == reader[e] = "blocked" /\ (HandOver(e) \/ HandOverFails(e))

ReadCloseSend(e) ==
    LET s == Arriving(e).s IN
    /\ ArrivesAt(e, "CloseSend")
    /\ wire' = Consumed(e)
    /\ obj' = IF s \in streams[e] THEN [obj EXCEPT ![s][e] = closeInboundHalf(@)] ELSE obj
    /\ UNCHANGED <<open, linkUp, streams, opens, sessVars, ctxDone, ending, readVars, openVars, serveVars, appVars>>

\* A terminal frame settles a pending OpenStream, or else ends the stream.
ReadStreamEnd(e) ==
    LET f == Arriving(e)
        pending == e = "client" /\ f.s \in opens
        failure == IF f.status = "ok" THEN "closed" ELSE f.status
    IN
    /\ ArrivesAt(e, "StreamEnd")
    /\ wire' = Consumed(e)
    /\ \/ /\ pending
          /\ opens' = takeOpen(f.s)
          /\ accepted' = [accepted EXCEPT ![f.s] = Append(@, f.status)]
          /\ UNCHANGED <<streams, obj>>
       \/ /\ ~pending
          /\ streams' = [streams EXCEPT ![e] = @ \ {f.s}]
          /\ obj' = IF f.s \in streams[e]
                    THEN [obj EXCEPT ![f.s][e] = finishStream(f.s, e, failure)] ELSE obj
          /\ UNCHANGED <<opens, accepted>>
    /\ UNCHANGED <<open, linkUp, sessVars, ctxDone, ending, readVars, opc, callerDone, follow, serveVars, appVars>>

ReadClose(e) == ArrivesAt(e, "Close") /\ StopReading(e, "eof") /\ UNCHANGED obj
ReadEOF(e) == Reading(e) /\ wire[Other(e)] = <<>> /\ ~open[Other(e)] /\ StopReading(e, "eof") /\ UNCHANGED obj
ReadError(e) == Reading(e) /\ WriteCanFail(e) /\ StopReading(e, "broken") /\ UNCHANGED obj

-----------------------------------------------------------------------------
(* Close and end().                                                          *)

\* Close has written its frame and begins end().  The write has no deadline and the
\* transport is closed only after it: a Close whose write waits for a peer that does
\* not read has not taken this step, and nothing says that it will.
Close(e) ==
    /\ e \in env.closing /\ closer[e] = "idle"
    /\ closer' = [closer EXCEPT ![e] = "closing"]
    /\ \/ open[e] /\ wire' = Transmit(wire, e, CloseFrame) /\ StartEnd(Closer(e), "nil")
       \/ WriteCanFail(e) /\ UNCHANGED wire /\ StartEnd(Closer(e), "broken")
    /\ UNCHANGED <<open, linkUp, streams, opens, ended, terminal, readVars, obj, openVars, serveVars, appVars>>

terminalOf(cause) == IF cause \in {"nil", "eof"} THEN "lost" ELSE cause
streamCause(cause) == IF cause \in {"nil", "eof"} THEN "closed" ELSE cause

\* Faulty variant: the streams are forgotten, not finished.
finishStreamsForgotten(e, err) == obj
finishStreams(e, err) ==
    [s \in Streams |-> IF s \in streams[e] THEN [obj[s] EXCEPT ![e] = finishStream(s, e, err)] ELSE obj[s]]

\* Callers learn the first cause, streams the cause of the end() that took them.
EndRelease(t) ==
    LET e == Home(t)
        cause == ending[t]
        failure == IF ended[e] THEN terminal[e] ELSE terminalOf(cause)
    IN
    /\ ~Ready(t)
    /\ open' = [open EXCEPT ![e] = FALSE]
    /\ ended' = [ended EXCEPT ![e] = TRUE]
    /\ terminal' = [terminal EXCEPT ![e] = failure]
    /\ streams' = [streams EXCEPT ![e] = {}]
    /\ obj' = finishStreams(e, streamCause(cause))
    /\ opens' = IF e = "client" THEN {} ELSE opens
    /\ accepted' = [s \in Streams |-> IF e = "client" /\ s \in opens THEN Append(accepted[s], failure) ELSE accepted[s]]
    /\ ending' = [ending EXCEPT ![t] = "none"]
    /\ UNCHANGED <<wire, linkUp, closer, ctxDone, readVars, opc, callerDone, follow, serveVars, appVars>>

LoseLink ==
    /\ env.linkMayFail /\ linkUp
    /\ linkUp' = FALSE
    /\ UNCHANGED <<wire, open, streams, opens, sessVars, ctxDone, ending, readVars, obj, openVars, serveVars, appVars>>

-----------------------------------------------------------------------------
(* The goroutine serving an inbound stream.                                  *)

\* The handler returns and the router's wrapper releases its slot.  A stream
\* without an entry needs no terminal frame.
HandlerReturn(s) ==
    /\ hpc[s] = "running"
    /\ obj[s]["server"].csend \in {"no", "nil", "canceled", "broken"}
    /\ env.draining => rend[s]["server"] # "none" \/ StreamDone(s, "server")
    /\ streamSlots' = release(streamSlots)
    /\ \E to \in (IF s \in streams["server"] THEN {"closing", "flushing"} ELSE {"releasing"}) :
          hpc' = [hpc EXCEPT ![s] = to]
    /\ UNCHANGED <<engineVars, obj, openVars, streamGate, herr, appVars>>

\* Faulty variants: no barrier, or one that a full queue drops.
FlushNothing(s) ==
    /\ hpc[s] = "flushing"
    /\ hpc' = [hpc EXCEPT ![s] = "flushed"]
    /\ UNCHANGED <<engineVars, obj, openVars, streamGate, streamSlots, herr, appVars>>
FlushDrops(s) ==
    /\ hpc[s] = "flushing"
    /\ obj' = [obj EXCEPT ![s]["server"] = IF HasRoom(@) THEN enqueued(@, "barrier") ELSE @]
    /\ hpc' = [hpc EXCEPT ![s] = "barrier"]
    /\ UNCHANGED <<engineVars, openVars, streamGate, streamSlots, herr, appVars>>

\* flushOutbound: the barrier waits for room.
FlushEnqueue(s) ==
    /\ hpc[s] = "flushing" /\ HasRoom(obj[s]["server"])
    /\ obj' = [obj EXCEPT ![s]["server"] = enqueued(@, "barrier")]
    /\ hpc' = [hpc EXCEPT ![s] = "barrier"]
    /\ UNCHANGED <<engineVars, openVars, streamGate, streamSlots, herr, appVars>>

\* discardStream and finishStream.
HandlerFinish(s, err) ==
    /\ hpc' = [hpc EXCEPT ![s] = "finishing"]
    /\ herr' = [herr EXCEPT ![s] = err]
    /\ streams' = [streams EXCEPT !["server"] = @ \ {s}]
    /\ obj' = [obj EXCEPT ![s]["server"] = finishStream(s, "server", err)]
    /\ UNCHANGED <<connVars, opens, sessVars, ctxDone, ending, readVars, openVars, streamGate, streamSlots, appVars>>

\* StatusOf, with every error it has no code of its own for as "failed".
StatusOf(err) == IF err = "closed" THEN "ok" ELSE IF err \in Statuses THEN err ELSE "failed"

\* The handler returned nil: CloseSend is over.
HandlerClosed(s) ==
    /\ hpc[s] = "closing"
    /\ \/ obj[s]["server"].csend = "nil" /\ HandlerFinish(s, "closed")
       \/ obj[s]["server"].csend \in {"canceled", "broken"} /\ HandlerFinish(s, obj[s]["server"].csend)

\* The handler failed: flushOutbound is over.
HandlerFlushed(s) == hpc[s] = "flushed" /\ HandlerFinish(s, "failed")
HandlerFlushCancelled(s) ==
    /\ hpc[s] \in {"flushing", "barrier", "flushed"} /\ StreamDone(s, "server")
    /\ HandlerFinish(s, "canceled")

\* The terminal frame, once finishStream is over.
HandlerEnd(s) ==
    /\ hpc[s] = "finishing" /\ obj[s]["server"].inb # "open"
    /\ hpc' = [hpc EXCEPT ![s] = "releasing"]
    /\ sendFrame(wire, Handler(s), StreamEnd(s, StatusOf(herr[s])))
    /\ UNCHANGED <<open, linkUp, streams, opens, sessVars, readVars, obj, openVars, streamGate, streamSlots, herr, appVars>>

HandlerRelease(s) ==
    /\ hpc[s] = "releasing" /\ Ready(Handler(s))
    /\ hpc' = [hpc EXCEPT ![s] = "done"]
    /\ streamGate' = release(streamGate)
    /\ UNCHANGED <<engineVars, obj, openVars, streamSlots, herr, appVars>>

-----------------------------------------------------------------------------
OpenStep(s) ==
    OpenWrite(s) \/ OpenSettled(s) \/ OpenCancelled(s) \/ OpenNotify(s) \/ OpenReturn(s)
FollowStep(s) == FollowFind(s) \/ Follow(s) \/ FollowNotify(s)
CloseSendStep(s, e) == CloseSendEnqueue(s, e) \/ CloseSendWritten(s, e) \/ CloseSendCancelled(s, e)
RecvStep(s, e) == RecvMessage(s, e) \/ RecvEnd(s, e) \/ RecvCancelled(s, e)
ServeStep(s) ==
    \/ (hpc[s] = "closing" /\ CloseSendBegin(s, "server"))
    \/ FlushEnqueue(s) \/ HandlerClosed(s) \/ HandlerFlushed(s) \/ HandlerFlushCancelled(s)
    \/ HandlerEnd(s) \/ HandlerRelease(s)
ReadStep(e) ==
    \/ (e = "server" /\ ReadOpenStream) \/ (e = "client" /\ ReadAck)
    \/ ReadData(e) \/ Deliver(e) \/ DeliverBlocked(e) \/ ReadCloseSend(e) \/ ReadStreamEnd(e)
    \/ ReadClose(e) \/ ReadEOF(e) \/ ReadError(e)

Next ==
    \/ \E s \in Streams : OpenCheck(s) \/ CancelCaller(s) \/ OpenStep(s) \/ FollowStep(s)
    \/ \E s \in Streams : HandlerReturn(s) \/ ServeStep(s)
    \/ \E s \in Streams, e \in Endpoints :
           \/ Send(s, e) \/ CloseSendBegin(s, e) \/ CloseSendStep(s, e) \/ RecvStep(s, e)
           \/ PumpItem(s, e)
    \/ \E e \in Endpoints : ReadStep(e) \/ Close(e)
    \/ \E t \in Threads : EndRelease(t)
    \/ LoseLink

Spec == Init /\ [][Next]_vars

\* What the scheduler and the applications go on with: the goroutines of the engine,
\* where a select with a ready case takes one and the pump of a stream that is done
\* may return with items left; the applications in env.receiving, which keep calling
\* Recv; handlers, which return once their stream is done or Recv has reported its
\* end.  A read over a lost link may wait for ever.
Runnable ==
    \/ \E s \in Streams :
          \/ OpenStep(s) \/ FollowStep(s) \/ ServeStep(s)
          \/ (rend[s]["server"] # "none" \/ StreamDone(s, "server")) /\ HandlerReturn(s)
    \/ \E s \in Streams, e \in Endpoints :
          \/ CloseSendStep(s, e)
          \/ ~StreamDone(s, e) /\ PumpItem(s, e)
          \/ e \in env.receiving /\ RecvStep(s, e)
    \/ \E e \in Endpoints : Deliver(e) \/ DeliverBlocked(e) \/ ((linkUp \/ ~open[e]) /\ ReadStep(e))
    \/ \E t \in Threads : EndRelease(t)

\* As long as one of them can proceed, one does.  This is weaker than fairness to each,
\* and enough: every stream has an end, so that none goes on for ever.
Fairness == WF_vars(Runnable)
FairSpec == Spec /\ Fairness

-----------------------------------------------------------------------------
StreamObjects == [inbound: Seq(Nat), inb: {"open", "half", "final"}, outbound: Seq(Items),
                  csend: {"no", "enqueue", "await", "written", "failed", "nil", "canceled", "broken"},
                  fin: Errors \cup {"none"}, pump: {"idle", "running", "stopped", "closed"}]

\* Type correctness.  The queues keep their bounds.
TypeOK ==
    /\ wire \in [Endpoints -> Seq(Frames)]
    /\ open \in [Endpoints -> BOOLEAN] /\ linkUp \in BOOLEAN
    /\ streams \in [Endpoints -> SUBSET Streams] /\ opens \subseteq Streams
    /\ ended \in [Endpoints -> BOOLEAN] /\ terminal \in [Endpoints -> Errors \cup {"none"}]
    /\ ctxDone \in [Endpoints -> BOOLEAN] /\ closer \in [Endpoints -> {"idle", "closing"}]
    /\ ending \in [Threads -> Causes \cup {"none"}]
    /\ reader \in [Endpoints -> {"read", "deliver", "blocked", "stopped"}]
    /\ delivering \in [Endpoints -> {<<>>} \cup (Streams \X Nat)]
    /\ obj \in [Streams -> [Endpoints -> StreamObjects]]
    /\ \A s \in Streams, e \in Endpoints :
          Len(obj[s][e].inbound) <= MaxStreamQueueDepth /\ Len(obj[s][e].outbound) <= MaxStreamQueueDepth
    /\ opc \in [Streams -> {"idle", "usable", "waiting", "notify", "returning", "established", "failed"}]
    /\ accepted \in [Streams -> Seq(Errors \cup {"ok"})]
    /\ callerDone \in [Streams -> BOOLEAN]
    /\ follow \in [Streams -> {"none", "watching", "found", "notify", "done"}]
    /\ streamGate \in 0 .. MaxConcurrentStreams /\ streamSlots \in Nat
    /\ hpc \in [Streams -> {"none", "running", "closing", "flushing", "barrier", "flushed", "finishing",
                            "releasing", "done"}]
    /\ herr \in [Streams -> Errors \cup {"none"}]
    /\ sent \in [Streams -> [Endpoints -> Nat]]
    /\ received \in [Streams -> [Endpoints -> Seq(Nat)]]
    /\ rend \in [Streams -> [Endpoints -> Errors \cup {"none", "eof"}]]

\* An application receives the messages of its peer in order, each once.
InOrder == \A s \in Streams, e \in Endpoints : \A i \in DOMAIN received[s][e] : received[s][e][i] = i

\* Recv reports io.EOF only after every message the peer sent on the stream
\* (CloseSend's comment).
EOFAfterEverything ==
    \A s \in Streams, e \in Endpoints :
        rend[s][e] = "eof" => Len(received[s][e]) = sent[s][Other(e)]

\* A caller observes every message that the handler sent before it failed
\* (flushOutbound, finishStream's comment).
FailureAfterData ==
    \A s \in Streams :
        rend[s]["client"] = "failed" => Len(received[s]["client"]) = sent[s]["server"]

\* deliver never sends on a closed queue, which would panic (inboundMu).
DeliverOnOpenQueue ==
    \A e \in Endpoints : reader[e] = "blocked" => obj[delivering[e][1]][e].inb = "open"

\* No frame of a stream overtakes its acknowledgement, for settleOpen would take
\* it for a protocol violation.
AckComesFirst ==
    wire["server"] # <<>> /\ Head(wire["server"]).type \in {"Data", "CloseSend"} =>
        Head(wire["server"]).s \notin opens

\* The answer to OpenStream always finds room.
AnswerNeverBlocks == \A s \in Streams : Len(accepted[s]) <= 1

\* The server's gate counts exactly the streams under way.
GateExact == streamGate = Cardinality({s \in Streams : hpc[s] \notin {"none", "done"}})

\* The router's slots count exactly the handlers under way.
SlotsExact == streamSlots = Cardinality({s \in Streams : hpc[s] = "running"})

\* They do as long as both sessions and the network are up: no order of opening,
\* refusing, cancelling and returning loses a slot (openStream).
SlotsExactWhileUp == linkUp /\ (\A e \in Endpoints : open[e]) => SlotsExact

\* While nobody closes and the network works, streams end no session.
SessionOutlivesStreams ==
    linkUp /\ (\A e \in Endpoints : closer[e] = "idle") => \A e \in Endpoints : ~ended[e]

\* So it is when every message fits and nobody abandons a stream on which the
\* peer still sends: neither order nor timing alone ends a session (readLoop).
OrderlyStreamsEndNoSession ==
    ~env.cancels /\ env.oversized = {} /\ (env.draining \/ env.messages["client"] = 0) => SessionOutlivesStreams

\* The application of e does not call Recv, and e's read loop waits for it: e reads
\* no frame any more.
Deaf(e) == e \notin env.receiving /\ reader[e] = "blocked"

\* When the caller's context ends, the handler and its budget are released for
\* good, whatever the two were sending.  Only a handler that leaves its queue full is
\* not: the cancellation waits behind the message that does not fit
\* (followStreamContext, notifyCancelled, deliver).
CancelStopsHandler ==
    \A s \in Streams : <>[](callerDone[s] => hpc[s] \in {"none", "done"} \/ Deaf("server"))

\* A handler that returned is done in the end: its messages are flushed, its
\* terminal frame is sent and its budget is returned (openStream).
HandlerCompletes ==
    \A s \in Streams : <>[](hpc[s] \in {"none", "running", "done"})

\* At this end no stream is registered, no OpenStream waits and no handler runs, and
\* a client that calls Recv has had the end of every established stream.
Released(e) ==
    /\ streams[e] = {}
    /\ \A s \in Streams :
          IF e = "server" THEN hpc[s] \in {"none", "done"}
          ELSE /\ opc[s] \in {"idle", "established", "failed"}
               /\ opc[s] = "established" /\ "client" \in env.receiving => rend[s]["client"] # "none"

\* Once Close has written its frame, both sides are released for good, with messages
\* and a half-close under way and read loops blocked in deliver.  Only a peer whose
\* read loop waits for its own application does not notice (Close, end).
CloseReleasesEveryone ==
    \A e, x \in Endpoints : <>[](closer[e] = "closing" => Released(x) \/ (x # e /\ Deaf(x)))

\* CloseSend returns, although it waits for room in the queue and for the report of a
\* pump that a failed write has stopped (CloseSend).
CloseSendReturns ==
    \A s \in Streams, e \in Endpoints :
        <>[](obj[s][e].csend \in {"no", "nil", "canceled", "broken"})
=============================================================================
