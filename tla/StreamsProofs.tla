--------------------------- MODULE StreamsProofs ---------------------------
(***************************************************************************)
(* Machine-checked proofs about Streams, for any set of streams, any       *)
(* limits, any number of messages and any environment: the types, who      *)
(* holds which lock, how far the opening of a stream has come, and what    *)
(* follows from them.  The end of the module has what holds of one         *)
(* direction of a stream and how a single move changes it; the steps of    *)
(* the program are reduced to those moves in StreamOrderProofs, and the    *)
(* counters are the subject of StreamServeProofs.                          *)
(*                                                                         *)
(* A leaf without a prover of its own is one for Zenon.                    *)
(***************************************************************************)
EXTENDS Streams, TLAPS

USE ZenonT(200)

-----------------------------------------------------------------------------
(* The inductive invariant.                                                  *)

Opens(f, s) == f.type = "OpenStream" /\ f.s = s
Acks(f, s) == f.type = "Ack" /\ f.s = s

NotOpens(s) == {f \in Frames : ~Opens(f, s)}
\* The frames that tell a caller that its stream is served, and all others.
NotAnswers(s) == {f \in Frames : ~Acks(f, s) /\ ~(f.type = "StreamEnd" /\ f.s = s /\ f.status = "ok")}
OpensOnce(w, s) == \A i, j \in DOMAIN w : Opens(w[i], s) /\ Opens(w[j], s) => i = j

\* A stream is opened once and answered once, and nothing but a refusal is sent
\* about a stream that is not served.
OpeningOf(s) ==
    /\ opc[s] \in {"idle", "usable"} =>
          /\ hpc[s] = "none" /\ accepted[s] = <<>> /\ s \notin opens /\ s \notin streams["client"]
          /\ wire["client"] \in Seq(NotOpens(s))
    /\ s \in opens => accepted[s] = <<>>
    /\ Len(accepted[s]) <= 1
    /\ OpensOnce(wire["client"], s)
    /\ hpc[s] # "none" => wire["client"] \in Seq(NotOpens(s))
    /\ hpc[s] = "none" =>
          /\ s \notin streams["server"] /\ opc[s] # "established"
          /\ accepted[s] \in Seq(Errors)
          /\ wire["server"] \in Seq(NotAnswers(s))
Opening == \A s \in Streams : OpeningOf(s)

\* The read loop holds a message exactly while it delivers one.
Delivery == \A e \in Endpoints : reader[e] \in {"deliver", "blocked"} <=> delivering[e] # <<>>

\* The queue of a finished stream is closed, or about to be by a deliver that
\* holds its lock.
Finished == \A s \in Streams, e \in Endpoints : obj[s][e].fin # "none" => obj[s][e].inb # "open" \/ InboundLocked(s, e)

-----------------------------------------------------------------------------
(* Types.                                                                    *)

ConnType ==
    /\ wire \in [Endpoints -> Seq(Frames)]
    /\ open \in [Endpoints -> BOOLEAN] /\ linkUp \in BOOLEAN
SessType ==
    /\ streams \in [Endpoints -> SUBSET Streams] /\ opens \subseteq Streams
    /\ ended \in [Endpoints -> BOOLEAN] /\ terminal \in [Endpoints -> Errors \cup {"none"}]
    /\ \A e \in Endpoints : ended[e] => terminal[e] # "none"
    /\ closer \in [Endpoints -> {"idle", "closing"}]
EndType ==
    /\ ending \in [Threads -> Causes \cup {"none"}]
    /\ ctxDone \in [Endpoints -> BOOLEAN]
ReadType ==
    /\ reader \in [Endpoints -> {"read", "deliver", "blocked", "stopped"}]
    /\ delivering \in [Endpoints -> {<<>>} \cup (Streams \X Nat)]
BoundedObjects ==
    {o \in StreamObjects : Len(o.inbound) <= MaxStreamQueueDepth /\ Len(o.outbound) <= MaxStreamQueueDepth}
ObjType == obj \in [Streams -> [Endpoints -> BoundedObjects]]
OpenType ==
    /\ opc \in [Streams -> {"idle", "usable", "waiting", "notify", "returning", "established", "failed"}]
    /\ accepted \in [Streams -> Seq(Errors \cup {"ok"})]
    /\ callerDone \in [Streams -> BOOLEAN]
    /\ follow \in [Streams -> {"none", "watching", "found", "notify", "done"}]
ServeType ==
    /\ streamGate \in Int /\ streamSlots \in Int
    /\ hpc \in [Streams -> {"none", "running", "closing", "flushing", "barrier", "flushed", "finishing",
                            "releasing", "done"}]
    /\ herr \in [Streams -> Errors \cup {"none"}]
AppType ==
    /\ sent \in [Streams -> [Endpoints -> Nat]]
    /\ received \in [Streams -> [Endpoints -> Seq(Nat)]]
    /\ rend \in [Streams -> [Endpoints -> Errors \cup {"none", "eof"}]]
    /\ env \in Environments
Typed == ConnType /\ SessType /\ EndType /\ ReadType /\ ObjType /\ OpenType /\ ServeType /\ AppType

\* The two ends, and the end at which each thread runs.
LEMMA Places ==
    /\ "client" \in Endpoints /\ "server" \in Endpoints
    /\ \A e \in Endpoints : Other(e) \in Endpoints /\ Other(e) # e /\ Other(Other(e)) = e
    /\ \A t \in Threads : Home(t) \in Endpoints
    /\ \A e \in Endpoints : /\ Reader(e) \in Threads /\ Home(Reader(e)) = e
                           /\ Closer(e) \in Threads /\ Home(Closer(e)) = e
    /\ \A s \in Streams : /\ Opener(s) \in Threads /\ Home(Opener(s)) = "client"
                         /\ Follower(s) \in Threads /\ Home(Follower(s)) = "client"
                         /\ Handler(s) \in Threads /\ Home(Handler(s)) = "server"
    /\ \A s \in Streams, e \in Endpoints : Pump(s, e) \in Threads /\ Home(Pump(s, e)) = e
  BY DEF Endpoints, Other, Threads, Home, Reader, Closer, Opener, Follower, Handler, Pump

\* The frames that the code writes are frames.
LEMMA FrameTypes ==
    /\ CloseFrame \in Frames
    /\ \A s \in Streams : OpenStream(s) \in Frames /\ Ack(s) \in Frames /\ CloseSendFrame(s) \in Frames
    /\ \A s \in Streams, n \in Nat : Data(s, n) \in Frames
    /\ \A s \in Streams, status \in Statuses : StreamEnd(s, status) \in Frames
    /\ \A f \in Frames : f.type # "Close" => f.s \in Streams /\ f.n \in Nat /\ f.status \in Statuses
  BY DEF CloseFrame, OpenStream, Ack, CloseSendFrame, Data, StreamEnd, Frames, Statuses

\* The errors and statuses that the code uses.
LEMMA ErrorTypes ==
    /\ Statuses \ {"ok"} \subseteq Errors
    /\ {"closed", "lost", "broken", "violation", "canceled", "failed", "tooLarge"} \subseteq Errors
    /\ {"ok", "canceled", "overloaded", "refused", "failed", "tooLarge"} \subseteq Statuses
    /\ \A cause \in Causes : terminalOf(cause) \in Errors /\ streamCause(cause) \in Errors
    /\ \A err \in Errors \cup {"none"} : StatusOf(err) \in Statuses
    /\ "none" \notin Errors /\ "none" \notin Causes
  BY DEF Statuses, Errors, Causes, terminalOf, streamCause, StatusOf

\* The types hold at first.
LEMMA InitTyped == Init => Typed
<1>1. newStream \in BoundedObjects
  BY LimitAssumption, SMTT(200) DEF newStream, BoundedObjects, StreamObjects
<1> QED
  BY <1>1, SMTT(200) DEF Init, Typed, ConnType, SessType, EndType, ReadType, ObjType, OpenType, ServeType, AppType

\* Writing a frame.
LEMMA TransmitType ==
    ASSUME NEW w \in [Endpoints -> Seq(Frames)], NEW e \in Endpoints, NEW f \in Frames
    PROVE  Transmit(w, e, f) \in [Endpoints -> Seq(Frames)]
<1>1. Append(w[e], f) \in Seq(Frames)
  BY SMTT(200)
<1> QED
  BY <1>1 DEF Transmit

\* The end of a session keeps the type of its bookkeeping.
LEMMA StartEndType ==
    ASSUME EndType, NEW t \in Threads, NEW cause \in Causes, StartEnd(t, cause)
    PROVE  EndType'
  BY DEF EndType, StartEnd, beginEnd

\* A write puts a frame on the wire, or begins the end of the session.
LEMMA SendFrameType ==
    ASSUME EndType, NEW t \in Threads, NEW w \in [Endpoints -> Seq(Frames)], NEW f \in Frames,
           WriteOK(w, t, f) \/ WriteFails(w, t)
    PROVE  wire' \in [Endpoints -> Seq(Frames)] /\ EndType'
<1>1. "broken" \in Causes
  BY DEF Causes
<1>2. CASE WriteOK(w, t, f)
  BY <1>2, TransmitType, Places DEF WriteOK, EndType
<1>3. CASE WriteFails(w, t)
  BY <1>1, <1>3, StartEndType DEF WriteFails
<1> QED
  BY <1>2, <1>3

\* Reading a frame.
LEMMA ArrivalType ==
    ASSUME ConnType, NEW e \in Endpoints, NEW type, ArrivesAt(e, type)
    PROVE  /\ wire[Other(e)] \in Seq(Frames) /\ wire[Other(e)] # <<>>
           /\ Arriving(e) = wire[Other(e)][1] /\ Arriving(e).type = type
           /\ Consumed(e) \in [Endpoints -> Seq(Frames)]
           /\ Consumed(e) = [wire EXCEPT ![Other(e)] = Tail(wire[Other(e)])]
           /\ type # "Close" =>
                 Arriving(e).s \in Streams /\ Arriving(e).n \in Nat /\ Arriving(e).status \in Statuses
<1>1. wire[Other(e)] \in Seq(Frames) /\ wire[Other(e)] # <<>> /\ Arriving(e).type = type
  BY Places DEF ConnType, ArrivesAt
<1>2. Tail(wire[Other(e)]) \in Seq(Frames) /\ Arriving(e) \in Frames /\ Arriving(e) = wire[Other(e)][1]
  BY <1>1, SMTT(200) DEF Arriving
<1>3. Consumed(e) = [wire EXCEPT ![Other(e)] = Tail(wire[Other(e)])]
  BY DEF Consumed
<1>4. Consumed(e) \in [Endpoints -> Seq(Frames)]
  BY <1>2, <1>3, Places DEF ConnType
<1> QED
  BY <1>1, <1>2, <1>3, <1>4, FrameTypes

\* The object p comes from o when its stream ends: its queues are kept.
Settles(o, p) ==
    /\ p.inbound = o.inbound /\ p.outbound = o.outbound /\ p.pump = o.pump /\ p.csend = o.csend
    /\ p.inb = o.inb \/ (o.inb = "open" /\ p.inb = "final")
    /\ o.fin # "none" => p.fin = o.fin

\* The unlock of a stream does nothing but close the queue of a finished one.
LEMMA UnlockedSettles ==
    ASSUME NEW o \in BoundedObjects
    PROVE  /\ Unlocked(o) \in BoundedObjects /\ Settles(o, Unlocked(o))
           /\ Unlocked(o).fin # "none" => Unlocked(o).inb # "open"
  BY DEF Unlocked, closeInboundFinal, BoundedObjects, StreamObjects, Settles

\* The finish of a stream keeps its queues and its first error.
LEMMA FinishSettles ==
    ASSUME ObjType, NEW s \in Streams, NEW e \in Endpoints, NEW err \in Errors
    PROVE  /\ finishStream(s, e, err) \in BoundedObjects
           /\ Settles(obj[s][e], finishStream(s, e, err))
           /\ finishStream(s, e, err).fin # "none"
           /\ finishStream(s, e, err).fin \in {obj[s][e].fin, err}
           /\ InboundLocked(s, e) => finishStream(s, e, err).inb = obj[s][e].inb
           /\ finishStream(s, e, err).inb = "open" => obj[s][e].fin # "none" \/ InboundLocked(s, e)
<1> DEFINE o == obj[s][e]
<1>1. o \in BoundedObjects
  BY DEF ObjType
<1>2. o.fin # "none" => finishStream(s, e, err) = o
  BY DEF finishStream
<1>3. o.fin = "none" /\ InboundLocked(s, e) => finishStream(s, e, err) = [o EXCEPT !.fin = err]
  BY DEF finishStream
<1>4. o.fin = "none" /\ ~InboundLocked(s, e) => finishStream(s, e, err) = closeInboundFinal([o EXCEPT !.fin = err])
  BY DEF finishStream
<1> HIDE DEF o
<1>5. finishStream(s, e, err) \in BoundedObjects /\ Settles(o, finishStream(s, e, err))
  BY <1>1, <1>2, <1>3, <1>4 DEF closeInboundFinal, BoundedObjects, StreamObjects, Settles
<1> QED
  BY <1>1, <1>2, <1>3, <1>4, <1>5, ErrorTypes DEF closeInboundFinal, BoundedObjects, StreamObjects, o

\* An object is replaced.
LEMMA Replaced ==
    ASSUME ObjType, NEW s \in Streams, NEW e \in Endpoints, NEW o \in BoundedObjects,
           obj' = [obj EXCEPT ![s][e] = o]
    PROVE  /\ ObjType' /\ obj'[s][e] = o
           /\ \A r \in Streams, d \in Endpoints : r # s \/ d # e => obj'[r][d] = obj[r][d]
  BY DEF ObjType

\* What the operations on a stream do to its object keeps it one.
LEMMA ObjectUpdates ==
    ASSUME NEW o \in BoundedObjects
    PROVE  /\ HasRoom(o) => \A item \in Items : [o EXCEPT !.outbound = Append(@, item)] \in BoundedObjects
           /\ o.outbound # <<>> => Head(o.outbound) \in Items /\ [o EXCEPT !.outbound = Tail(@)] \in BoundedObjects
           /\ o.inbound # <<>> => Head(o.inbound) \in Nat /\ [o EXCEPT !.inbound = Tail(@)] \in BoundedObjects
           /\ Len(o.inbound) < MaxStreamQueueDepth =>
                 \A n \in Nat : [o EXCEPT !.inbound = Append(@, n)] \in BoundedObjects
           /\ \A v \in {"no", "enqueue", "await", "written", "failed", "nil", "canceled", "broken"} :
                 [o EXCEPT !.csend = v] \in BoundedObjects
           /\ \A v \in {"idle", "running", "stopped", "closed"} : [o EXCEPT !.pump = v] \in BoundedObjects
           /\ closeInboundHalf(o) \in BoundedObjects
<1> USE LimitAssumption
<1> o.inbound \in Seq(Nat) /\ o.outbound \in Seq(Items)
  BY DEF BoundedObjects, StreamObjects
<1>1. ASSUME NEW in \in Seq(Nat), Len(in) <= MaxStreamQueueDepth PROVE [o EXCEPT !.inbound = in] \in BoundedObjects
  BY <1>1 DEF BoundedObjects, StreamObjects
<1>2. ASSUME NEW out \in Seq(Items), Len(out) <= MaxStreamQueueDepth PROVE [o EXCEPT !.outbound = out] \in BoundedObjects
  BY <1>2 DEF BoundedObjects, StreamObjects
<1>3. HasRoom(o) => \A item \in Items : [o EXCEPT !.outbound = Append(@, item)] \in BoundedObjects
  <2> SUFFICES ASSUME HasRoom(o), NEW item \in Items PROVE [o EXCEPT !.outbound = Append(@, item)] \in BoundedObjects
    OBVIOUS
  <2>1. Append(o.outbound, item) \in Seq(Items) /\ Len(Append(o.outbound, item)) <= MaxStreamQueueDepth
    BY SMTT(200) DEF HasRoom
  <2> QED
    BY <1>2, <2>1
<1>4. o.outbound # <<>> => Head(o.outbound) \in Items /\ [o EXCEPT !.outbound = Tail(@)] \in BoundedObjects
  <2> SUFFICES ASSUME o.outbound # <<>>
               PROVE  Head(o.outbound) \in Items /\ [o EXCEPT !.outbound = Tail(@)] \in BoundedObjects
    OBVIOUS
  <2>1. Head(o.outbound) \in Items /\ Tail(o.outbound) \in Seq(Items) /\ Len(Tail(o.outbound)) = Len(o.outbound) - 1
    BY SMTT(200)
  <2>2. Len(o.outbound) <= MaxStreamQueueDepth /\ Len(o.outbound) \in Nat
    BY SMTT(200) DEF BoundedObjects
  <2>3. Len(Tail(o.outbound)) <= MaxStreamQueueDepth
    BY <2>1, <2>2, SMTT(200)
  <2> QED
    BY <1>2, <2>1, <2>3
<1>5. o.inbound # <<>> => Head(o.inbound) \in Nat /\ [o EXCEPT !.inbound = Tail(@)] \in BoundedObjects
  <2> SUFFICES ASSUME o.inbound # <<>>
               PROVE  Head(o.inbound) \in Nat /\ [o EXCEPT !.inbound = Tail(@)] \in BoundedObjects
    OBVIOUS
  <2>1. Head(o.inbound) \in Nat /\ Tail(o.inbound) \in Seq(Nat) /\ Len(Tail(o.inbound)) = Len(o.inbound) - 1
    BY SMTT(200)
  <2>2. Len(o.inbound) <= MaxStreamQueueDepth /\ Len(o.inbound) \in Nat
    BY SMTT(200) DEF BoundedObjects
  <2>3. Len(Tail(o.inbound)) <= MaxStreamQueueDepth
    BY <2>1, <2>2, SMTT(200)
  <2> QED
    BY <1>1, <2>1, <2>3
<1>6. Len(o.inbound) < MaxStreamQueueDepth => \A n \in Nat : [o EXCEPT !.inbound = Append(@, n)] \in BoundedObjects
  <2> SUFFICES ASSUME Len(o.inbound) < MaxStreamQueueDepth, NEW n \in Nat
               PROVE  [o EXCEPT !.inbound = Append(@, n)] \in BoundedObjects
    OBVIOUS
  <2>1. Append(o.inbound, n) \in Seq(Nat) /\ Len(Append(o.inbound, n)) <= MaxStreamQueueDepth
    BY SMTT(200)
  <2> QED
    BY <1>1, <2>1
<1>7. /\ \A v \in {"no", "enqueue", "await", "written", "failed", "nil", "canceled", "broken"} :
            [o EXCEPT !.csend = v] \in BoundedObjects
      /\ \A v \in {"idle", "running", "stopped", "closed"} : [o EXCEPT !.pump = v] \in BoundedObjects
      /\ closeInboundHalf(o) \in BoundedObjects
  BY DEF BoundedObjects, StreamObjects, closeInboundHalf
<1> QED
  BY <1>3, <1>4, <1>5, <1>6, <1>7

\* What a step leaves alone keeps its type.
LEMMA Kept ==
    ASSUME Typed
    PROVE  /\ UNCHANGED <<wire, open, linkUp>> => ConnType'
           /\ UNCHANGED <<streams, opens, sessVars>> => SessType'
           /\ UNCHANGED <<ctxDone, ending>> => EndType'
           /\ UNCHANGED readVars => ReadType'
           /\ UNCHANGED engineVars => ConnType' /\ SessType' /\ EndType' /\ ReadType'
           /\ UNCHANGED obj => ObjType'
           /\ UNCHANGED openVars => OpenType'
           /\ UNCHANGED serveVars => ServeType'
           /\ UNCHANGED appVars => AppType'
  BY SMTT(200) DEF Typed, ConnType, SessType, EndType, ReadType, ObjType, OpenType, ServeType, AppType, connVars, sessVars,
         readVars, openVars, serveVars, appVars, sessionVars, engineVars

\* A step of the stream object itself.
LEMMA ObjectStep ==
    ASSUME Typed, NEW s \in Streams, NEW e \in Endpoints,
           \/ Send(s, e) \/ CloseSendBegin(s, e) \/ CloseSendStep(s, e) \/ RecvStep(s, e)
    PROVE  Typed'
<1> DEFINE o == obj[s][e]
<1> ObjType /\ o \in BoundedObjects /\ o.fin \in Errors \cup {"none"}
  BY DEF Typed, ObjType, BoundedObjects, StreamObjects
<1>1. CASE Send(s, e)
  <2> USE <1>1
  <2> DEFINE p == [o EXCEPT !.outbound = Append(@, [kind |-> "data", n |-> sent[s][e] + 1])]
  <2>1. sent[s][e] \in Nat
    BY DEF Typed, AppType
  <2>2. p \in BoundedObjects
    <3>1. [kind |-> "data", n |-> sent[s][e] + 1] \in Items
      BY <2>1, SMTT(200) DEF Items
    <3> QED
      BY <3>1, ObjectUpdates DEF Send
  <2>3. ObjType'
    BY <2>2, Replaced DEF Send
  <2>4. AppType'
    BY <2>1, SMTT(200) DEF Send, Typed, AppType
  <2> QED
    BY <2>3, <2>4, Kept DEF Send, Typed
<1>2. CASE CloseSendBegin(s, e)
  <2> DEFINE p == [o EXCEPT !.csend = "enqueue"]
  <2>1. p \in BoundedObjects
    BY ObjectUpdates
  <2>2. ObjType'
    BY <1>2, <2>1, Replaced DEF CloseSendBegin
  <2> QED
    BY <1>2, <2>2, Kept DEF CloseSendBegin, objOnly, Typed
<1>3. CASE CloseSendEnqueue(s, e)
  <2> USE <1>3
  <2> DEFINE p == [enqueued(o, "close") EXCEPT !.csend = "await"]
  <2>1. p \in BoundedObjects
    <3>1. [kind |-> "close", n |-> 0] \in Items
      BY DEF Items
    <3>2. enqueued(o, "close") \in BoundedObjects
      BY <3>1, ObjectUpdates DEF CloseSendEnqueue, enqueued
    <3> QED
      BY <3>2, ObjectUpdates
  <2>2. ObjType'
    BY <2>1, Replaced DEF CloseSendEnqueue
  <2> QED
    BY <2>2, Kept DEF CloseSendEnqueue, objOnly, Typed
<1>4. CASE CloseSendWritten(s, e) \/ CloseSendCancelled(s, e)
  <2>1. PICK v \in {"nil", "broken", "canceled"} : obj' = [obj EXCEPT ![s][e].csend = v]
    BY <1>4 DEF CloseSendWritten, CloseSendCancelled, closeSendAfterTerminal
  <2> DEFINE p == [o EXCEPT !.csend = v]
  <2>2. p \in BoundedObjects
    BY ObjectUpdates
  <2>3. ObjType'
    BY <2>1, <2>2, Replaced
  <2> QED
    BY <1>4, <2>3, Kept DEF CloseSendWritten, CloseSendCancelled, objOnly, Typed
<1>5. CASE RecvMessage(s, e)
  <2> USE <1>5
  <2> DEFINE p == [o EXCEPT !.inbound = Tail(@)]
  <2>1. received[s][e] \in Seq(Nat) /\ o.inbound \in Seq(Nat) /\ o.inbound # <<>>
    BY SMTT(200) DEF RecvMessage, BoundedObjects, StreamObjects, Typed, AppType
  <2>2. p \in BoundedObjects
    BY <2>1, ObjectUpdates
  <2>3. Append(received[s][e], Head(o.inbound)) \in Seq(Nat)
    BY <2>1, SMTT(200)
  <2>4. ObjType'
    BY <2>2, Replaced DEF RecvMessage
  <2>5. AppType'
    BY <2>3 DEF RecvMessage, Typed, AppType
  <2> QED
    BY <2>4, <2>5, Kept DEF RecvMessage, Typed
<1>6. CASE RecvEnd(s, e)
  <2>1. AppType'
    BY <1>6 DEF RecvEnd, Typed, AppType
  <2> QED
    BY <1>6, <2>1, Kept DEF RecvEnd, Typed
<1>7. CASE RecvCancelled(s, e)
  <2> USE <1>7
  <2> DEFINE p == settleCancelled(s, e)
  <2>1. (IF ended[e] THEN terminal[e] ELSE "canceled") \in Errors
    BY ErrorTypes DEF Typed, SessType
  <2>2. p \in BoundedObjects
    BY <2>1, FinishSettles DEF settleCancelled
  <2>3. ObjType'
    BY <2>2, Replaced DEF RecvCancelled
  <2>4. p.fin \in Errors \cup {"none"}
    BY <2>2 DEF BoundedObjects, StreamObjects
  <2>5. AppType'
    BY <2>4 DEF RecvCancelled, Typed, AppType
  <2> QED
    BY <2>3, <2>5, Kept DEF RecvCancelled, Typed
<1> QED
  BY <1>1, <1>2, <1>3, <1>4, <1>5, <1>6, <1>7 DEF CloseSendStep, RecvStep

\* A step of a pump.
LEMMA PumpStep ==
    ASSUME Typed, NEW s \in Streams, NEW e \in Endpoints, PumpItem(s, e)
    PROVE  Typed'
<1> DEFINE o == obj[s][e]
           item == Head(o.outbound)
           popped == [o EXCEPT !.outbound = Tail(o.outbound)]
<1> ConnType /\ SessType /\ EndType /\ ReadType /\ ObjType /\ OpenType /\ ServeType /\ AppType
  BY DEF Typed
<1> o \in BoundedObjects /\ o.outbound # <<>> /\ item \in Items /\ popped \in BoundedObjects
  <2>1. o \in BoundedObjects
    BY DEF ObjType
  <2>2. o.outbound # <<>>
    BY DEF PumpItem
  <2> QED
    BY <2>1, <2>2, ObjectUpdates
<1>1. UNCHANGED <<open, linkUp, streams, opens, sessVars, readVars, openVars, streamGate, streamSlots, herr, appVars>>
  BY DEF PumpItem
<1>2. SessType' /\ ReadType' /\ OpenType' /\ AppType'
  BY <1>1, Kept DEF sessVars, openVars, appVars
<1>3. PICK p \in BoundedObjects : obj' = [obj EXCEPT ![s][e] = p]
  <2>1. item.kind \in {"data", "close", "barrier"} /\ o.csend \in
            {"no", "enqueue", "await", "written", "failed", "nil", "canceled", "broken"}
    BY DEF Items, BoundedObjects, StreamObjects
  <2>2. \A v \in {"running", "stopped", "closed"}, c \in {o.csend, "written", "failed"} :
            /\ [popped EXCEPT !.pump = v] \in BoundedObjects
            /\ [popped EXCEPT !.pump = v, !.csend = c] \in BoundedObjects
    BY <2>1 DEF BoundedObjects, StreamObjects
  <2>3. \/ obj' = [obj EXCEPT ![s][e] = popped]
        \/ obj' = [obj EXCEPT ![s][e] = [popped EXCEPT !.pump = "stopped"]]
        \/ \E c \in {o.csend, "written", "failed"}, v \in {"stopped", "closed"} :
              obj' = [obj EXCEPT ![s][e] = [popped EXCEPT !.pump = v, !.csend = c]]
    BY DEF PumpItem
  <2> QED
    BY <2>2, <2>3
<1>4. wire' \in [Endpoints -> Seq(Frames)] /\ EndType' /\ hpc' \in [Streams -> {"none", "running", "closing",
          "flushing", "barrier", "flushed", "finishing", "releasing", "done"}]
  <2> item.n \in Nat /\ Pump(s, e) \in Threads /\ wire \in [Endpoints -> Seq(Frames)]
    BY Places DEF Items, ConnType
  <2>1. Data(s, item.n) \in Frames /\ CloseSendFrame(s) \in Frames
    BY FrameTypes
  <2>2. CASE item.kind \in {"data", "close"} /\ UNCHANGED hpc
    <3>1. \E f \in Frames : WriteOK(wire, Pump(s, e), f) \/ WriteFails(wire, Pump(s, e))
      BY <2>1, <2>2 DEF PumpItem
    <3> QED
      BY <2>2, <3>1, SendFrameType DEF ServeType
  <2>3. CASE item.kind = "barrier"
    BY <2>3, Kept DEF PumpItem, ServeType
  <2> QED
    BY <2>2, <2>3 DEF PumpItem
<1>5. ConnType' /\ ServeType'
  BY <1>1, <1>4 DEF ConnType, ServeType
<1>6. ObjType'
  BY <1>3, Replaced
<1> QED
  BY <1>2, <1>4, <1>5, <1>6 DEF Typed

\* A step of OpenStream, of the caller or of the goroutine that follows it.
LEMMA OpeningStep ==
    ASSUME Typed, NEW s \in Streams, OpenCheck(s) \/ CancelCaller(s) \/ OpenStep(s) \/ FollowStep(s)
    PROVE  Typed'
<1> DEFINE o == obj[s]["client"]
<1> ConnType /\ SessType /\ EndType /\ ReadType /\ ObjType /\ OpenType /\ ServeType /\ AppType
  BY DEF Typed
<1> /\ o \in BoundedObjects /\ wire \in [Endpoints -> Seq(Frames)]
    /\ "client" \in Endpoints /\ Opener(s) \in Threads /\ Follower(s) \in Threads
    /\ \A f \in {OpenStream(s), StreamEnd(s, "canceled")} : f \in Frames
  BY Places, FrameTypes, ErrorTypes, SMTT(200) DEF ObjType, ConnType
<1> \A err \in Errors : finishStream(s, "client", err) \in BoundedObjects
  BY FinishSettles
<1> {"broken", "canceled"} \subseteq Errors /\ "broken" \in Causes
  BY ErrorTypes DEF Causes
<1>1. CASE OpenCheck(s)
  <2>1. OpenType'
    BY <1>1 DEF OpenCheck, OpenType
  <2> QED
    BY <1>1, <2>1, Kept DEF OpenCheck, Typed
<1>2. CASE CancelCaller(s) \/ FollowFind(s)
  <2>1. OpenType'
    BY <1>2 DEF CancelCaller, FollowFind, OpenType
  <2> QED
    BY <1>2, <2>1, Kept DEF CancelCaller, FollowFind, Typed
<1>3. CASE OpenWrite(s)
  <2> USE <1>3
  <2> UNCHANGED <<open, linkUp, sessVars, readVars, accepted, callerDone, follow, serveVars, appVars>>
    BY DEF OpenWrite
  <2>1. SessType'
    BY DEF OpenWrite, SessType, sessVars
  <2>2. wire' \in [Endpoints -> Seq(Frames)] /\ EndType'
    <3>1. CASE WriteOK(wire, Opener(s), OpenStream(s))
      BY <3>1, SendFrameType
    <3>2. CASE wire' = wire /\ ending' = beginEnd(Opener(s), "broken") /\ ctxDone' = [ctxDone EXCEPT !["client"] = TRUE]
      BY <3>2 DEF EndType, beginEnd
    <3> QED
      BY <3>1, <3>2 DEF OpenWrite
  <2>3. OpenType'
    BY DEF OpenWrite, OpenType
  <2>4. ObjType'
    <3>1. [o EXCEPT !.pump = "running"] \in BoundedObjects
          /\ [finishStream(s, "client", "broken") EXCEPT !.pump = "running"] \in BoundedObjects
      BY ObjectUpdates
    <3>2. \E p \in BoundedObjects : obj' = [obj EXCEPT ![s]["client"] = p]
      BY <3>1 DEF OpenWrite
    <3> QED
      BY <3>2, Replaced
  <2>5. ConnType'
    BY <2>2 DEF ConnType
  <2> QED
    BY <2>1, <2>2, <2>3, <2>4, <2>5, Kept DEF Typed
<1>4. CASE OpenSettled(s)
  <2> USE <1>4
  <2>1. Head(accepted[s]) \in Errors \cup {"ok"} /\ Tail(accepted[s]) \in Seq(Errors \cup {"ok"})
    BY SMTT(200) DEF OpenSettled, OpenType
  <2>2. OpenType' /\ SessType'
    BY <2>1 DEF OpenSettled, OpenType, SessType, sessVars
  <2>3. ObjType'
    <3>1. CASE UNCHANGED obj
      BY <3>1, Kept
    <3>2. CASE Head(accepted[s]) # "ok" /\ obj' = [obj EXCEPT ![s]["client"] = finishStream(s, "client", Head(accepted[s]))]
      BY <2>1, <3>2, Replaced
    <3> QED
      BY <3>1, <3>2 DEF OpenSettled
  <2> QED
    BY <2>2, <2>3, Kept DEF OpenSettled, Typed, connVars
<1>5. CASE OpenCancelled(s)
  <2> USE <1>5
  <2>1. ObjType'
    BY Replaced DEF OpenCancelled
  <2>2. OpenType'
    BY DEF OpenCancelled, OpenType
  <2> QED
    BY <2>1, <2>2, Kept DEF OpenCancelled, Typed
<1>6. CASE OpenNotify(s) \/ FollowNotify(s)
  <2> USE <1>6
  <2>1. wire' \in [Endpoints -> Seq(Frames)] /\ EndType'
    BY SendFrameType DEF OpenNotify, FollowNotify, sendFrame
  <2>2. UNCHANGED <<open, linkUp, streams, opens, sessVars, readVars, obj, accepted, callerDone, serveVars, appVars>>
    BY DEF OpenNotify, FollowNotify
  <2>3. OpenType'
    BY DEF OpenNotify, FollowNotify, OpenType
  <2>4. ConnType'
    BY <2>1, <2>2 DEF ConnType
  <2> QED
    BY <2>1, <2>2, <2>3, <2>4, Kept DEF Typed
<1>7. CASE OpenReturn(s)
  <2>1. OpenType' /\ SessType'
    BY <1>7 DEF OpenReturn, OpenType, SessType, sessVars
  <2> QED
    BY <1>7, <2>1, Kept DEF OpenReturn, Typed, connVars
<1>8. CASE Follow(s)
  <2> USE <1>8
  <2>1. ObjType'
    BY Replaced DEF Follow
  <2>2. OpenType' /\ SessType'
    BY DEF Follow, OpenType, SessType, sessVars
  <2> QED
    BY <2>1, <2>2, Kept DEF Follow, Typed, connVars
<1> QED
  BY <1>1, <1>2, <1>3, <1>4, <1>5, <1>6, <1>7, <1>8 DEF OpenStep, FollowStep

\* A step of the goroutine that serves a stream.
LEMMA ServingStep ==
    ASSUME Typed, NEW s \in Streams, HandlerReturn(s) \/ ServeStep(s)
    PROVE  Typed'
<1> DEFINE o == obj[s]["server"]
<1> ConnType /\ SessType /\ EndType /\ ReadType /\ ObjType /\ OpenType /\ ServeType /\ AppType
  BY DEF Typed
<1> o \in BoundedObjects /\ wire \in [Endpoints -> Seq(Frames)] /\ "server" \in Endpoints /\ Handler(s) \in Threads
  BY Places DEF ObjType, ConnType
<1>1. CASE HandlerReturn(s)
  <2>1. ServeType'
    BY <1>1, SMTT(200) DEF HandlerReturn, ServeType, release
  <2> QED
    BY <1>1, <2>1, Kept DEF HandlerReturn, Typed
<1>2. CASE CloseSendBegin(s, "server")
  BY <1>2, ObjectStep
<1>3. CASE FlushEnqueue(s)
  <2> USE <1>3
  <2>1. ObjType'
    <3>1. [kind |-> "barrier", n |-> 0] \in Items
      BY DEF Items
    <3>2. enqueued(o, "barrier") \in BoundedObjects
      BY <3>1, ObjectUpdates DEF FlushEnqueue, enqueued
    <3> QED
      BY <3>2, Replaced DEF FlushEnqueue
  <2>2. ServeType'
    BY DEF FlushEnqueue, ServeType
  <2> QED
    BY <2>1, <2>2, Kept DEF FlushEnqueue, Typed
<1>4. ASSUME NEW err \in Errors, HandlerFinish(s, err) PROVE Typed'
  <2> USE <1>4
  <2>1. ObjType'
    <3>1. finishStream(s, "server", err) \in BoundedObjects
      BY FinishSettles
    <3> QED
      BY <3>1, Replaced DEF HandlerFinish
  <2>2. ServeType' /\ SessType'
    BY DEF HandlerFinish, ServeType, SessType, sessVars
  <2> QED
    BY <2>1, <2>2, Kept DEF HandlerFinish, Typed, connVars
<1>5. CASE HandlerClosed(s) \/ HandlerFlushed(s) \/ HandlerFlushCancelled(s)
  BY <1>4, <1>5, ErrorTypes DEF HandlerClosed, HandlerFlushed, HandlerFlushCancelled
<1>6. CASE HandlerEnd(s)
  <2> USE <1>6
  <2>1. StreamEnd(s, StatusOf(herr[s])) \in Frames
    BY FrameTypes, ErrorTypes DEF ServeType
  <2>2. wire' \in [Endpoints -> Seq(Frames)] /\ EndType'
    BY <2>1, SendFrameType DEF HandlerEnd, sendFrame
  <2>3. UNCHANGED <<open, linkUp, streams, opens, sessVars, readVars, obj, openVars, streamGate, streamSlots, herr, appVars>>
    BY DEF HandlerEnd
  <2>4. ServeType' /\ ConnType'
    BY <2>2, <2>3 DEF HandlerEnd, ServeType, ConnType
  <2> QED
    BY <2>2, <2>3, <2>4, Kept DEF Typed
<1>7. CASE HandlerRelease(s)
  <2>1. ServeType'
    BY <1>7, SMTT(200) DEF HandlerRelease, ServeType, release
  <2> QED
    BY <1>7, <2>1, Kept DEF HandlerRelease, Typed
<1> QED
  BY <1>1, <1>2, <1>3, <1>5, <1>6, <1>7 DEF ServeStep

\* readLoop stops.
LEMMA StopReadingType ==
    ASSUME Typed, NEW e \in Endpoints, NEW cause \in Causes, StopReading(e, cause), ObjType'
    PROVE  Typed'
<1>1. ConnType /\ EndType /\ ReadType /\ Other(e) \in Endpoints /\ Reader(e) \in Threads
  BY Places DEF Typed
<1>2. <<>> \in Seq(Frames)
  BY SMTT(200)
<1>3. ConnType' /\ ReadType'
  BY <1>1, <1>2 DEF StopReading, ConnType, ReadType
<1>4. EndType'
  BY <1>1, StartEndType DEF StopReading
<1> QED
  BY <1>3, <1>4, Kept DEF StopReading, Typed

\* deliver hands a message over or gives it up.
LEMMA HandOverType ==
    ASSUME Typed, NEW e \in Endpoints, delivering[e] # <<>>, HandOver(e) \/ HandOverFails(e)
    PROVE  Typed'
<1> DEFINE s == delivering[e][1]
<1> ConnType /\ EndType /\ ReadType /\ ObjType
  BY DEF Typed
<1> s \in Streams /\ delivering[e][2] \in Nat /\ "canceled" \in Causes
  BY DEF ReadType, Causes
<1>1. obj[s][e] \in BoundedObjects
  BY DEF ObjType
<1>2. CASE HandOver(e)
  <2> USE <1>2
  <2> DEFINE o == [obj[s][e] EXCEPT !.inbound = Append(@, delivering[e][2])]
  <2>1. o \in BoundedObjects
    BY <1>1, ObjectUpdates DEF HandOver
  <2>2. Unlocked(o) \in BoundedObjects
    BY <2>1, UnlockedSettles
  <2>3. ObjType'
    <3>1. obj' = [obj EXCEPT ![s][e] = Unlocked(o)]
      BY DEF HandOver
    <3> QED
      BY <2>2, <3>1, Replaced
  <2>4. ReadType'
    BY DEF HandOver, ReadType
  <2> QED
    BY <2>3, <2>4, Kept DEF HandOver, Typed, sessionVars, connVars
<1>3. CASE HandOverFails(e)
  <2>1. Unlocked(obj[s][e]) \in BoundedObjects
    BY <1>1, UnlockedSettles
  <2>2. ObjType'
    BY <1>3, <2>1, Replaced DEF HandOverFails
  <2> QED
    BY <1>3, <2>2, StopReadingType DEF HandOverFails
<1> QED
  BY <1>2, <1>3

\* A step of a read loop.
LEMMA ReadingStep ==
    ASSUME Typed, Delivery, NEW e \in Endpoints, ReadStep(e)
    PROVE  Typed'
<1> /\ ConnType /\ SessType /\ EndType /\ ReadType /\ ObjType /\ OpenType /\ ServeType /\ AppType
    /\ "server" \in Endpoints /\ "client" \in Endpoints /\ Other(e) \in Endpoints /\ Reader(e) \in Threads
  BY Places DEF Typed
<1> {"eof", "broken", "canceled", "violation"} \subseteq Causes /\ (UNCHANGED obj => ObjType')
  BY Kept DEF Causes
<1>1. CASE e = "server" /\ ReadOpenStream
  <2> USE <1>1
  <2> DEFINE t == Reader("server")
  <2>1. ArrivesAt("server", "OpenStream")
    BY DEF ReadOpenStream
  <2>2. Consumed("server") \in [Endpoints -> Seq(Frames)]
    BY <2>1, ArrivalType
  <2> PICK s \in Streams : s = Arriving("server").s
    BY <2>1, ArrivalType, SMTT(200)
  <2>3. \E f \in Frames : WriteOK(Consumed("server"), t, f) \/ WriteFails(Consumed("server"), t)
    <3>1. Ack(s) \in Frames /\ StreamEnd(s, "overloaded") \in Frames /\ StreamEnd(s, "refused") \in Frames
      BY FrameTypes, ErrorTypes
    <3> QED
      BY <3>1 DEF ReadOpenStream, sendFrame, acknowledge
  <2>4. wire' \in [Endpoints -> Seq(Frames)] /\ EndType'
    BY <2>2, <2>3, SendFrameType
  <2>5. ObjType'
    <3>1. obj[s]["server"] \in BoundedObjects /\ finishStream(s, "server", "broken") \in BoundedObjects
      BY FinishSettles, ErrorTypes, SMTT(200) DEF ObjType
    <3>2. /\ [obj[s]["server"] EXCEPT !.pump = "running"] \in BoundedObjects
          /\ [finishStream(s, "server", "broken") EXCEPT !.pump = "running"] \in BoundedObjects
      BY <3>1, ObjectUpdates
    <3>3. UNCHANGED obj \/ \E p \in BoundedObjects : obj' = [obj EXCEPT ![s]["server"] = p]
      BY <3>2 DEF ReadOpenStream
    <3>4. ASSUME NEW p \in BoundedObjects, obj' = [obj EXCEPT ![s]["server"] = p] PROVE ObjType'
      BY <3>4, Replaced
    <3> QED
      BY <3>3, <3>4
  <2>6. UNCHANGED <<open, linkUp, opens, sessVars, readVars, openVars, herr, appVars>>
    BY DEF ReadOpenStream
  <2>7. streams' = streams \/ streams' = [streams EXCEPT !["server"] = @ \cup {s}]
    BY DEF ReadOpenStream
  <2>8. /\ streamGate' \in {streamGate, streamGate + 1} /\ streamSlots' \in {streamSlots, streamSlots + 1}
        /\ hpc' = hpc \/ hpc' = [hpc EXCEPT ![s] = "running"]
    BY DEF ReadOpenStream, acquire
  <2> UNCHANGED <<open, linkUp, opens, ended, terminal, closer, herr>>
    BY <2>6 DEF sessVars
  <2>9. SessType'
    BY <2>7, SMTT(200) DEF SessType
  <2>10. ServeType'
    BY <2>8, SMTT(200) DEF ServeType
  <2>11. ConnType'
    BY <2>4 DEF ConnType
  <2> QED
    BY <2>4, <2>5, <2>6, <2>9, <2>10, <2>11, Kept DEF Typed
<1>2. CASE e = "client" /\ ReadAck
  <2> USE <1>2
  <2> DEFINE s == Arriving("client").s
  <2>1. ArrivesAt("client", "Ack") /\ wire' = Consumed("client")
    BY DEF ReadAck
  <2>2. s \in Streams /\ wire' \in [Endpoints -> Seq(Frames)]
    BY <2>1, ArrivalType, SMTT(200)
  <2>3. accepted[s] \in Seq(Errors \cup {"ok"})
    BY <2>2 DEF OpenType
  <2>4. Append(accepted[s], "ok") \in Seq(Errors \cup {"ok"})
    BY <2>3, SMTT(200)
  <2>5. OpenType' /\ SessType' /\ ConnType'
    BY <2>2, <2>4 DEF ReadAck, OpenType, SessType, ConnType, sessVars, takeOpen
  <2> QED
    BY <2>5, Kept DEF ReadAck, Typed
<1>3. CASE ReadData(e)
  <2> USE <1>3
  <2>1. ArrivesAt(e, "Data") /\ wire' = Consumed(e)
    BY DEF ReadData
  <2>2. Arriving(e).s \in Streams /\ Arriving(e).n \in Nat /\ wire' \in [Endpoints -> Seq(Frames)]
    BY <2>1, ArrivalType, SMTT(200)
  <2>3. \/ UNCHANGED readVars
        \/ /\ reader' = [reader EXCEPT ![e] = "deliver"]
           /\ delivering' = [delivering EXCEPT ![e] = <<Arriving(e).s, Arriving(e).n>>]
    BY DEF ReadData
  <2>4. <<Arriving(e).s, Arriving(e).n>> \in Streams \X Nat
    BY <2>2
  <2>5. ReadType'
    BY <2>3, <2>4, SMTT(200) DEF ReadType, readVars
  <2>6. ConnType'
    BY <2>2 DEF ReadData, ConnType
  <2> QED
    BY <2>5, <2>6, Kept DEF ReadData, Typed
<1>4. CASE Deliver(e)
  <2> DEFINE s == delivering[e][1]
  <2> delivering[e] # <<>> /\ s \in Streams
    BY <1>4 DEF Deliver, Delivery, ReadType
  <2>1. CASE HandOver(e) \/ HandOverFails(e)
    BY <2>1, HandOverType
  <2>2. CASE StopReading(e, "violation") /\ UNCHANGED obj
    BY <2>2, StopReadingType
  <2>3. CASE reader' = [reader EXCEPT ![e] = "blocked"]
             /\ UNCHANGED <<connVars, sessionVars, delivering, obj, openVars, serveVars, appVars>>
    <3>1. ReadType'
      BY <2>3 DEF ReadType
    <3> QED
      BY <2>3, <3>1, Kept DEF Typed, connVars, sessionVars
  <2>4. CASE /\ obj' = [obj EXCEPT ![s][e] = finishStream(s, e, "tooLarge")]
             /\ sendFrame(wire, Reader(e), StreamEnd(s, "tooLarge"))
             /\ reader' = [reader EXCEPT ![e] = "read"]
             /\ delivering' = [delivering EXCEPT ![e] = <<>>]
             /\ UNCHANGED <<open, linkUp, streams, opens, sessVars, openVars, serveVars, appVars>>
    <3> USE <2>4
    <3>1. finishStream(s, e, "tooLarge") \in BoundedObjects /\ StreamEnd(s, "tooLarge") \in Frames
      BY FinishSettles, ErrorTypes, FrameTypes
    <3>2. ObjType'
      BY <3>1, Replaced
    <3>3. wire \in [Endpoints -> Seq(Frames)]
      BY DEF ConnType
    <3>4. wire' \in [Endpoints -> Seq(Frames)] /\ EndType'
      BY <3>1, <3>3, SendFrameType DEF sendFrame
    <3>5. ReadType' /\ ConnType'
      BY <3>4 DEF ReadType, ConnType
    <3> QED
      BY <3>2, <3>4, <3>5, Kept DEF Typed
  <2> QED
    BY <1>4, <2>1, <2>2, <2>3, <2>4 DEF Deliver
<1>5. CASE DeliverBlocked(e)
  <2>1. delivering[e] # <<>>
    BY <1>5 DEF DeliverBlocked, Delivery
  <2> QED
    BY <1>5, <2>1, HandOverType DEF DeliverBlocked
<1>6. CASE ReadCloseSend(e)
  <2> USE <1>6
  <2> DEFINE s == Arriving(e).s
  <2>1. s \in Streams /\ wire' \in [Endpoints -> Seq(Frames)]
    BY ArrivalType, SMTT(200) DEF ReadCloseSend
  <2>2. closeInboundHalf(obj[s][e]) \in BoundedObjects
    BY <2>1, ObjectUpdates DEF ObjType
  <2>3. obj' = obj \/ obj' = [obj EXCEPT ![s][e] = closeInboundHalf(obj[s][e])]
    BY DEF ReadCloseSend
  <2>4. ObjType' /\ ConnType'
    BY <2>1, <2>2, <2>3, Replaced DEF ReadCloseSend, ConnType
  <2> QED
    BY <2>4, Kept DEF ReadCloseSend, Typed
<1>7. CASE ReadStreamEnd(e)
  <2> USE <1>7
  <2> DEFINE f == Arriving(e)
             failure == IF f.status = "ok" THEN "closed" ELSE f.status
  <2> f.s \in Streams /\ f.status \in Statuses /\ wire' \in [Endpoints -> Seq(Frames)]
    BY ArrivalType, SMTT(200) DEF ReadStreamEnd
  <2>1. accepted[f.s] \in Seq(Errors \cup {"ok"}) /\ f.status \in Errors \cup {"ok"} /\ failure \in Errors
    BY ErrorTypes DEF OpenType
  <2>2. Append(accepted[f.s], f.status) \in Seq(Errors \cup {"ok"})
    BY <2>1, SMTT(200)
  <2>3. OpenType'
    BY <2>2 DEF ReadStreamEnd, OpenType
  <2>4. SessType' /\ ConnType'
    BY DEF ReadStreamEnd, SessType, ConnType, sessVars, takeOpen
  <2>5. ObjType'
    <3>1. finishStream(f.s, e, failure) \in BoundedObjects
      BY <2>1, FinishSettles
    <3>2. UNCHANGED obj \/ obj' = [obj EXCEPT ![f.s][e] = finishStream(f.s, e, failure)]
      BY DEF ReadStreamEnd
    <3> QED
      BY <3>1, <3>2, Replaced
  <2> QED
    BY <2>3, <2>4, <2>5, Kept DEF ReadStreamEnd, Typed
<1>8. CASE ReadClose(e) \/ ReadEOF(e) \/ ReadError(e)
  BY <1>8, StopReadingType DEF ReadClose, ReadEOF, ReadError
<1> QED
  BY <1>1, <1>2, <1>3, <1>4, <1>5, <1>6, <1>7, <1>8 DEF ReadStep

\* A step of Close, of end() or of the network.
LEMMA EndingStep ==
    ASSUME Typed, \/ \E e \in Endpoints : Close(e)
                  \/ \E t \in Threads : EndRelease(t)
                  \/ LoseLink
    PROVE  Typed'
<1> ConnType /\ SessType /\ EndType /\ ReadType /\ ObjType /\ OpenType /\ ServeType /\ AppType
  BY DEF Typed
<1>1. ASSUME NEW e \in Endpoints, Close(e) PROVE Typed'
  <2> USE <1>1
  <2>1. Closer(e) \in Threads /\ CloseFrame \in Frames /\ wire \in [Endpoints -> Seq(Frames)]
        /\ "nil" \in Causes /\ "broken" \in Causes
    BY Places, FrameTypes DEF Causes, ConnType
  <2>2. wire' \in [Endpoints -> Seq(Frames)] /\ EndType'
    BY <2>1, TransmitType, StartEndType, SMTT(200) DEF Close
  <2>3. UNCHANGED <<open, linkUp, streams, opens, ended, terminal, readVars, obj, openVars, serveVars, appVars>>
    BY DEF Close
  <2>4. ConnType'
    BY <2>2, <2>3 DEF ConnType
  <2>5. SessType'
    BY DEF Close, SessType
  <2> QED
    BY <2>2, <2>3, <2>4, <2>5, Kept DEF Typed
<1>2. ASSUME NEW t \in Threads, EndRelease(t) PROVE Typed'
  <2> USE <1>2
  <2> DEFINE e == Home(t)
             failure == IF ended[e] THEN terminal[e] ELSE terminalOf(ending[t])
  <2> e \in Endpoints /\ ending[t] \in Causes
    BY Places, SMTT(200) DEF EndRelease, Ready, EndType
  <2> failure \in Errors /\ streamCause(ending[t]) \in Errors
    BY ErrorTypes DEF SessType
  <2> UNCHANGED <<wire, linkUp, closer, ctxDone, readVars, opc, callerDone, follow, serveVars, appVars>>
    BY DEF EndRelease
  <2>1. ConnType'
    BY DEF EndRelease, ConnType
  <2>2. SessType'
    BY ErrorTypes DEF EndRelease, SessType
  <2>3. EndType'
    BY DEF EndRelease, EndType
  <2>4. ObjType'
    <3>1. \A s \in Streams : finishStream(s, e, streamCause(ending[t])) \in BoundedObjects
      BY FinishSettles
    <3>2. obj' = finishStreams(e, streamCause(ending[t]))
      BY DEF EndRelease
    <3>3. \A s \in Streams : [obj[s] EXCEPT ![e] = finishStream(s, e, streamCause(ending[t]))]
                                \in [Endpoints -> BoundedObjects]
      BY <3>1 DEF ObjType
    <3> QED
      BY <3>2, <3>3 DEF ObjType, finishStreams
  <2>5. OpenType'
    <3>1. \A s \in Streams : accepted[s] \in Seq(Errors \cup {"ok"})
                             /\ Append(accepted[s], failure) \in Seq(Errors \cup {"ok"})
      BY SMTT(200) DEF OpenType
    <3>2. accepted' = [s \in Streams |-> IF e = "client" /\ s \in opens THEN Append(accepted[s], failure) ELSE accepted[s]]
      BY DEF EndRelease
    <3>3. accepted' \in [Streams -> Seq(Errors \cup {"ok"})]
      BY <3>1, <3>2
    <3> QED
      BY <3>3 DEF OpenType
  <2> QED
    BY <2>1, <2>2, <2>3, <2>4, <2>5, Kept DEF Typed
<1>3. CASE LoseLink
  <2>1. ConnType'
    BY <1>3 DEF LoseLink, ConnType
  <2> QED
    BY <1>3, <2>1, Kept DEF LoseLink, Typed
<1> QED
  BY <1>1, <1>2, <1>3

\* Every step keeps the types.
LEMMA NextTyped == Typed /\ Delivery /\ [Next]_vars => Typed'
<1> SUFFICES ASSUME Typed, Delivery, [Next]_vars PROVE Typed'
  OBVIOUS
<1>1. CASE UNCHANGED vars
  BY <1>1, Kept DEF vars, Typed
<1>2. ASSUME NEW s \in Streams, HandlerReturn(s) \/ ServeStep(s) PROVE Typed'
  BY <1>2, ServingStep
<1>3. ASSUME NEW s \in Streams, OpenCheck(s) \/ CancelCaller(s) \/ OpenStep(s) \/ FollowStep(s) PROVE Typed'
  BY <1>3, OpeningStep
<1>4. ASSUME NEW s \in Streams, NEW e \in Endpoints,
             \/ Send(s, e) \/ CloseSendBegin(s, e) \/ CloseSendStep(s, e) \/ RecvStep(s, e)
      PROVE  Typed'
  BY <1>4, ObjectStep
<1>5. ASSUME NEW s \in Streams, NEW e \in Endpoints, PumpItem(s, e) PROVE Typed'
  BY <1>5, PumpStep
<1>6. ASSUME NEW e \in Endpoints, ReadStep(e) PROVE Typed'
  BY <1>6, ReadingStep
<1> QED
  BY <1>1, <1>2, <1>3, <1>4, <1>5, <1>6, EndingStep DEF Next

-----------------------------------------------------------------------------
(* The lock of the inbound queue.                                            *)

\* finishStream, or nothing, happens to how a stream ends.
SameEnds ==
    \A r \in Streams, d \in Endpoints :
        \/ obj'[r][d].inb = obj[r][d].inb /\ obj'[r][d].fin = obj[r][d].fin
        \/ \E err \in Errors : /\ obj'[r][d].inb = finishStream(r, d, err).inb
                               /\ obj'[r][d].fin = finishStream(r, d, err).fin

\* An object is replaced by one that is as finished as it, or has just been finished.
LEMMA ReplacedEnds ==
    ASSUME ObjType, NEW s \in Streams, NEW e \in Endpoints, NEW o,
           obj' = [obj EXCEPT ![s][e] = o],
           \/ o.inb = obj[s][e].inb /\ o.fin = obj[s][e].fin
           \/ \E err \in Errors : o.inb = finishStream(s, e, err).inb /\ o.fin = finishStream(s, e, err).fin
    PROVE  SameEnds
<1>1. obj'[s][e] = o /\ \A r \in Streams, d \in Endpoints : r # s \/ d # e => obj'[r][d] = obj[r][d]
  BY DEF ObjType
<1>2. SUFFICES ASSUME NEW r \in Streams, NEW d \in Endpoints
               PROVE  \/ obj'[r][d].inb = obj[r][d].inb /\ obj'[r][d].fin = obj[r][d].fin
                      \/ \E err \in Errors : /\ obj'[r][d].inb = finishStream(r, d, err).inb
                                             /\ obj'[r][d].fin = finishStream(r, d, err).fin
  BY DEF SameEnds
<1>3. CASE r = s /\ d = e
  BY <1>1, <1>3, SMTT(200)
<1>4. CASE r # s \/ d # e
  BY <1>1, <1>4
<1> QED
  BY <1>3, <1>4

\* A stream that ends, at one end.
LEMMA FinishedEnds ==
    ASSUME ObjType, NEW s \in Streams, NEW e \in Endpoints, NEW err \in Errors,
           obj' = [obj EXCEPT ![s][e] = finishStream(s, e, err)]
    PROVE  SameEnds
<1>1. finishStream(s, e, err) \in BoundedObjects
  BY FinishSettles
<1> QED
  BY <1>1, ReplacedEnds

\* What the pump does to the object it serves.
PumpTakes(s, e, p) ==
    /\ obj' = [obj EXCEPT ![s][e] = p]
    /\ p.inbound = obj[s][e].inbound /\ p.inb = obj[s][e].inb /\ p.fin = obj[s][e].fin
    /\ obj[s][e].outbound # <<>> /\ p.outbound = Tail(obj[s][e].outbound) /\ obj[s][e].pump = "running"
    /\ \/ /\ Head(obj[s][e].outbound).kind = "data" /\ p.csend = obj[s][e].csend /\ UNCHANGED hpc
          /\ \/ /\ WriteOK(wire, Pump(s, e), Data(s, Head(obj[s][e].outbound).n))
                /\ p.pump = "running"
             \/ WriteFails(wire, Pump(s, e)) /\ p.pump = "stopped"
       \/ /\ Head(obj[s][e].outbound).kind = "close" /\ UNCHANGED hpc
          /\ \/ /\ WriteOK(wire, Pump(s, e), CloseSendFrame(s)) /\ p.pump = "closed"
                /\ p.csend = IF obj[s][e].csend = "await" THEN "written" ELSE obj[s][e].csend
             \/ /\ WriteFails(wire, Pump(s, e)) /\ p.pump = "stopped"
                /\ p.csend = IF obj[s][e].csend = "await" THEN "failed" ELSE obj[s][e].csend
       \/ /\ Head(obj[s][e].outbound).kind = "barrier" /\ p.csend = obj[s][e].csend /\ p.pump = "running"
          /\ hpc' = [hpc EXCEPT ![s] = IF @ = "barrier" THEN "flushed" ELSE @]
          /\ UNCHANGED <<wire, ending, ctxDone>>

\* The pump takes one item of the queue, and writes what it stands for.
LEMMA PumpEffect ==
    ASSUME ObjType, NEW s \in Streams, NEW e \in Endpoints, PumpItem(s, e)
    PROVE  \E p : PumpTakes(s, e, p)
<1> USE DEF PumpTakes
<1> DEFINE o == obj[s][e]
           item == Head(o.outbound)
           popped == [o EXCEPT !.outbound = Tail(o.outbound)]
           stopped == [popped EXCEPT !.pump = "stopped"]
           closed(c) == [popped EXCEPT !.pump = "closed", !.csend = c]
           failed(c) == [popped EXCEPT !.pump = "stopped", !.csend = c]
<1> o \in StreamObjects
  BY DEF ObjType, BoundedObjects
<1> o.outbound # <<>> /\ o.pump = "running"
  BY DEF PumpItem
<1>1. /\ popped.inbound = o.inbound /\ popped.inb = o.inb /\ popped.fin = o.fin /\ popped.outbound = Tail(o.outbound)
      /\ popped.csend = o.csend /\ popped.pump = o.pump
  BY DEF StreamObjects
<1>2. /\ stopped.inbound = o.inbound /\ stopped.inb = o.inb /\ stopped.fin = o.fin
      /\ stopped.outbound = Tail(o.outbound) /\ stopped.csend = o.csend /\ stopped.pump = "stopped"
  BY DEF StreamObjects
<1>3. \A c : /\ closed(c).inbound = o.inbound /\ closed(c).inb = o.inb /\ closed(c).fin = o.fin
             /\ closed(c).outbound = Tail(o.outbound) /\ closed(c).csend = c /\ closed(c).pump = "closed"
             /\ failed(c).inbound = o.inbound /\ failed(c).inb = o.inb /\ failed(c).fin = o.fin
             /\ failed(c).outbound = Tail(o.outbound) /\ failed(c).csend = c /\ failed(c).pump = "stopped"
  BY DEF StreamObjects
<1> \/ /\ item.kind = "data" /\ UNCHANGED hpc
       /\ \/ WriteOK(wire, Pump(s, e), Data(s, item.n)) /\ obj' = [obj EXCEPT ![s][e] = popped]
          \/ WriteFails(wire, Pump(s, e)) /\ obj' = [obj EXCEPT ![s][e] = stopped]
    \/ /\ item.kind = "close" /\ UNCHANGED hpc
       /\ \/ /\ WriteOK(wire, Pump(s, e), CloseSendFrame(s))
             /\ obj' = [obj EXCEPT ![s][e] = closed(IF o.csend = "await" THEN "written" ELSE o.csend)]
          \/ /\ WriteFails(wire, Pump(s, e))
             /\ obj' = [obj EXCEPT ![s][e] = failed(IF o.csend = "await" THEN "failed" ELSE o.csend)]
    \/ /\ item.kind = "barrier" /\ obj' = [obj EXCEPT ![s][e] = popped]
       /\ hpc' = [hpc EXCEPT ![s] = IF @ = "barrier" THEN "flushed" ELSE @]
       /\ UNCHANGED <<wire, ending, ctxDone>>
  BY DEF PumpItem
<1> HIDE DEF popped, stopped, closed, failed
<1>4. CASE item.kind = "data"
  BY <1>1, <1>2, <1>4
<1>5. CASE item.kind = "close"
  <2> USE <1>5
  <2> UNCHANGED hpc /\ \E c :
          \/ /\ WriteOK(wire, Pump(s, e), CloseSendFrame(s)) /\ obj' = [obj EXCEPT ![s][e] = closed(c)]
             /\ c = IF o.csend = "await" THEN "written" ELSE o.csend
          \/ /\ WriteFails(wire, Pump(s, e)) /\ obj' = [obj EXCEPT ![s][e] = failed(c)]
             /\ c = IF o.csend = "await" THEN "failed" ELSE o.csend
    OBVIOUS
  <2> QED
    <3>1. PICK c :
              \/ /\ WriteOK(wire, Pump(s, e), CloseSendFrame(s)) /\ obj' = [obj EXCEPT ![s][e] = closed(c)]
                 /\ c = IF o.csend = "await" THEN "written" ELSE o.csend
              \/ /\ WriteFails(wire, Pump(s, e)) /\ obj' = [obj EXCEPT ![s][e] = failed(c)]
                 /\ c = IF o.csend = "await" THEN "failed" ELSE o.csend
      OBVIOUS
    <3>2. CASE obj' = [obj EXCEPT ![s][e] = closed(c)] /\ WriteOK(wire, Pump(s, e), CloseSendFrame(s))
               /\ c = IF o.csend = "await" THEN "written" ELSE o.csend
      <4>1. PICK q : q = closed(c)
        OBVIOUS
      <4>2. /\ q.inbound = o.inbound /\ q.inb = o.inb /\ q.fin = o.fin /\ q.outbound = Tail(o.outbound)
            /\ q.csend = c /\ q.pump = "closed"
        BY <1>3, <4>1
      <4> QED
        BY <3>2, <4>1, <4>2
    <3>3. CASE obj' = [obj EXCEPT ![s][e] = failed(c)] /\ WriteFails(wire, Pump(s, e))
               /\ c = IF o.csend = "await" THEN "failed" ELSE o.csend
      <4>1. PICK q : q = failed(c)
        OBVIOUS
      <4>2. /\ q.inbound = o.inbound /\ q.inb = o.inb /\ q.fin = o.fin /\ q.outbound = Tail(o.outbound)
            /\ q.csend = c /\ q.pump = "stopped"
        BY <1>3, <4>1
      <4> QED
        BY <3>3, <4>1, <4>2
    <3> QED
      BY <3>1, <3>2, <3>3
<1>6. CASE item.kind = "barrier"
  BY <1>1, <1>6
<1> QED
  BY <1>4, <1>5, <1>6

\* The steps that are not a read loop's.
LEMMA OthersEnds ==
    ASSUME Typed, \/ UNCHANGED vars
                  \/ \E s \in Streams : OpenCheck(s) \/ CancelCaller(s) \/ OpenStep(s) \/ FollowStep(s)
                  \/ \E s \in Streams : HandlerReturn(s) \/ ServeStep(s)
                  \/ \E s \in Streams, e \in Endpoints :
                         \/ Send(s, e) \/ CloseSendBegin(s, e) \/ CloseSendStep(s, e) \/ RecvStep(s, e)
                         \/ PumpItem(s, e)
                  \/ \E e \in Endpoints : Close(e)
                  \/ \E t \in Threads : EndRelease(t)
                  \/ LoseLink
    PROVE  SameEnds /\ UNCHANGED readVars
<1> ObjType /\ "client" \in Endpoints /\ "server" \in Endpoints
  BY Places DEF Typed
<1>1. ASSUME UNCHANGED obj PROVE SameEnds
  BY <1>1 DEF SameEnds
<1>2. ASSUME NEW s \in Streams,
             OpenCheck(s) \/ CancelCaller(s) \/ OpenNotify(s) \/ OpenReturn(s) \/ FollowFind(s) \/ FollowNotify(s)
      PROVE  SameEnds /\ UNCHANGED readVars
  BY <1>1, <1>2 DEF OpenCheck, CancelCaller, OpenNotify, OpenReturn, FollowFind, FollowNotify, engineVars
<1>3. ASSUME NEW s \in Streams, OpenWrite(s) PROVE SameEnds /\ UNCHANGED readVars
  <2> USE <1>3
  <2> DEFINE p == [obj[s]["client"] EXCEPT !.pump = "running"]
             q == [finishStream(s, "client", "broken") EXCEPT !.pump = "running"]
  <2>1. obj[s]["client"] \in BoundedObjects /\ "broken" \in Errors
    BY ErrorTypes DEF ObjType
  <2> obj[s]["client"] \in BoundedObjects /\ finishStream(s, "client", "broken") \in BoundedObjects
      /\ "broken" \in Errors
    BY <2>1, FinishSettles
  <2>2. /\ p.inb = obj[s]["client"].inb /\ p.fin = obj[s]["client"].fin
        /\ q.inb = finishStream(s, "client", "broken").inb /\ q.fin = finishStream(s, "client", "broken").fin
    BY DEF BoundedObjects, StreamObjects
  <2>3. obj' = [obj EXCEPT ![s]["client"] = p] \/ obj' = [obj EXCEPT ![s]["client"] = q]
    BY DEF OpenWrite
  <2> HIDE DEF p, q
  <2>4. CASE obj' = [obj EXCEPT ![s]["client"] = p]
    BY <2>2, <2>4, ReplacedEnds DEF OpenWrite
  <2>5. CASE obj' = [obj EXCEPT ![s]["client"] = q]
    BY <2>2, <2>5, ReplacedEnds DEF OpenWrite
  <2> QED
    BY <2>3, <2>4, <2>5
<1>4. ASSUME NEW s \in Streams, OpenSettled(s) \/ OpenCancelled(s) \/ Follow(s) PROVE SameEnds /\ UNCHANGED readVars
  <2>1. "canceled" \in Errors /\ (OpenSettled(s) => Head(accepted[s]) \in Errors \cup {"ok"})
    BY ErrorTypes, SMTT(200) DEF Typed, OpenType, OpenSettled
  <2>2. UNCHANGED obj \/ \E err \in Errors : obj' = [obj EXCEPT ![s]["client"] = finishStream(s, "client", err)]
    BY <1>4, <2>1 DEF OpenSettled, OpenCancelled, Follow
  <2>3. SameEnds
    BY <1>1, <2>2, FinishedEnds
  <2> QED
    BY <1>4, <2>3 DEF OpenSettled, OpenCancelled, Follow, engineVars
<1>5. ASSUME NEW s \in Streams, HandlerReturn(s) \/ HandlerEnd(s) \/ HandlerRelease(s)
      PROVE  SameEnds /\ UNCHANGED readVars
  BY <1>1, <1>5 DEF HandlerReturn, HandlerEnd, HandlerRelease, engineVars
<1>6. ASSUME NEW s \in Streams, HandlerClosed(s) \/ HandlerFlushed(s) \/ HandlerFlushCancelled(s)
      PROVE  SameEnds /\ UNCHANGED readVars
  <2>1. PICK err \in Errors : HandlerFinish(s, err)
    BY <1>6, ErrorTypes DEF HandlerClosed, HandlerFlushed, HandlerFlushCancelled
  <2>2. SameEnds
    BY <2>1, FinishedEnds DEF HandlerFinish
  <2> QED
    BY <2>1, <2>2 DEF HandlerFinish
<1>7. ASSUME NEW s \in Streams, NEW e \in Endpoints,
             \/ Send(s, e) \/ CloseSendBegin(s, e) \/ CloseSendStep(s, e) \/ RecvMessage(s, e) \/ PumpItem(s, e)
             \/ (e = "server" /\ FlushEnqueue(s))
      PROVE  SameEnds /\ UNCHANGED readVars
  <2> DEFINE o == obj[s][e]
  <2> o \in BoundedObjects
    BY DEF ObjType
  <2>1. \E p : obj' = [obj EXCEPT ![s][e] = p] /\ p.inb = o.inb /\ p.fin = o.fin
    <3>1. CASE Send(s, e)
      <4> DEFINE p == [o EXCEPT !.outbound = Append(@, [kind |-> "data", n |-> sent[s][e] + 1])]
      <4>1. p.inb = o.inb /\ p.fin = o.fin
        BY DEF BoundedObjects, StreamObjects
      <4> QED
        BY <3>1, <4>1 DEF Send
    <3>2. CASE CloseSendBegin(s, e) \/ CloseSendWritten(s, e) \/ CloseSendCancelled(s, e)
      <4>1. PICK c : obj' = [obj EXCEPT ![s][e] = [o EXCEPT !.csend = c]]
        BY <3>2 DEF CloseSendBegin, CloseSendWritten, CloseSendCancelled
      <4>2. [o EXCEPT !.csend = c].inb = o.inb /\ [o EXCEPT !.csend = c].fin = o.fin
        BY DEF BoundedObjects, StreamObjects
      <4> QED
        BY <4>1, <4>2
    <3>3. CASE CloseSendEnqueue(s, e)
      <4> DEFINE p == [enqueued(o, "close") EXCEPT !.csend = "await"]
      <4>1. p.inb = o.inb /\ p.fin = o.fin
        BY DEF enqueued, BoundedObjects, StreamObjects
      <4> QED
        BY <3>3, <4>1 DEF CloseSendEnqueue
    <3>4. CASE e = "server" /\ FlushEnqueue(s)
      <4> DEFINE p == enqueued(o, "barrier")
      <4>1. p.inb = o.inb /\ p.fin = o.fin
        BY DEF enqueued, BoundedObjects, StreamObjects
      <4> QED
        BY <3>4, <4>1 DEF FlushEnqueue
    <3>5. CASE RecvMessage(s, e)
      <4> DEFINE p == [o EXCEPT !.inbound = Tail(@)]
      <4>1. p.inb = o.inb /\ p.fin = o.fin
        BY DEF BoundedObjects, StreamObjects
      <4> QED
        BY <3>5, <4>1 DEF RecvMessage
    <3>6. CASE PumpItem(s, e)
      BY <3>6, PumpEffect, SMTT(200) DEF PumpTakes
    <3> QED
      BY <1>7, <3>1, <3>2, <3>3, <3>4, <3>5, <3>6 DEF CloseSendStep
  <2>2. SameEnds
    BY <2>1, ReplacedEnds
  <2>3. UNCHANGED readVars
    BY <1>7 DEF Send, CloseSendBegin, CloseSendStep, CloseSendEnqueue, CloseSendWritten, CloseSendCancelled, RecvMessage,
                PumpItem, FlushEnqueue, engineVars, objOnly
  <2> QED
    BY <2>2, <2>3
<1>8. ASSUME NEW s \in Streams, NEW e \in Endpoints, RecvEnd(s, e) PROVE SameEnds /\ UNCHANGED readVars
  BY <1>1, <1>8 DEF RecvEnd, engineVars
<1>9. ASSUME NEW s \in Streams, NEW e \in Endpoints, RecvCancelled(s, e) PROVE SameEnds /\ UNCHANGED readVars
  <2>1. PICK err \in Errors : settleCancelled(s, e) = finishStream(s, e, err)
    BY ErrorTypes DEF settleCancelled, Typed, SessType
  <2>2. SameEnds
    BY <1>9, <2>1, FinishedEnds DEF RecvCancelled
  <2> QED
    BY <1>9, <2>2 DEF RecvCancelled, engineVars
<1>10. ASSUME NEW t \in Threads, EndRelease(t) PROVE SameEnds /\ UNCHANGED readVars
  <2>1. PICK err \in Errors : obj' = finishStreams(Home(t), err)
    BY <1>10, ErrorTypes DEF EndRelease, Ready, Typed, EndType
  <2>2. \A r \in Streams, d \in Endpoints : obj'[r][d] = obj[r][d] \/ obj'[r][d] = finishStream(r, d, err)
    BY <2>1 DEF finishStreams, ObjType
  <2> QED
    BY <1>10, <2>2 DEF EndRelease, SameEnds
<1>11. CASE (\E e \in Endpoints : Close(e)) \/ LoseLink \/ UNCHANGED vars
  BY <1>1, <1>11 DEF Close, LoseLink, vars, engineVars
<1> QED
  BY <1>2, <1>3, <1>4, <1>5, <1>6, <1>7, <1>8, <1>9, <1>10, <1>11
  DEF OpenStep, FollowStep, ServeStep, RecvStep

\* A finished stream's queue and a blocked deliver, when readVars stay.
LEMMA LockKept ==
    ASSUME Typed, DeliverOnOpenQueue, Finished, Delivery, SameEnds, UNCHANGED readVars
    PROVE  DeliverOnOpenQueue' /\ Finished' /\ Delivery'
<1>1. ObjType /\ ReadType
  BY DEF Typed
<1>2. Delivery' /\ \A s \in Streams, e \in Endpoints : InboundLocked(s, e)' = InboundLocked(s, e)
  BY DEF Delivery, readVars, InboundLocked
<1>3. ASSUME NEW s \in Streams, NEW e \in Endpoints
      PROVE  /\ InboundLocked(s, e) => obj'[s][e].inb = obj[s][e].inb
             /\ obj'[s][e].fin # "none" => obj'[s][e].inb # "open" \/ InboundLocked(s, e)
  <2>1. CASE obj'[s][e].inb = obj[s][e].inb /\ obj'[s][e].fin = obj[s][e].fin
    BY <2>1 DEF Finished
  <2>2. ASSUME NEW err \in Errors, obj'[s][e].inb = finishStream(s, e, err).inb,
               obj'[s][e].fin = finishStream(s, e, err).fin
        PROVE  /\ InboundLocked(s, e) => obj'[s][e].inb = obj[s][e].inb
               /\ obj'[s][e].fin # "none" => obj'[s][e].inb # "open" \/ InboundLocked(s, e)
    <3>1. /\ InboundLocked(s, e) => finishStream(s, e, err).inb = obj[s][e].inb
          /\ finishStream(s, e, err).inb = "open" => obj[s][e].fin # "none" \/ InboundLocked(s, e)
          /\ finishStream(s, e, err).inb = "open" => obj[s][e].inb = "open"
      BY <1>1, FinishSettles DEF Settles
    <3> QED
      BY <2>2, <3>1 DEF Finished
  <2> QED
    BY <2>1, <2>2 DEF SameEnds
<1>4. DeliverOnOpenQueue'
  <2> SUFFICES ASSUME NEW e \in Endpoints, reader[e] = "blocked" PROVE obj'[delivering[e][1]][e].inb = "open"
    BY DEF DeliverOnOpenQueue, readVars
  <2>1. delivering[e] # <<>> /\ delivering[e][1] \in Streams
    BY <1>1 DEF Delivery, ReadType
  <2>2. InboundLocked(delivering[e][1], e) /\ obj[delivering[e][1]][e].inb = "open"
    BY DEF DeliverOnOpenQueue, InboundLocked
  <2> QED
    BY <1>3, <2>1, <2>2
<1>5. Finished'
  BY <1>2, <1>3 DEF Finished
<1> QED
  BY <1>2, <1>4, <1>5

\* A read loop that does not block holds no lock afterwards.
LEMMA LockMoved ==
    ASSUME Typed, DeliverOnOpenQueue, Finished, Delivery, NEW e \in Endpoints, NEW v \in {"read", "deliver", "stopped"},
           NEW x \in {<<>>} \cup (Streams \X Nat), v = "deliver" <=> x # <<>>,
           reader' = [reader EXCEPT ![e] = v], delivering' = [delivering EXCEPT ![e] = x],
           \A s \in Streams, d \in Endpoints : d # e => obj'[s][d] = obj[s][d],
           \A s \in Streams : obj'[s][e].fin # "none" => obj'[s][e].inb # "open"
    PROVE  DeliverOnOpenQueue' /\ Finished' /\ Delivery'
<1> ObjType /\ ReadType
  BY DEF Typed
<1>1. Delivery'
  BY DEF Delivery, ReadType
<1>2. ASSUME NEW d \in Endpoints, d # e PROVE reader'[d] = reader[d] /\ delivering'[d] = delivering[d]
  BY <1>2 DEF ReadType
<1>3. reader'[e] # "blocked"
  BY DEF ReadType
<1>4. DeliverOnOpenQueue'
  <2> SUFFICES ASSUME NEW d \in Endpoints, reader'[d] = "blocked" PROVE obj'[delivering'[d][1]][d].inb = "open"
    BY DEF DeliverOnOpenQueue
  <2>1. d # e
    BY <1>3
  <2>2. delivering[d] # <<>> /\ delivering[d][1] \in Streams
    BY <1>2, <2>1 DEF Delivery, ReadType
  <2> QED
    BY <1>2, <2>1, <2>2, SMTT(200) DEF DeliverOnOpenQueue
<1>5. Finished'
  <2> SUFFICES ASSUME NEW s \in Streams, NEW d \in Endpoints, obj'[s][d].fin # "none"
               PROVE  obj'[s][d].inb # "open" \/ InboundLocked(s, d)'
    BY DEF Finished
  <2>1. CASE d = e
    BY <2>1
  <2>2. CASE d # e
    BY <1>2, <2>2, SMTT(200) DEF Finished, InboundLocked
  <2> QED
    BY <2>1, <2>2
<1> QED
  BY <1>1, <1>4, <1>5

Locks == DeliverOnOpenQueue /\ Finished /\ Delivery

\* A step of a read loop.
LEMMA LockRead ==
    ASSUME Typed, Locks, NEW e \in Endpoints, ReadStep(e)
    PROVE  Locks'
<1> /\ ObjType /\ ReadType /\ ConnType /\ DeliverOnOpenQueue /\ Finished /\ Delivery
    /\ "client" \in Endpoints /\ "server" \in Endpoints
  BY Places DEF Typed, Locks
<1> UNCHANGED obj => SameEnds
  BY DEF SameEnds
<1> SameEnds /\ UNCHANGED readVars => Locks'
  BY LockKept DEF Locks
<1>1. ASSUME reader[e] # "blocked", NEW s \in Streams PROVE obj[s][e].fin # "none" => obj[s][e].inb # "open"
  BY <1>1, SMTT(200) DEF Finished, InboundLocked
<1>2. /\ \A cause : StopReading(e, cause) => /\ reader' = [reader EXCEPT ![e] = "stopped"]
                                            /\ delivering' = [delivering EXCEPT ![e] = <<>>]
      /\ HandOver(e) => /\ reader' = [reader EXCEPT ![e] = "read"]
                        /\ delivering' = [delivering EXCEPT ![e] = <<>>]
  BY DEF StopReading, HandOver
<1>3. ASSUME NEW cause, StopReading(e, cause), UNCHANGED obj, reader[e] # "blocked" PROVE Locks'
  BY <1>1, <1>2, <1>3, LockMoved, SMTT(200) DEF Locks
<1>4. CASE e = "server" /\ ReadOpenStream
  <2> USE <1>4
  <2>1. PICK s \in Streams : s = Arriving("server").s
    BY ArrivalType, SMTT(200) DEF ReadOpenStream
  <2> DEFINE p == [obj[s]["server"] EXCEPT !.pump = "running"]
             q == [finishStream(s, "server", "broken") EXCEPT !.pump = "running"]
  <2>2. obj[s]["server"] \in BoundedObjects /\ "broken" \in Errors
    BY ErrorTypes DEF ObjType
  <2>3. obj[s]["server"] \in BoundedObjects /\ finishStream(s, "server", "broken") \in BoundedObjects /\ "broken" \in Errors
    BY <2>2, FinishSettles
  <2>4. /\ p.inb = obj[s]["server"].inb /\ p.fin = obj[s]["server"].fin
        /\ q.inb = finishStream(s, "server", "broken").inb /\ q.fin = finishStream(s, "server", "broken").fin
    BY <2>3 DEF BoundedObjects, StreamObjects
  <2>5. UNCHANGED obj \/ obj' = [obj EXCEPT ![s]["server"] = p] \/ obj' = [obj EXCEPT ![s]["server"] = q]
    BY <2>1 DEF ReadOpenStream
  <2> HIDE DEF p, q
  <2>6. SameEnds
    <3>1. CASE obj' = [obj EXCEPT ![s]["server"] = p]
      BY <2>4, <3>1, ReplacedEnds
    <3>2. CASE obj' = [obj EXCEPT ![s]["server"] = q]
      BY <2>3, <2>4, <3>2, ReplacedEnds
    <3> QED
      BY <2>5, <3>1, <3>2
  <2> QED
    BY <2>6 DEF ReadOpenStream
<1>5. CASE e = "client" /\ ReadAck
  BY <1>5 DEF ReadAck
<1>6. CASE ReadData(e)
  <2> USE <1>6
  <2>1. CASE UNCHANGED readVars
    BY <2>1 DEF ReadData
  <2>2. CASE Arriving(e).s \in streams[e]
    <3>1. ArrivesAt(e, "Data")
      BY DEF ReadData
    <3>2. PICK x \in Streams \X Nat : x = <<Arriving(e).s, Arriving(e).n>>
      <4>1. Arriving(e).s \in Streams /\ Arriving(e).n \in Nat
        BY <3>1, ArrivalType, SMTT(200)
      <4> QED
        BY <4>1
    <3>3. reader[e] = "read" /\ x # <<>>
      BY <3>2 DEF ReadData, ArrivesAt, Reading
    <3>4. reader' = [reader EXCEPT ![e] = "deliver"] /\ delivering' = [delivering EXCEPT ![e] = x] /\ UNCHANGED obj
      BY <2>2, <3>2 DEF ReadData
    <3> QED
      BY <1>1, <3>3, <3>4, LockMoved DEF Locks
  <2> QED
    BY <2>1, <2>2 DEF ReadData
<1>7. ASSUME delivering[e] # <<>>, HandOver(e) \/ HandOverFails(e) PROVE Locks'
  <2> USE <1>7
  <2> PICK s \in Streams : s = delivering[e][1]
    BY DEF ReadType
  <2>1. obj[s][e] \in BoundedObjects /\ delivering[e][2] \in Nat
    BY DEF ObjType, ReadType
  <2>2. PICK p : obj' = [obj EXCEPT ![s][e] = p] /\ (p.fin # "none" => p.inb # "open")
    <3>1. CASE HandOver(e)
      <4> DEFINE o == [obj[s][e] EXCEPT !.inbound = Append(@, delivering[e][2])]
      <4>1. o \in BoundedObjects
        BY <2>1, <3>1, ObjectUpdates DEF HandOver
      <4>2. obj' = [obj EXCEPT ![s][e] = Unlocked(o)]
        BY <3>1 DEF HandOver
      <4> QED
        BY <4>1, <4>2, UnlockedSettles
    <3>2. CASE HandOverFails(e)
      BY <2>1, <3>2, UnlockedSettles DEF HandOverFails
    <3> QED
      BY <3>1, <3>2
  <2>3. obj'[s][e] = p /\ \A r \in Streams, d \in Endpoints : r # s \/ d # e => obj'[r][d] = obj[r][d]
    BY <2>2 DEF ObjType
  <2>4. \A r \in Streams : obj'[r][e].fin # "none" => obj'[r][e].inb # "open"
    BY <2>2, <2>3, SMTT(200) DEF Finished, InboundLocked
  <2>5. \/ reader' = [reader EXCEPT ![e] = "stopped"] /\ delivering' = [delivering EXCEPT ![e] = <<>>]
        \/ reader' = [reader EXCEPT ![e] = "read"] /\ delivering' = [delivering EXCEPT ![e] = <<>>]
    BY <1>2 DEF HandOverFails
  <2>6. PICK v \in {"read", "stopped"} : reader' = [reader EXCEPT ![e] = v] /\ delivering' = [delivering EXCEPT ![e] = <<>>]
    BY <2>5
  <2>7. \A r \in Streams, d \in Endpoints : d # e => obj'[r][d] = obj[r][d]
    BY <2>3
  <2> QED
    BY <2>4, <2>6, <2>7, LockMoved DEF Locks
<1>8. CASE Deliver(e)
  <2> delivering[e] # <<>> /\ reader[e] = "deliver"
    BY <1>8 DEF Deliver, Delivery
  <2>1. PICK s \in Streams : s = delivering[e][1]
    BY DEF ReadType
  <2>2. CASE /\ obj' = [obj EXCEPT ![s][e] = finishStream(s, e, "tooLarge")]
             /\ reader' = [reader EXCEPT ![e] = "read"]
             /\ delivering' = [delivering EXCEPT ![e] = <<>>]
    <3>1. ~InboundLocked(s, e) /\ "tooLarge" \in Errors
      BY ErrorTypes DEF InboundLocked
    <3>2. /\ finishStream(s, e, "tooLarge") \in BoundedObjects
          /\ finishStream(s, e, "tooLarge").inb = "open" => obj[s][e].fin # "none" /\ obj[s][e].inb = "open"
      BY <3>1, FinishSettles DEF Settles
    <3>3. finishStream(s, e, "tooLarge").inb # "open"
      BY <1>1, <3>2
    <3>4. /\ obj'[s][e] = finishStream(s, e, "tooLarge")
          /\ \A r \in Streams, d \in Endpoints : r # s \/ d # e => obj'[r][d] = obj[r][d]
      BY <2>2 DEF ObjType
    <3>5. \A r \in Streams : obj'[r][e].fin # "none" => obj'[r][e].inb # "open"
      BY <1>1, <3>3, <3>4
    <3>6. \A r \in Streams, d \in Endpoints : d # e => obj'[r][d] = obj[r][d]
      BY <3>4
    <3>7. <<>> \in {<<>>} \cup (Streams \X Nat) /\ "read" \in {"read", "deliver", "stopped"} /\ "read" # "deliver"
      OBVIOUS
    <3> QED
      BY <2>2, <3>5, <3>6, <3>7, LockMoved DEF Locks
  <2>3. CASE reader' = [reader EXCEPT ![e] = "blocked"] /\ UNCHANGED <<delivering, obj>> /\ obj[s][e].inb = "open"
    <3> USE <2>3
    <3>1. Delivery'
      BY DEF Delivery, ReadType
    <3>2. DeliverOnOpenQueue'
      BY <2>1 DEF DeliverOnOpenQueue, ReadType
    <3>3. \A r \in Streams, d \in Endpoints : InboundLocked(r, d) => InboundLocked(r, d)'
      BY DEF InboundLocked, ReadType
    <3>4. Finished'
      BY <3>3 DEF Finished
    <3> QED
      BY <3>1, <3>2, <3>4 DEF Locks
  <2>4. CASE HandOver(e) \/ HandOverFails(e)
    BY <1>7, <2>4
  <2>5. CASE StopReading(e, "violation") /\ UNCHANGED obj
    BY <1>3, <2>5
  <2> QED
    BY <1>8, <2>1, <2>2, <2>3, <2>4, <2>5 DEF Deliver
<1>9. CASE DeliverBlocked(e)
  BY <1>7, <1>9 DEF DeliverBlocked, Delivery
<1>10. CASE ReadCloseSend(e)
  <2> USE <1>10
  <2>1. PICK s \in Streams : s = Arriving(e).s
    BY ArrivalType, SMTT(200) DEF ReadCloseSend
  <2>2. reader[e] = "read" /\ UNCHANGED readVars /\ delivering[e] = <<>>
    BY DEF ReadCloseSend, ArrivesAt, Reading, Delivery
  <2>3. closeInboundHalf(obj[s][e]).inb # "open"
    BY SMTT(200) DEF closeInboundHalf, ObjType, BoundedObjects, StreamObjects
  <2>4. UNCHANGED obj \/ obj' = [obj EXCEPT ![s][e] = closeInboundHalf(obj[s][e])]
    BY <2>1 DEF ReadCloseSend
  <2>5. \A r \in Streams, d \in Endpoints : obj'[r][d] = obj[r][d] \/ (d = e /\ obj'[r][d].inb # "open")
    BY <2>3, <2>4, SMTT(200) DEF ObjType
  <2>6. \A r \in Streams : obj'[r][e].fin # "none" => obj'[r][e].inb # "open"
    BY <1>1, <2>2, <2>5
  <2>7. reader' = [reader EXCEPT ![e] = "read"] /\ delivering' = [delivering EXCEPT ![e] = <<>>]
    BY <2>2 DEF readVars, ReadType
  <2> QED
    BY <2>5, <2>6, <2>7, LockMoved DEF Locks
<1>11. CASE ReadStreamEnd(e)
  <2> USE <1>11
  <2>1. PICK s \in Streams, failure \in Errors : UNCHANGED obj \/ obj' = [obj EXCEPT ![s][e] = finishStream(s, e, failure)]
    <3>1. Arriving(e).s \in Streams /\ Arriving(e).status \in Statuses
      BY ArrivalType, SMTT(200) DEF ReadStreamEnd
    <3> QED
      BY <3>1, ErrorTypes DEF ReadStreamEnd
  <2>2. SameEnds
    BY <2>1, FinishedEnds
  <2> QED
    BY <2>2 DEF ReadStreamEnd
<1>12. CASE ReadClose(e) \/ ReadEOF(e) \/ ReadError(e)
  BY <1>3, <1>12 DEF ReadClose, ReadEOF, ReadError, ArrivesAt, Reading
<1> QED
  BY <1>4, <1>5, <1>6, <1>8, <1>9, <1>10, <1>11, <1>12 DEF ReadStep

\* The inductive invariant of the lock.
LEMMA LockInvariant == Spec => [](Typed /\ Locks)
<1>1. Init => Typed /\ Locks
  <2>1. Init => Locks
    BY SMTT(200) DEF Init, Locks, DeliverOnOpenQueue, Finished, Delivery, newStream
  <2> QED
    BY <2>1, InitTyped
<1>2. Typed /\ Locks /\ [Next]_vars => Typed' /\ Locks'
  <2> SUFFICES ASSUME Typed, Locks, [Next]_vars PROVE Typed' /\ Locks'
    OBVIOUS
  <2>1. Typed'
    BY NextTyped DEF Locks
  <2>2. CASE \E e \in Endpoints : ReadStep(e)
    BY <2>1, <2>2, LockRead
  <2>3. CASE ~\E e \in Endpoints : ReadStep(e)
    <3>1. SameEnds /\ UNCHANGED readVars
      BY <2>3, OthersEnds DEF Next
    <3> QED
      BY <2>1, <3>1, LockKept DEF Locks
  <2> QED
    BY <2>2, <2>3
<1> QED
  BY <1>1, <1>2, PTL DEF Spec

\* deliver never sends on a closed queue, whoever finishes the stream meanwhile.
THEOREM DeliverSafety == Spec => []DeliverOnOpenQueue
<1>1. Typed /\ Locks => DeliverOnOpenQueue
  BY DEF Locks
<1> QED
  BY <1>1, LockInvariant, PTL

-----------------------------------------------------------------------------
(* Frames on a wire.                                                         *)

\* The empty sequence.
LEMMA NoElements ==
    ASSUME NEW S
    PROVE  /\ <<>> \in Seq(S)
           /\ \A q \in Seq(S) : Len(q) \in Nat /\ (q = <<>> <=> Len(q) = 0)
  BY SMTT(200)

\* A sequence with elements in T.
LEMMA ElementsIn ==
    ASSUME NEW S, NEW T, NEW q \in Seq(S), \A i \in DOMAIN q : q[i] \in T
    PROVE  q \in Seq(T)
  BY SMTT(200)

\* The rest of a sequence of one element.
LEMMA OneElement ==
    ASSUME NEW S, NEW q \in Seq(S), q # <<>>, Len(q) <= 1
    PROVE  Tail(q) = <<>>
<1>1. Len(q) \in Nat \ {0}
  BY NoElements
<1>2. Len(q) = 1
  BY <1>1, SMTT(200)
<1>3. Tail(q) \in Seq(S) /\ Len(Tail(q)) = 0
  BY <1>2, SMTT(200)
<1> QED
  BY <1>3, NoElements

\* A wire loses its first frame or everything, or gains a frame of F.
Keeps(d, F) ==
    \/ wire'[d] \in {wire[d], <<>>}
    \/ wire[d] # <<>> /\ wire'[d] = Tail(wire[d])
    \/ \E f \in F : wire'[d] = Append(wire[d], f)

\* What is not on a wire comes there only by being written.
LEMMA NeverArrives ==
    ASSUME NEW G, NEW d \in Endpoints, wire[d] \in Seq(G), Keeps(d, G)
    PROVE  wire'[d] \in Seq(G)
<1>1. <<>> \in Seq(G) /\ (wire[d] # <<>> => Tail(wire[d]) \in Seq(G)) /\ \A f \in G : Append(wire[d], f) \in Seq(G)
  BY SMTT(200)
<1> QED
  BY <1>1 DEF Keeps

\* A frame of a wire was on it before, or is the one written.
LEMMA OpenedOnce ==
    ASSUME NEW s \in Streams, wire["client"] \in Seq(Frames), OpensOnce(wire["client"], s),
           \/ Keeps("client", NotOpens(s))
           \/ wire["client"] \in Seq(NotOpens(s)) /\ Keeps("client", Frames)
    PROVE  OpensOnce(wire'["client"], s)
<1> DEFINE w == wire["client"]
<1>1. CASE wire'["client"] = <<>> \/ wire'["client"] = w
  BY <1>1, SMTT(200) DEF OpensOnce
<1>2. CASE w # <<>> /\ wire'["client"] = Tail(w)
  <2>1. \A i \in DOMAIN Tail(w) : i + 1 \in DOMAIN w /\ Tail(w)[i] = w[i + 1] /\ i \in Nat
    BY <1>2, SMTT(200)
  <2> QED
    BY <1>2, <2>1, SMTT(200) DEF OpensOnce
<1>3. ASSUME NEW f \in Frames, wire'["client"] = Append(w, f), f \in NotOpens(s) \/ w \in Seq(NotOpens(s))
      PROVE  OpensOnce(wire'["client"], s)
  <2> USE <1>3
  <2>1. \A i \in DOMAIN Append(w, f) : (i \in DOMAIN w /\ Append(w, f)[i] = w[i]) \/ (i = Len(w) + 1 /\ Append(w, f)[i] = f)
    BY SMTT(200)
  <2>2. CASE ~Opens(f, s)
    BY <2>1, <2>2 DEF OpensOnce
  <2>3. CASE w \in Seq(NotOpens(s))
    <3>1. \A i \in DOMAIN w : ~Opens(w[i], s)
      BY <2>3, SMTT(200) DEF NotOpens
    <3> QED
      BY <2>1, <3>1, SMTT(200) DEF OpensOnce
  <2> QED
    BY <2>2, <2>3 DEF NotOpens
<1> QED
  BY <1>1, <1>2, <1>3 DEF Keeps, NotOpens

\* The frame that opens a stream is the only one.
LEMMA OpenedLast ==
    ASSUME NEW s \in Streams, NEW w \in Seq(Frames), w # <<>>, Opens(w[1], s), OpensOnce(w, s)
    PROVE  Tail(w) \in Seq(NotOpens(s))
<1>1. Tail(w) \in Seq(Frames) /\ \A i \in DOMAIN Tail(w) : i + 1 \in DOMAIN w /\ Tail(w)[i] = w[i + 1] /\ i \in Nat /\ i + 1 # 1
  BY SMTT(200)
<1>2. \A i \in DOMAIN Tail(w) : Tail(w)[i] \in Frames /\ ~Opens(Tail(w)[i], s)
  <2>1. 1 \in DOMAIN w
    BY SMTT(200)
  <2> QED
    BY <1>1, <2>1, SMTT(200) DEF OpensOnce
<1>3. \A i \in DOMAIN Tail(w) : Tail(w)[i] \in NotOpens(s)
  BY <1>2 DEF NotOpens
<1> QED
  BY <1>1, <1>3, ElementsIn

\* What each frame is not.
LEMMA FrameKinds ==
    ASSUME NEW r \in Streams, NEW s \in Streams
    PROVE  /\ CloseFrame \in NotOpens(r) \cap NotAnswers(r)
           /\ CloseSendFrame(s) \in NotOpens(r) \cap NotAnswers(r)
           /\ \A n \in Nat : Data(s, n) \in NotOpens(r) \cap NotAnswers(r)
           /\ \A status \in Statuses : /\ StreamEnd(s, status) \in NotOpens(r)
                                       /\ status # "ok" \/ r # s => StreamEnd(s, status) \in NotAnswers(r)
           /\ Ack(s) \in NotOpens(r) /\ (r # s => Ack(s) \in NotAnswers(r))
           /\ OpenStream(s) \in NotAnswers(r) /\ (r # s => OpenStream(s) \in NotOpens(r))
<1>1. /\ ~Opens(CloseFrame, r) /\ ~Acks(CloseFrame, r) /\ CloseFrame.type = "Close"
      /\ ~Opens(CloseSendFrame(s), r) /\ ~Acks(CloseSendFrame(s), r) /\ CloseSendFrame(s).type = "CloseSend"
      /\ ~Opens(Ack(s), r) /\ (r # s => ~Acks(Ack(s), r)) /\ Ack(s).type = "Ack"
      /\ (r # s => ~Opens(OpenStream(s), r)) /\ ~Acks(OpenStream(s), r) /\ OpenStream(s).type = "OpenStream"
  BY DEF Opens, Acks, CloseFrame, CloseSendFrame, Ack, OpenStream
<1>2. \A n : ~Opens(Data(s, n), r) /\ ~Acks(Data(s, n), r) /\ Data(s, n).type = "Data"
  BY DEF Opens, Acks, Data
<1>3. \A status : /\ ~Opens(StreamEnd(s, status), r) /\ ~Acks(StreamEnd(s, status), r)
                  /\ StreamEnd(s, status).s = s /\ StreamEnd(s, status).status = status
  BY DEF Opens, Acks, StreamEnd
<1> QED
  BY <1>1, <1>2, <1>3, FrameTypes DEF NotOpens, NotAnswers

\* A write reaches the peer or not; nothing else changes on the wires.
LEMMA WriteEffect ==
    ASSUME NEW w \in [Endpoints -> Seq(Frames)], NEW t \in Threads, NEW f, WriteOK(w, t, f) \/ WriteFails(w, t)
    PROVE  /\ wire'[Home(t)] = w[Home(t)] \/ wire'[Home(t)] = Append(w[Home(t)], f)
           /\ \A d \in Endpoints : d # Home(t) => wire'[d] = w[d]
<1>1. Home(t) \in Endpoints
  BY Places
<1> QED
  BY <1>1 DEF WriteOK, WriteFails, Transmit

\* A read loop takes a frame and answers it.
LEMMA ReplyEffect ==
    ASSUME wire \in [Endpoints -> Seq(Frames)], NEW e \in Endpoints, Consumed(e) \in [Endpoints -> Seq(Frames)], NEW f,
           WriteOK(Consumed(e), Reader(e), f) \/ WriteFails(Consumed(e), Reader(e))
    PROVE  /\ wire'[Other(e)] = Tail(wire[Other(e)])
           /\ wire'[e] = wire[e] \/ wire'[e] = Append(wire[e], f)
<1>1. Other(e) \in Endpoints /\ Other(e) # e /\ Reader(e) \in Threads /\ Home(Reader(e)) = e
  BY Places
<1>2. Consumed(e)[Other(e)] = Tail(wire[Other(e)]) /\ Consumed(e)[e] = wire[e]
  BY <1>1 DEF Consumed
<1>3. /\ wire'[e] = Consumed(e)[e] \/ wire'[e] = Append(Consumed(e)[e], f)
      /\ wire'[Other(e)] = Consumed(e)[Other(e)]
  BY <1>1 DEF WriteOK, WriteFails, Transmit
<1> QED
  BY <1>2, <1>3

\* A write at most appends the frame to the wire of the end that writes.
LEMMA SendEffect ==
    ASSUME wire \in [Endpoints -> Seq(Frames)], NEW t \in Threads, NEW f,
           UNCHANGED wire \/ WriteOK(wire, t, f) \/ WriteFails(wire, t)
    PROVE  \A d \in Endpoints : wire'[d] = wire[d] \/ (d = Home(t) /\ wire'[d] = Append(wire[d], f))
<1>1. CASE WriteOK(wire, t, f) \/ WriteFails(wire, t)
  <2>1. /\ wire'[Home(t)] = wire[Home(t)] \/ wire'[Home(t)] = Append(wire[Home(t)], f)
        /\ \A d \in Endpoints : d # Home(t) => wire'[d] = wire[d]
    BY <1>1, WriteEffect
  <2> QED
    BY <2>1
<1> QED
  BY <1>1

\* The step tells nothing new about the opening of a stream, or its answer.
QuietFor(r) ==
    /\ Keeps("client", NotOpens(r))
    /\ hpc[r] = "none" => Keeps("server", NotAnswers(r))
    /\ opc'[r] \in {"idle", "usable"} => opc[r] \in {"idle", "usable"}
    /\ opc'[r] = "established" => opc[r] = "established" \/ hpc[r] # "none"
    /\ hpc'[r] = "none" <=> hpc[r] = "none"
    /\ r \in opens' => r \in opens
    /\ \A d \in Endpoints : r \in streams'[d] => r \in streams[d]
    /\ \/ accepted'[r] = accepted[r]
       \/ accepted[r] # <<>> /\ accepted'[r] = Tail(accepted[r])
       \/ /\ r \in opens /\ r \notin opens'
          /\ \E x \in Errors \cup {"ok"} : accepted'[r] = Append(accepted[r], x) /\ (x = "ok" => hpc[r] # "none")

\* A step that opens and answers nothing keeps how far each opening has come.
LEMMA OpeningKept ==
    ASSUME Typed, NEW r \in Streams, OpeningOf(r), QuietFor(r)
    PROVE  OpeningOf(r)'
<1> ConnType /\ OpenType /\ "client" \in Endpoints /\ "server" \in Endpoints
  BY Places DEF Typed
<1>1. accepted[r] \in Seq(Errors \cup {"ok"}) /\ wire["client"] \in Seq(Frames) /\ wire["server"] \in Seq(Frames)
  BY DEF OpenType, ConnType
<1> /\ wire["client"] \in Seq(NotOpens(r)) => wire'["client"] \in Seq(NotOpens(r))
    /\ hpc[r] = "none" /\ wire["server"] \in Seq(NotAnswers(r)) => wire'["server"] \in Seq(NotAnswers(r))
  BY NeverArrives DEF QuietFor
<1>2. OpensOnce(wire'["client"], r)
  BY <1>1, OpenedOnce DEF QuietFor, OpeningOf
<1>3. /\ Len(accepted'[r]) <= 1
      /\ r \in opens' => accepted'[r] = <<>>
      /\ accepted[r] \in Seq(Errors) /\ hpc[r] = "none" => accepted'[r] \in Seq(Errors)
      /\ opc'[r] \in {"idle", "usable"} => accepted'[r] = <<>>
  <2>1. CASE accepted'[r] = accepted[r]
    BY <2>1 DEF QuietFor, OpeningOf
  <2>2. CASE accepted[r] # <<>> /\ accepted'[r] = Tail(accepted[r])
    <3>1. Len(accepted[r]) <= 1
      BY DEF OpeningOf
    <3>2. accepted'[r] = <<>>
      BY <1>1, <2>2, <3>1, OneElement
    <3>3. Len(<<>>) <= 1 /\ <<>> \in Seq(Errors)
      BY NoElements, SMTT(200)
    <3> QED
      BY <3>2, <3>3
  <2>3. ASSUME NEW x \in Errors \cup {"ok"}, r \in opens, r \notin opens', accepted'[r] = Append(accepted[r], x),
               x = "ok" => hpc[r] # "none"
        PROVE  /\ Len(accepted'[r]) <= 1
               /\ r \in opens' => accepted'[r] = <<>>
               /\ accepted[r] \in Seq(Errors) /\ hpc[r] = "none" => accepted'[r] \in Seq(Errors)
               /\ opc'[r] \in {"idle", "usable"} => accepted'[r] = <<>>
    <3> USE <2>3
    <3>1. accepted[r] = <<>> /\ opc[r] \notin {"idle", "usable"}
      BY DEF OpeningOf
    <3>2. Len(accepted'[r]) = 1 /\ (hpc[r] = "none" => accepted'[r] \in Seq(Errors))
      BY <3>1, SMTT(200)
    <3> QED
      BY <3>1, <3>2, SMTT(200) DEF QuietFor
  <2> QED
    BY <2>1, <2>2, <2>3 DEF QuietFor
<1>4. opc'[r] \in {"idle", "usable"} =>
          /\ hpc'[r] = "none" /\ r \notin opens' /\ r \notin streams'["client"] /\ wire'["client"] \in Seq(NotOpens(r))
  BY DEF QuietFor, OpeningOf
<1>5. hpc'[r] # "none" => wire'["client"] \in Seq(NotOpens(r))
  BY DEF QuietFor, OpeningOf
<1>6. hpc'[r] = "none" =>
          /\ r \notin streams'["server"] /\ opc'[r] # "established" /\ accepted'[r] \in Seq(Errors)
          /\ wire'["server"] \in Seq(NotAnswers(r))
  BY <1>3 DEF QuietFor, OpeningOf
<1> QED
  BY <1>2, <1>3, <1>4, <1>5, <1>6 DEF OpeningOf, NotOpens, NotAnswers, OpensOnce

\* Steps that touch neither the connection nor the opening of a stream.
openingVars == <<wire, streams, opens, opc, accepted>>

\* A step that leaves the wires and the openings alone is quiet.
LEMMA QuietStep ==
    ASSUME NEW r \in Streams, UNCHANGED openingVars, hpc'[r] = "none" <=> hpc[r] = "none"
    PROVE  QuietFor(r)
  BY DEF QuietFor, openingVars, Keeps

\* The steps of the opener and of the follower of a stream.
LEMMA OpeningClient ==
    ASSUME Typed, Opening, NEW s \in Streams, OpenCheck(s) \/ CancelCaller(s) \/ OpenStep(s) \/ FollowStep(s)
    PROVE  Opening'
<1> /\ ConnType /\ OpenType /\ ServeType /\ SessType /\ wire \in [Endpoints -> Seq(Frames)]
    /\ "client" \in Endpoints /\ "server" \in Endpoints /\ "server" # "client"
    /\ Opener(s) \in Threads /\ Home(Opener(s)) = "client" /\ Follower(s) \in Threads /\ Home(Follower(s)) = "client"
  BY Places DEF Typed, ConnType
<1>1. ASSUME \A r \in Streams : QuietFor(r) PROVE Opening'
  BY <1>1, OpeningKept DEF Opening
<1>2. CASE OpenCheck(s)
  <2>1. UNCHANGED <<wire, streams, opens, accepted, hpc>>
    BY <1>2 DEF OpenCheck, engineVars, connVars, sessionVars, serveVars
  <2>2. opc' = [opc EXCEPT ![s] = IF ended["client"] THEN "failed" ELSE "usable"] /\ opc[s] = "idle"
    BY <1>2 DEF OpenCheck
  <2>3. \A r \in Streams : /\ opc'[r] \in {"idle", "usable"} => opc[r] \in {"idle", "usable"}
                           /\ opc'[r] = "established" => opc[r] = "established"
    BY <2>2 DEF OpenType
  <2> QED
    BY <1>1, <2>1, <2>3 DEF QuietFor, Keeps
<1>3. CASE CancelCaller(s) \/ FollowFind(s)
  <2>1. UNCHANGED openingVars /\ UNCHANGED hpc
    BY <1>3 DEF CancelCaller, FollowFind, engineVars, connVars, sessionVars, serveVars, openingVars
  <2> QED
    BY <1>1, <2>1, QuietStep
<1>4. CASE OpenNotify(s) \/ FollowNotify(s)
  <2> USE <1>4
  <2>1. UNCHANGED <<streams, opens, accepted, hpc>>
    BY DEF OpenNotify, FollowNotify, serveVars
  <2>2. \A r \in Streams : /\ opc'[r] \in {"idle", "usable"} => opc[r] \in {"idle", "usable"}
                           /\ opc'[r] = "established" => opc[r] = "established"
    BY DEF OpenNotify, FollowNotify, OpenType
  <2>3. PICK t \in Threads : Home(t) = "client" /\ sendFrame(wire, t, StreamEnd(s, "canceled"))
    BY DEF OpenNotify, FollowNotify
  <2>4. /\ wire'["client"] = wire["client"] \/ wire'["client"] = Append(wire["client"], StreamEnd(s, "canceled"))
        /\ wire'["server"] = wire["server"]
    <3>1. WriteOK(wire, t, StreamEnd(s, "canceled")) \/ WriteFails(wire, t)
      BY <2>3 DEF sendFrame
    <3>2. /\ wire'[Home(t)] = wire[Home(t)] \/ wire'[Home(t)] = Append(wire[Home(t)], StreamEnd(s, "canceled"))
          /\ \A d \in Endpoints : d # Home(t) => wire'[d] = wire[d]
      BY <3>1, WriteEffect
    <3> QED
      BY <2>3, <3>2
  <2>5. "canceled" \in Statuses
    BY DEF Statuses
  <2>6. \A r \in Streams : StreamEnd(s, "canceled") \in NotOpens(r)
    BY <2>5, FrameKinds
  <2> QED
    BY <1>1, <2>1, <2>2, <2>4, <2>6 DEF QuietFor, Keeps
<1>5. CASE OpenSettled(s)
  <2> USE <1>5
  <2>1. UNCHANGED <<wire, streams, hpc>>
    BY DEF OpenSettled, connVars, serveVars
  <2>2. /\ opens' \subseteq opens /\ accepted[s] # <<>> /\ accepted'[s] = Tail(accepted[s])
        /\ \A r \in Streams : r # s => accepted'[r] = accepted[r]
    BY DEF OpenSettled, OpenType
  <2>3. \A r \in Streams : /\ opc'[r] \in {"idle", "usable"} => opc[r] \in {"idle", "usable"}
                           /\ opc'[r] = "established" => opc[r] = "established" \/ (r = s /\ Head(accepted[s]) = "ok")
    BY DEF OpenSettled, OpenType
  <2>4. Head(accepted[s]) = "ok" => hpc[s] # "none"
    <3>1. accepted[s] \in Seq(Errors) => Head(accepted[s]) \in Errors
      BY <2>2, SMTT(200)
    <3>2. "ok" \notin Errors
      BY DEF Errors, Statuses
    <3>3. OpeningOf(s)
      BY DEF Opening
    <3> QED
      BY <3>1, <3>2, <3>3 DEF OpeningOf
  <2> QED
    BY <1>1, <2>1, <2>2, <2>3, <2>4 DEF QuietFor, Keeps
<1>6. CASE OpenCancelled(s)
  <2>1. UNCHANGED <<wire, streams, opens, accepted, hpc>>
    BY <1>6 DEF OpenCancelled, engineVars, connVars, sessionVars, serveVars
  <2>2. \A r \in Streams : /\ opc'[r] \in {"idle", "usable"} => opc[r] \in {"idle", "usable"}
                           /\ opc'[r] = "established" => opc[r] = "established"
    BY <1>6 DEF OpenCancelled, OpenType
  <2> QED
    BY <1>1, <2>1, <2>2 DEF QuietFor, Keeps
<1>7. CASE OpenReturn(s)
  <2>1. UNCHANGED <<wire, streams, accepted, hpc>> /\ opens' \subseteq opens
    BY <1>7 DEF OpenReturn, connVars, serveVars
  <2>2. \A r \in Streams : /\ opc'[r] \in {"idle", "usable"} => opc[r] \in {"idle", "usable"}
                           /\ opc'[r] = "established" => opc[r] = "established"
    BY <1>7 DEF OpenReturn, OpenType
  <2> QED
    BY <1>1, <2>1, <2>2 DEF QuietFor, Keeps
<1>8. CASE Follow(s)
  <2>1. UNCHANGED <<wire, opens, opc, accepted, hpc>>
    BY <1>8 DEF Follow, connVars, serveVars
  <2>2. \A r \in Streams, d \in Endpoints : r \in streams'[d] => r \in streams[d]
    BY <1>8 DEF Follow, SessType
  <2> QED
    BY <1>1, <2>1, <2>2 DEF QuietFor, Keeps
<1>9. CASE OpenWrite(s)
  <2> USE <1>9
  <2> UNCHANGED <<accepted, hpc>> /\ opc[s] = "usable" /\ OpeningOf(s)
    BY DEF OpenWrite, serveVars, Opening
  <2>1. /\ opens' = opens \cup {s}
        /\ \A r \in Streams, d \in Endpoints : r # s \/ d = "server" => (r \in streams'[d] => r \in streams[d])
        /\ \A r \in Streams : r # s => opc'[r] = opc[r]
        /\ opc'[s] \in {"waiting", "returning"}
    BY SMTT(200) DEF OpenWrite, SessType, OpenType
  <2>2. wire' = wire \/ WriteOK(wire, Opener(s), OpenStream(s))
    BY DEF OpenWrite
  <2> /\ wire'["client"] = wire["client"] \/ wire'["client"] = Append(wire["client"], OpenStream(s))
      /\ wire'["server"] = wire["server"]
    BY <2>2, WriteEffect, SMTT(200)
  <2>3. ASSUME NEW r \in Streams, r # s PROVE OpeningOf(r)'
    <3>1. OpenStream(s) \in NotOpens(r)
      BY <2>3, FrameKinds
    <3>2. QuietFor(r)
      BY <2>1, <2>3, <3>1 DEF QuietFor, Keeps
    <3> QED
      BY <3>2, OpeningKept DEF Opening
  <2>4. OpeningOf(s)'
    <3>1. Keeps("client", Frames) /\ wire["client"] \in Seq(NotOpens(s)) /\ wire["client"] \in Seq(Frames)
      BY FrameTypes DEF Keeps, OpeningOf
    <3>2. OpensOnce(wire'["client"], s)
      BY <3>1, OpenedOnce DEF OpeningOf
    <3>3. /\ hpc'[s] = "none" /\ accepted'[s] = <<>> /\ s \notin streams'["server"]
          /\ opc'[s] \notin {"idle", "usable", "established"} /\ wire'["server"] \in Seq(NotAnswers(s))
      BY <2>1 DEF OpeningOf
    <3>4. Len(<<>>) <= 1 /\ <<>> \in Seq(Errors)
      BY NoElements, SMTT(200)
    <3> QED
      BY <3>2, <3>3, <3>4 DEF OpeningOf, NotOpens, NotAnswers, OpensOnce
  <2> QED
    BY <2>3, <2>4 DEF Opening
<1> QED
  BY <1>2, <1>3, <1>4, <1>5, <1>6, <1>7, <1>8, <1>9 DEF OpenStep, FollowStep

\* The steps of the handler of a stream.
LEMMA OpeningServer ==
    ASSUME Typed, Opening, NEW s \in Streams, HandlerReturn(s) \/ ServeStep(s)
    PROVE  Opening'
<1> /\ ConnType /\ OpenType /\ ServeType /\ SessType /\ wire \in [Endpoints -> Seq(Frames)]
    /\ "client" \in Endpoints /\ "server" \in Endpoints /\ "server" # "client"
    /\ Handler(s) \in Threads /\ Home(Handler(s)) = "server"
  BY Places DEF Typed, ConnType
<1>1. ASSUME \A r \in Streams : QuietFor(r) PROVE Opening'
  BY <1>1, OpeningKept DEF Opening
<1>2. CASE HandlerReturn(s) \/ FlushEnqueue(s) \/ HandlerRelease(s) \/ CloseSendBegin(s, "server")
  <2>1. UNCHANGED openingVars
    BY <1>2 DEF HandlerReturn, FlushEnqueue, HandlerRelease, CloseSendBegin, objOnly, openingVars, engineVars,
                       connVars, sessionVars, openVars
  <2>2. CASE CloseSendBegin(s, "server")
    BY <1>1, <2>1, <2>2, QuietStep DEF CloseSendBegin, objOnly, serveVars
  <2>3. CASE HandlerReturn(s) \/ FlushEnqueue(s) \/ HandlerRelease(s)
    <3>1. PICK to \in {"closing", "flushing", "releasing", "barrier", "done"} : hpc' = [hpc EXCEPT ![s] = to] /\ hpc[s] # "none"
      BY <2>3 DEF HandlerReturn, FlushEnqueue, HandlerRelease
    <3>2. \A r \in Streams : hpc'[r] = "none" <=> hpc[r] = "none"
      BY <3>1 DEF ServeType
    <3> QED
      BY <1>1, <2>1, <3>2, QuietStep
  <2> QED
    BY <1>2, <2>2, <2>3
<1>3. ASSUME NEW err \in Errors, HandlerFinish(s, err), hpc[s] # "none" PROVE Opening'
  <2> USE <1>3
  <2>1. UNCHANGED <<wire, opens, opc, accepted>>
    BY DEF HandlerFinish, connVars, openVars
  <2>2. \A r \in Streams, d \in Endpoints : r \in streams'[d] => r \in streams[d]
    BY DEF HandlerFinish, SessType
  <2>3. \A r \in Streams : hpc'[r] = "none" <=> hpc[r] = "none"
    BY DEF HandlerFinish, ServeType
  <2> QED
    BY <1>1, <2>1, <2>2, <2>3 DEF QuietFor, Keeps
<1>4. CASE HandlerClosed(s) \/ HandlerFlushed(s) \/ HandlerFlushCancelled(s)
  <2>1. hpc[s] # "none" /\ \E err \in Errors : HandlerFinish(s, err)
    BY <1>4, ErrorTypes DEF HandlerClosed, HandlerFlushed, HandlerFlushCancelled
  <2> QED
    BY <1>3, <2>1
<1>5. CASE HandlerEnd(s)
  <2> USE <1>5
  <2>1. UNCHANGED <<streams, opens, opc, accepted>> /\ hpc[s] # "none"
    BY DEF HandlerEnd, openVars
  <2>2. \A r \in Streams : hpc'[r] = "none" <=> hpc[r] = "none"
    BY DEF HandlerEnd, ServeType
  <2>3. PICK status \in Statuses : sendFrame(wire, Handler(s), StreamEnd(s, status))
    BY ErrorTypes DEF HandlerEnd, ServeType
  <2>4. /\ wire'["server"] = wire["server"] \/ wire'["server"] = Append(wire["server"], StreamEnd(s, status))
        /\ wire'["client"] = wire["client"]
    <3>1. WriteOK(wire, Handler(s), StreamEnd(s, status)) \/ WriteFails(wire, Handler(s))
      BY <2>3 DEF sendFrame
    <3>2. /\ \/ wire'[Home(Handler(s))] = wire[Home(Handler(s))]
             \/ wire'[Home(Handler(s))] = Append(wire[Home(Handler(s))], StreamEnd(s, status))
          /\ \A d \in Endpoints : d # Home(Handler(s)) => wire'[d] = wire[d]
      BY <3>1, WriteEffect
    <3> QED
      BY <3>2
  <2>5. \A r \in Streams : hpc[r] = "none" => StreamEnd(s, status) \in NotAnswers(r)
    BY <2>1, FrameKinds
  <2> QED
    BY <1>1, <2>1, <2>2, <2>4, <2>5 DEF QuietFor, Keeps
<1> QED
  BY <1>2, <1>4, <1>5 DEF ServeStep

\* The steps of the holders of a stream, of its pump and of the connection.
LEMMA OpeningOther ==
    ASSUME Typed, Opening,
           \/ \E s \in Streams, e \in Endpoints :
                 \/ Send(s, e) \/ CloseSendBegin(s, e) \/ CloseSendStep(s, e) \/ RecvStep(s, e)
                 \/ PumpItem(s, e)
           \/ \E e \in Endpoints : Close(e)
           \/ \E t \in Threads : EndRelease(t)
           \/ LoseLink \/ UNCHANGED vars
    PROVE  Opening'
<1> /\ ConnType /\ OpenType /\ ServeType /\ SessType /\ EndType /\ ObjType /\ wire \in [Endpoints -> Seq(Frames)]
    /\ "client" \in Endpoints /\ "server" \in Endpoints
  BY Places DEF Typed, ConnType
<1>1. ASSUME \A r \in Streams : QuietFor(r) PROVE Opening'
  BY <1>1, OpeningKept DEF Opening
<1>2. ASSUME NEW s \in Streams, NEW e \in Endpoints,
             Send(s, e) \/ CloseSendBegin(s, e) \/ CloseSendStep(s, e) \/ RecvStep(s, e)
      PROVE  Opening'
  <2>1. UNCHANGED <<engineVars, openVars, serveVars>>
    BY <1>2 DEF Send, CloseSendBegin, CloseSendStep, CloseSendEnqueue, CloseSendWritten, CloseSendCancelled,
                       RecvStep, RecvMessage, RecvEnd, RecvCancelled, objOnly
  <2>2. UNCHANGED openingVars /\ UNCHANGED hpc
    BY <2>1 DEF openingVars, engineVars, connVars, sessionVars, openVars, serveVars
  <2> QED
    BY <1>1, <2>2, QuietStep
<1>3. ASSUME NEW s \in Streams, NEW e \in Endpoints, PumpItem(s, e) PROVE Opening'
  <2> USE <1>3
  <2>1. UNCHANGED <<streams, opens, opc, accepted>>
    BY DEF PumpItem, openVars
  <2>2. /\ UNCHANGED hpc \/ hpc' = [hpc EXCEPT ![s] = IF @ = "barrier" THEN "flushed" ELSE @]
        /\ \/ UNCHANGED wire
           \/ \E n \in Nat : WriteOK(wire, Pump(s, e), Data(s, n))
           \/ WriteOK(wire, Pump(s, e), CloseSendFrame(s))
           \/ WriteFails(wire, Pump(s, e))
    <3>1. obj[s][e] \in BoundedObjects
      BY DEF ObjType
    <3>2. obj[s][e].outbound # <<>>
      BY DEF PumpItem
    <3>3. Head(obj[s][e].outbound) \in Items
      BY <3>1, <3>2, ObjectUpdates
    <3>4. Head(obj[s][e].outbound).n \in Nat
      BY <3>3 DEF Items
    <3> QED
      BY <3>4 DEF PumpItem
  <2>3. \A r \in Streams : hpc'[r] = "none" <=> hpc[r] = "none"
    BY <2>2 DEF ServeType
  <2>4. PICK f \in Frames : /\ \A r \in Streams : f \in NotOpens(r) \cap NotAnswers(r)
                            /\ UNCHANGED wire \/ WriteOK(wire, Pump(s, e), f) \/ WriteFails(wire, Pump(s, e))
    BY <2>2, FrameKinds, FrameTypes
  <2>5. \A d \in Endpoints : wire'[d] = wire[d] \/ wire'[d] = Append(wire[d], f)
    <3>1. Pump(s, e) \in Threads
      BY Places
    <3> QED
      BY <2>4, <3>1, SendEffect
  <2> QED
    BY <1>1, <2>1, <2>3, <2>4, <2>5 DEF QuietFor, Keeps
<1>4. ASSUME NEW e \in Endpoints, Close(e) PROVE Opening'
  <2>1. UNCHANGED <<streams, opens, opc, accepted, hpc>>
    BY <1>4 DEF Close, openVars, serveVars
  <2>2. UNCHANGED wire \/ wire' = Transmit(wire, e, CloseFrame)
    BY <1>4 DEF Close
  <2>3. \A d \in Endpoints : wire'[d] = wire[d] \/ wire'[d] = Append(wire[d], CloseFrame)
    BY <2>2 DEF Transmit
  <2>4. \A r \in Streams : CloseFrame \in NotOpens(r) \cap NotAnswers(r)
    BY FrameKinds
  <2> QED
    BY <1>1, <2>1, <2>3, <2>4 DEF QuietFor, Keeps
<1>5. ASSUME NEW t \in Threads, EndRelease(t) PROVE Opening'
  <2> USE <1>5
  <2> DEFINE e == Home(t)
             failure == IF ended[e] THEN terminal[e] ELSE terminalOf(ending[t])
  <2>1. UNCHANGED <<wire, opc, hpc>>
    BY DEF EndRelease, serveVars
  <2>2. e \in Endpoints /\ ending[t] \in Causes
    BY Places DEF EndRelease, Ready, EndType
  <2>3. failure \in Errors /\ failure # "ok"
    <3>1. failure \in Errors
      BY <2>2, ErrorTypes DEF SessType
    <3> QED
      BY <3>1 DEF Errors, Statuses
  <2>4. \A r \in Streams, d \in Endpoints : r \in streams'[d] => r \in streams[d]
    BY <2>2 DEF EndRelease, SessType
  <2>5. /\ opens' = IF e = "client" THEN {} ELSE opens
        /\ \A r \in Streams : accepted'[r] = IF e = "client" /\ r \in opens THEN Append(accepted[r], failure) ELSE accepted[r]
    BY DEF EndRelease
  <2> HIDE DEF e, failure
  <2>6. ASSUME NEW r \in Streams
        PROVE  \/ accepted'[r] = accepted[r]
               \/ /\ r \in opens /\ r \notin opens'
                  /\ \E x \in Errors \cup {"ok"} : accepted'[r] = Append(accepted[r], x) /\ (x = "ok" => hpc[r] # "none")
    BY <2>3, <2>5
  <2>7. opens' \subseteq opens
    BY <2>5
  <2> QED
    BY <1>1, <2>1, <2>4, <2>6, <2>7 DEF QuietFor, Keeps
<1>6. CASE LoseLink \/ UNCHANGED vars
  <2>1. UNCHANGED openingVars /\ UNCHANGED hpc
    BY <1>6 DEF LoseLink, vars, openingVars, engineVars, connVars, sessionVars, openVars, serveVars
  <2> QED
    BY <1>1, <2>1, QuietStep
<1> QED
  BY <1>2, <1>3, <1>4, <1>5, <1>6

\* The steps of a reader.
LEMMA OpeningReader ==
    ASSUME Typed, Delivery, Opening, NEW e \in Endpoints, ReadStep(e)
    PROVE  Opening'
<1> /\ ConnType /\ OpenType /\ ServeType /\ SessType /\ ReadType /\ wire \in [Endpoints -> Seq(Frames)]
    /\ "client" \in Endpoints /\ "server" \in Endpoints /\ "server" # "client" /\ Other(e) \in Endpoints
    /\ Other("server") = "client" /\ Other("client") = "server"
    /\ Reader(e) \in Threads /\ Home(Reader(e)) = e
  BY Places DEF Typed, ConnType, Other
<1>1. ASSUME \A r \in Streams : QuietFor(r) PROVE Opening'
  BY <1>1, OpeningKept DEF Opening
<1>2. ASSUME NEW type, ArrivesAt(e, type), wire' = Consumed(e)
      PROVE  \A d \in Endpoints : wire'[d] = wire[d] \/ (wire[d] # <<>> /\ wire'[d] = Tail(wire[d]))
  <2>1. wire[Other(e)] # <<>> /\ wire' = [wire EXCEPT ![Other(e)] = Tail(wire[Other(e)])]
    BY <1>2, ArrivalType
  <2> QED
    BY <2>1
<1>3. ASSUME NEW cause, StopReading(e, cause) PROVE Opening'
  <2>1. UNCHANGED <<streams, opens, opc, accepted, hpc>> /\ wire' = [wire EXCEPT ![Other(e)] = <<>>]
    BY <1>3 DEF StopReading, openVars, serveVars
  <2>2. \A d \in Endpoints : wire'[d] \in {wire[d], <<>>}
    BY <2>1
  <2> QED
    BY <1>1, <2>1, <2>2 DEF QuietFor, Keeps
<1>4. CASE ReadData(e) \/ ReadCloseSend(e)
  <2>1. UNCHANGED <<streams, opens, opc, accepted, hpc>>
    BY <1>4 DEF ReadData, ReadCloseSend, openVars, serveVars
  <2>2. \E type : ArrivesAt(e, type) /\ wire' = Consumed(e)
    BY <1>4 DEF ReadData, ReadCloseSend
  <2> QED
    BY <1>1, <1>2, <2>1, <2>2 DEF QuietFor, Keeps
<1>5. CASE HandOver(e)
  <2>1. UNCHANGED openingVars /\ UNCHANGED hpc
    BY <1>5 DEF HandOver, openingVars, connVars, sessionVars, openVars, serveVars
  <2> QED
    BY <1>1, <2>1, QuietStep
<1>6. CASE Deliver(e)
  <2>1. delivering[e] # <<>>
    BY <1>6 DEF Deliver, Delivery
  <2>2. PICK s \in Streams : s = delivering[e][1]
    BY <2>1 DEF ReadType
  <2>3. CASE sendFrame(wire, Reader(e), StreamEnd(s, "tooLarge")) /\ UNCHANGED <<streams, opens, openVars, serveVars>>
    <3>1. \A r \in Streams : StreamEnd(s, "tooLarge") \in NotOpens(r) \cap NotAnswers(r)
      <4>1. "tooLarge" \in Statuses
        BY DEF Statuses
      <4> QED
        BY <4>1, FrameKinds
    <3>2. \A d \in Endpoints : wire'[d] = wire[d] \/ wire'[d] = Append(wire[d], StreamEnd(s, "tooLarge"))
      BY <2>3, SendEffect DEF sendFrame
    <3>3. UNCHANGED <<streams, opens, opc, accepted, hpc>>
      BY <2>3 DEF openVars, serveVars
    <3> QED
      BY <1>1, <3>1, <3>2, <3>3 DEF QuietFor, Keeps
  <2>4. CASE UNCHANGED <<connVars, sessionVars, openVars, serveVars>>
    <3>1. UNCHANGED openingVars /\ UNCHANGED hpc
      BY <2>4 DEF openingVars, connVars, sessionVars, openVars, serveVars
    <3> QED
      BY <1>1, <3>1, QuietStep
  <2>5. CASE \E cause : StopReading(e, cause)
    BY <1>3, <2>5
  <2> QED
    BY <1>5, <1>6, <2>2, <2>3, <2>4, <2>5 DEF Deliver, HandOverFails
<1>7. CASE DeliverBlocked(e)
  BY <1>3, <1>5, <1>7 DEF DeliverBlocked, HandOverFails
<1>8. CASE ReadClose(e) \/ ReadEOF(e) \/ ReadError(e)
  BY <1>3, <1>8 DEF ReadClose, ReadEOF, ReadError
<1>9. ASSUME e = "client", NEW type, ArrivesAt(e, type)
      PROVE  Arriving(e) \in Frames /\ wire["server"] \in Seq(Frames) /\ wire["server"] # <<>> /\ Arriving(e) = wire["server"][1]
  <2>1. /\ wire[Other(e)] \in Seq(Frames) /\ wire[Other(e)] # <<>> /\ Arriving(e) = wire[Other(e)][1]
    BY <1>9, ArrivalType
  <2> QED
    BY <1>9, <2>1, SMTT(200)
<1>10. ASSUME e = "client", NEW type, ArrivesAt(e, type), NEW r \in Streams, Arriving(e) \notin NotAnswers(r)
       PROVE  hpc[r] # "none"
  <2>1. wire["server"] \in Seq(NotAnswers(r)) => Arriving(e) \in NotAnswers(r)
    BY <1>9, <1>10, SMTT(200)
  <2> QED
    BY <1>10, <2>1 DEF Opening, OpeningOf
<1>11. CASE e = "client" /\ ReadAck
  <2> USE <1>11
  <2> ArrivesAt(e, "Ack") /\ wire' = Consumed(e)
    BY DEF ReadAck
  <2>1. PICK s \in Streams : s = Arriving(e).s
    BY ArrivalType, SMTT(200)
  <2>2. Arriving(e) \notin NotAnswers(s)
    BY <2>1 DEF NotAnswers, Acks, ArrivesAt
  <2>3. hpc[s] # "none"
    BY <1>10, <2>2
  <2> /\ UNCHANGED <<streams, opc, hpc>> /\ opens' = opens \ {s}
      /\ accepted' = IF s \in opens THEN [accepted EXCEPT ![s] = Append(@, "ok")] ELSE accepted
    BY <2>1 DEF ReadAck, serveVars, takeOpen
  <2>4. \A r \in Streams : \/ accepted'[r] = accepted[r]
                           \/ r = s /\ s \in opens /\ accepted'[r] = Append(accepted[r], "ok")
    BY DEF OpenType
  <2>5. \A d \in Endpoints : wire'[d] = wire[d] \/ (wire[d] # <<>> /\ wire'[d] = Tail(wire[d]))
    BY <1>2
  <2>6. \A r \in opens' : r \in opens /\ r # s
    OBVIOUS
  <2> QED
    BY <1>1, <2>3, <2>4, <2>5, <2>6 DEF QuietFor, Keeps
<1>12. CASE ReadStreamEnd(e)
  <2> ArrivesAt(e, "StreamEnd") /\ wire' = Consumed(e) /\ UNCHANGED <<opc, hpc>>
    BY <1>12 DEF ReadStreamEnd, serveVars
  <2>1. PICK s \in Streams, status \in Statuses : s = Arriving(e).s /\ status = Arriving(e).status
    BY ArrivalType, SMTT(200)
  <2>2. e = "client" /\ status = "ok" => hpc[s] # "none"
    <3>1. status = "ok" => Arriving(e) \notin NotAnswers(s)
      BY <2>1 DEF NotAnswers, ArrivesAt
    <3> QED
      BY <1>10, <3>1
  <2>3. \A d \in Endpoints : wire'[d] = wire[d] \/ (wire[d] # <<>> /\ wire'[d] = Tail(wire[d]))
    BY <1>2
  <2> \/ /\ e = "client" /\ s \in opens /\ opens' = opens \ {s} /\ UNCHANGED streams
         /\ accepted' = [accepted EXCEPT ![s] = Append(@, status)]
      \/ UNCHANGED <<opens, accepted>> /\ streams' = [streams EXCEPT ![e] = @ \ {s}]
    BY <1>12, <2>1 DEF ReadStreamEnd, takeOpen
  <2>4. \A r \in Streams, d \in Endpoints : r \in streams'[d] => r \in streams[d]
    BY DEF SessType
  <2>5. \A r \in Streams : \/ accepted'[r] = accepted[r]
                           \/ /\ r = s /\ s \in opens /\ s \notin opens' /\ e = "client"
                              /\ accepted'[r] = Append(accepted[r], status)
    BY DEF OpenType
  <2>6. opens' \subseteq opens /\ status \in Errors \cup {"ok"}
    BY ErrorTypes
  <2> QED
    BY <1>1, <2>2, <2>3, <2>4, <2>5, <2>6 DEF QuietFor, Keeps
<1>13. CASE e = "server" /\ ReadOpenStream
  <2> USE <1>13
  <2> ArrivesAt("server", "OpenStream")
    BY DEF ReadOpenStream
  <2> PICK s \in Streams : s = Arriving("server").s
    BY ArrivalType, SMTT(200)
  <2> /\ wire["client"] \in Seq(Frames) /\ wire["client"] # <<>> /\ Arriving("server") = wire["client"][1]
      /\ Consumed("server") \in [Endpoints -> Seq(Frames)]
      /\ Consumed("server") = [wire EXCEPT !["client"] = Tail(wire["client"])]
    <3>1. /\ wire[Other("server")] \in Seq(Frames) /\ wire[Other("server")] # <<>>
          /\ Arriving("server") = wire[Other("server")][1] /\ Consumed("server") \in [Endpoints -> Seq(Frames)]
          /\ Consumed("server") = [wire EXCEPT ![Other("server")] = Tail(wire[Other("server")])]
      BY ArrivalType
    <3> QED
      BY <3>1
  <2>1. Opens(wire["client"][1], s)
    BY DEF Opens, ArrivesAt
  <2> opc[s] \notin {"idle", "usable"} /\ hpc[s] = "none" /\ OpeningOf(s)
    <3>1. wire["client"] \notin Seq(NotOpens(s))
      BY <2>1, SMTT(200) DEF NotOpens
    <3> QED
      BY <3>1 DEF Opening, OpeningOf
  <2>2. ASSUME NEW f, WriteOK(Consumed("server"), Reader("server"), f) \/ WriteFails(Consumed("server"), Reader("server"))
        PROVE  /\ wire'["client"] = Tail(wire["client"])
               /\ wire'["server"] = wire["server"] \/ wire'["server"] = Append(wire["server"], f)
    <3>1. /\ wire'[Other("server")] = Tail(wire[Other("server")])
          /\ wire'["server"] = wire["server"] \/ wire'["server"] = Append(wire["server"], f)
      BY <2>2, ReplyEffect
    <3> QED
      BY <3>1
  <2> UNCHANGED <<opens, opc, accepted>>
    BY DEF ReadOpenStream, openVars
  <2>3. CASE UNCHANGED <<streams, hpc>>
    <3>1. PICK status \in Statuses : /\ status # "ok"
                                     /\ \/ WriteOK(Consumed("server"), Reader("server"), StreamEnd(s, status))
                                        \/ WriteFails(Consumed("server"), Reader("server"))
      <4>1. "overloaded" \in Statuses /\ "refused" \in Statuses
        BY DEF Statuses
      <4>2. CASE \E status \in {"overloaded", "refused"} : sendFrame(Consumed("server"), Reader("server"), StreamEnd(s, status))
        BY <4>1, <4>2 DEF sendFrame
      <4>3. CASE WriteFails(Consumed("server"), Reader("server"))
        BY <4>1, <4>3
      <4>4. CASE hpc' = [hpc EXCEPT ![s] = "running"]
        BY <2>3, <4>4 DEF ServeType
      <4> QED
        BY <4>2, <4>3, <4>4 DEF ReadOpenStream
    <3>2. \A r \in Streams : StreamEnd(s, status) \in NotAnswers(r)
      BY <3>1, FrameKinds
    <3>3. /\ wire'["client"] = Tail(wire["client"])
          /\ wire'["server"] = wire["server"] \/ wire'["server"] = Append(wire["server"], StreamEnd(s, status))
      BY <2>2, <3>1
    <3> QED
      BY <1>1, <2>3, <3>2, <3>3 DEF QuietFor, Keeps
  <2>4. CASE acknowledge(s) /\ hpc' = [hpc EXCEPT ![s] = "running"] /\ streams' = [streams EXCEPT !["server"] = @ \cup {s}]
    <3> /\ wire'["client"] = Tail(wire["client"])
        /\ wire'["server"] = wire["server"] \/ wire'["server"] = Append(wire["server"], Ack(s))
      BY <2>2, <2>4 DEF acknowledge
    <3>1. /\ hpc'[s] = "running" /\ \A r \in Streams : r # s => hpc'[r] = hpc[r]
          /\ \A r \in Streams, d \in Endpoints : r # s \/ d = "client" => (r \in streams'[d] => r \in streams[d])
      BY <2>4, SMTT(200) DEF ServeType, SessType
    <3>2. ASSUME NEW r \in Streams, r # s PROVE OpeningOf(r)'
      <4>1. Ack(s) \in NotAnswers(r)
        BY <3>2, FrameKinds
      <4>2. QuietFor(r)
        BY <3>1, <3>2, <4>1 DEF QuietFor, Keeps
      <4> QED
        BY <4>2, OpeningKept DEF Opening
    <3>3. OpeningOf(s)'
      <4>1. wire'["client"] \in Seq(NotOpens(s))
        BY <2>1, OpenedLast, SMTT(200) DEF OpeningOf
      <4>2. OpensOnce(wire'["client"], s)
        <5>1. Keeps("client", NotOpens(s))
          BY DEF Keeps
        <5> QED
          BY <5>1, OpenedOnce DEF OpeningOf
      <4> QED
        BY <3>1, <4>1, <4>2 DEF OpeningOf, NotOpens, NotAnswers, OpensOnce
    <3> QED
      BY <3>2, <3>3 DEF Opening
  <2> QED
    BY <2>3, <2>4 DEF ReadOpenStream
<1> QED
  BY <1>4, <1>6, <1>7, <1>8, <1>11, <1>12, <1>13 DEF ReadStep

\* The inductive invariant so far.
Base == Typed /\ Locks /\ Opening

\* Types, locks and openings are as stated in every reachable state.
LEMMA BaseInvariant == Spec => []Base
<1>1. Init => Opening
  <2> SUFFICES ASSUME Init, NEW s \in Streams PROVE OpeningOf(s)
    BY DEF Opening
  <2>1. \A S : <<>> \in Seq(S)
    BY NoElements
  <2>2. /\ opc[s] = "idle" /\ hpc[s] = "none" /\ accepted[s] = <<>> /\ opens = {}
        /\ streams["client"] = {} /\ streams["server"] = {} /\ wire["client"] = <<>> /\ wire["server"] = <<>>
    BY DEF Init, Endpoints
  <2> QED
    BY <2>1, <2>2, SMTT(200) DEF OpeningOf, OpensOnce
<1>2. Base /\ [Next]_vars => Opening'
  <2> SUFFICES ASSUME Typed, Delivery, Opening, [Next]_vars PROVE Opening'
    BY DEF Base, Locks
  <2> QED
    BY OpeningClient, OpeningServer, OpeningOther, OpeningReader DEF Next
<1> QED
  BY <1>1, <1>2, LockInvariant, PTL DEF Spec, Base

\* The answer to OpenStream always finds room, for a stream is answered once,
\* whether by its acknowledgement, by a refusal or by the end of the session.
THEOREM AnswerSafety == Spec => []AnswerNeverBlocks
<1>1. Base => AnswerNeverBlocks
  BY DEF Base, Opening, OpeningOf, AnswerNeverBlocks
<1> QED
  BY <1>1, BaseInvariant, PTL

-----------------------------------------------------------------------------
(* What most steps leave alone.                                              *)

\* The network and both sessions are up.
Up == linkUp /\ \A e \in Endpoints : open[e]

\* No stream begins, returns from its handler or is released.
NoTurn ==
    /\ \A r \in Streams : /\ hpc'[r] = "none" <=> hpc[r] = "none"
                          /\ hpc'[r] = "running" <=> hpc[r] = "running"
                          /\ hpc'[r] = "done" <=> hpc[r] = "done"
    /\ streamGate' = streamGate
    /\ streamSlots' = streamSlots \/ (streamSlots' = streamSlots + 1 /\ ~Up')

\* Once the network or a session is down it stays so.
LEMMA Fading ==
    ASSUME [Next]_vars
    PROVE  \/ UNCHANGED <<linkUp, open>>
           \/ ~linkUp' /\ UNCHANGED open
           \/ UNCHANGED linkUp /\ \E e \in Endpoints : open' = [open EXCEPT ![e] = FALSE]
<1>1. CASE UNCHANGED vars
  BY <1>1 DEF vars, engineVars, connVars
<1>2. ASSUME NEW s \in Streams, OpenCheck(s) \/ CancelCaller(s) \/ OpenStep(s) \/ FollowStep(s)
      PROVE  UNCHANGED <<linkUp, open>>
  BY <1>2 DEF OpenCheck, CancelCaller, OpenStep, OpenWrite, OpenSettled, OpenCancelled, OpenNotify, OpenReturn,
                     FollowStep, FollowFind, Follow, FollowNotify, engineVars, connVars
<1>3. ASSUME NEW s \in Streams, HandlerReturn(s) \/ ServeStep(s) PROVE UNCHANGED <<linkUp, open>>
  BY <1>3 DEF HandlerReturn, ServeStep, CloseSendBegin, FlushEnqueue, HandlerClosed, HandlerFlushed,
                     HandlerFlushCancelled, HandlerFinish, HandlerEnd, HandlerRelease, objOnly, engineVars, connVars
<1>4. ASSUME NEW s \in Streams, NEW e \in Endpoints,
             Send(s, e) \/ CloseSendBegin(s, e) \/ CloseSendStep(s, e) \/ RecvStep(s, e) \/ PumpItem(s, e)
      PROVE  UNCHANGED <<linkUp, open>>
  <2>1. CASE PumpItem(s, e)
    BY <2>1 DEF PumpItem
  <2> QED
    BY <1>4, <2>1 DEF Send, CloseSendBegin, CloseSendStep, CloseSendEnqueue, CloseSendWritten,
                     CloseSendCancelled, RecvStep, RecvMessage, RecvEnd, RecvCancelled, objOnly, engineVars, connVars
<1>5. ASSUME NEW e \in Endpoints, ReadStep(e) PROVE UNCHANGED <<linkUp, open>>
  <2>1. CASE Deliver(e) \/ DeliverBlocked(e)
    BY <2>1 DEF Deliver, DeliverBlocked, HandOver, HandOverFails, StopReading, connVars
  <2> QED
    BY <1>5, <2>1 DEF ReadStep, ReadOpenStream, ReadAck, ReadData, ReadCloseSend, ReadStreamEnd, ReadClose,
                             ReadEOF, ReadError, StopReading
<1>6. ASSUME NEW e \in Endpoints, Close(e) PROVE UNCHANGED <<linkUp, open>>
  BY <1>6 DEF Close
<1>7. ASSUME NEW t \in Threads, EndRelease(t) PROVE UNCHANGED linkUp /\ \E e \in Endpoints : open' = [open EXCEPT ![e] = FALSE]
  BY <1>7, Places DEF EndRelease
<1>8. CASE LoseLink
  BY <1>8 DEF LoseLink
<1> QED
  BY <1>1, <1>2, <1>3, <1>4, <1>5, <1>6, <1>7, <1>8 DEF Next

\* The stream that a frame opens is not served yet.
LEMMA NotServed ==
    ASSUME Typed, Opening, ArrivesAt("server", "OpenStream")
    PROVE  Arriving("server").s \in Streams /\ hpc[Arriving("server").s] = "none"
<1> ConnType /\ "server" \in Endpoints /\ Other("server") = "client"
  BY Places DEF Typed, Other
<1>1. PICK s \in Streams : s = Arriving("server").s
  BY ArrivalType, SMTT(200)
<1>2. /\ wire["client"] \in Seq(Frames) /\ wire["client"] # <<>> /\ Arriving("server") = wire["client"][1]
  <2>1. /\ wire[Other("server")] \in Seq(Frames) /\ wire[Other("server")] # <<>>
        /\ Arriving("server") = wire[Other("server")][1]
    BY ArrivalType
  <2> QED
    BY <2>1
<1>3. Opens(wire["client"][1], s)
  BY <1>1, <1>2 DEF Opens, ArrivesAt
<1>4. wire["client"] \notin Seq(NotOpens(s))
  BY <1>2, <1>3, SMTT(200) DEF NotOpens
<1> QED
  BY <1>1, <1>4 DEF Opening, OpeningOf

\* Only the server's read loop and its handlers turn a stream.
LEMMA CountOther ==
    ASSUME Typed,
           \/ \E s \in Streams : OpenCheck(s) \/ CancelCaller(s) \/ OpenStep(s) \/ FollowStep(s)
           \/ \E s \in Streams, e \in Endpoints :
                  Send(s, e) \/ CloseSendBegin(s, e) \/ CloseSendStep(s, e) \/ RecvStep(s, e) \/ PumpItem(s, e)
           \/ \E e \in Endpoints : ReadStep(e) /\ ~ReadOpenStream
           \/ \E e \in Endpoints : Close(e)
           \/ \E t \in Threads : EndRelease(t)
           \/ LoseLink
           \/ UNCHANGED vars
    PROVE  NoTurn
<1>1. hpc \in [Streams -> {"none", "running", "closing", "flushing", "barrier", "flushed", "finishing",
                              "releasing", "done"}]
  BY DEF Typed, ServeType
<1>2. ASSUME UNCHANGED <<hpc, streamGate, streamSlots>> PROVE NoTurn
  BY <1>2 DEF NoTurn
<1>3. ASSUME NEW s \in Streams, OpenCheck(s) \/ CancelCaller(s) \/ OpenStep(s) \/ FollowStep(s)
      PROVE  UNCHANGED <<hpc, streamGate, streamSlots>>
  BY <1>3 DEF OpenCheck, CancelCaller, OpenStep, OpenWrite, OpenSettled, OpenCancelled, OpenNotify, OpenReturn,
                     FollowStep, FollowFind, Follow, FollowNotify, serveVars
<1>4. ASSUME NEW s \in Streams, NEW e \in Endpoints,
             Send(s, e) \/ CloseSendBegin(s, e) \/ CloseSendStep(s, e) \/ RecvStep(s, e)
      PROVE  UNCHANGED <<hpc, streamGate, streamSlots>>
  BY <1>4 DEF Send, CloseSendBegin, CloseSendStep, CloseSendEnqueue, CloseSendWritten,
                     CloseSendCancelled, RecvStep, RecvMessage, RecvEnd, RecvCancelled, objOnly, serveVars
<1>5. ASSUME NEW s \in Streams, NEW e \in Endpoints, PumpItem(s, e) PROVE NoTurn
  <2>1. /\ UNCHANGED <<streamGate, streamSlots>>
        /\ UNCHANGED hpc \/ hpc' = [hpc EXCEPT ![s] = IF hpc[s] = "barrier" THEN "flushed" ELSE hpc[s]]
    BY <1>5 DEF PumpItem
  <2> QED
    BY <1>1, <2>1 DEF NoTurn
<1>6. ASSUME NEW e \in Endpoints, ReadStep(e), ~ReadOpenStream
      PROVE  UNCHANGED <<hpc, streamGate, streamSlots>>
  <2>1. CASE Deliver(e) \/ DeliverBlocked(e)
    BY <2>1 DEF Deliver, DeliverBlocked, HandOver, HandOverFails, StopReading, serveVars
  <2> QED
    BY <1>6, <2>1 DEF ReadStep, ReadAck, ReadData, ReadCloseSend, ReadStreamEnd, ReadClose,
                             ReadEOF, ReadError, StopReading, serveVars
<1>7. ASSUME NEW e \in Endpoints, Close(e) PROVE UNCHANGED <<hpc, streamGate, streamSlots>>
  BY <1>7 DEF Close, serveVars
<1>8. ASSUME NEW t \in Threads, EndRelease(t) PROVE UNCHANGED <<hpc, streamGate, streamSlots>>
  BY <1>8 DEF EndRelease, serveVars
<1>9. LoseLink \/ UNCHANGED vars => UNCHANGED <<hpc, streamGate, streamSlots>>
  BY DEF LoseLink, vars, serveVars
<1> QED
  BY <1>2, <1>3, <1>4, <1>5, <1>6, <1>7, <1>8, <1>9

-----------------------------------------------------------------------------
(* One direction of one stream: what is queued, on its wire and received.   *)

\* The application of this end may have sent on the stream.
Opened(s, d) == IF d = "client" THEN opc[s] = "established" ELSE hpc[s] # "none"

\* The frames that end or carry what is sent on a stream, and all others.
Carries(f, s) == f.type \in {"Data", "CloseSend"} /\ f.s = s
NotCarries(s) == {f \in Frames : ~Carries(f, s)}
NotCloses(s) == {f \in Frames : ~(f.type = "CloseSend" /\ f.s = s)}
DataItems == {item \in Items : item.kind = "data"}
OpenItems == {item \in Items : item.kind # "close"}

\* A queue holds the last k of n messages, and then what is no message.
DataFirst(q, n, k) ==
    /\ k <= Len(q) /\ k <= n
    /\ \A i \in DOMAIN q : IF i <= k THEN q[i].kind = "data" /\ q[i].n = n - k + i ELSE q[i].kind # "data"
Queued(q, n) == \E k \in Nat : DataFirst(q, n, k)
\* The number of the message that the pump writes next.
NextOut(q, n) == IF q # <<>> /\ Head(q).kind = "data" THEN Head(q).n ELSE n + 1

\* What is queued at the sending end of a stream, and what is on its wire before
\* anything may have been sent, or CloseSend called.
SendingOf(s, d) ==
    LET o == obj[s][d] IN
    /\ Queued(o.outbound, sent[s][d])
    /\ o.csend = "no" /\ (d = "server" => hpc[s] \in {"none", "running"}) => o.outbound \in Seq(DataItems)
    /\ o.csend = "no" => o.outbound \in Seq(OpenItems) /\ wire[d] \in Seq(NotCloses(s))
    /\ ~Opened(s, d) => /\ sent[s][d] = 0 /\ o.outbound = <<>> /\ o.csend = "no"
                        /\ wire[d] \in Seq(NotCarries(s))

\* A CloseSend counts as the message after the last one.
Number(f, end) == IF f.type = "Data" THEN f.n ELSE end
\* The frames of a stream on a wire are those from next to out - 1, in their order.
Numbered(w, s, next, out, end) ==
    /\ next <= out
    /\ \A i \in DOMAIN w : Carries(w[i], s) => Number(w[i], end) \in next .. out - 1
    /\ \A i, j \in DOMAIN w : i < j /\ Carries(w[i], s) /\ Carries(w[j], s) => Number(w[i], end) < Number(w[j], end)
    /\ \A m \in next .. out - 1 : \E i \in DOMAIN w : Carries(w[i], s) /\ Number(w[i], end) = m

\* A frame that is written at d reaches the peer's read loop.
Live(d) == linkUp /\ open[d] /\ open[Other(d)] /\ reader[Other(d)] # "stopped"

\* What the receiving end has had, and what its read loop is to see next.
Had(s, e) == Len(received[s][e]) + Len(obj[s][e].inbound)
Delivers(s, e) == delivering[e] # <<>> /\ delivering[e][1] = s
Expected(s, e) == Had(s, e) + (IF Delivers(s, e) THEN 2 ELSE 1)
\* A stream that takes messages.
Takes(s, e) == s \in streams[e] /\ obj[s][e].inb = "open"

\* The wire continues what the receiving end has had, and the queue of a live
\* pump continues the wire.
Continues(s, e) ==
    LET d == Other(e)
        o == obj[s][d]
    IN \E out \in Nat :
           /\ Numbered(wire[d], s, Expected(s, e), out, sent[s][d] + 1)
           /\ Live(d) /\ o.pump = "running" => out = NextOut(o.outbound, sent[s][d])

ReceivingOf(s, e) ==
    LET d == Other(e)
        o == obj[s][e]
    IN
    /\ ~Opened(s, d) => received[s][e] = <<>> /\ o.inbound = <<>> /\ ~Delivers(s, e)
    /\ \A i \in DOMAIN received[s][e] : received[s][e][i] = i
    /\ \A i \in DOMAIN o.inbound : o.inbound[i] = Len(received[s][e]) + i
    /\ Delivers(s, e) /\ o.inb = "open" => delivering[e][2] = Had(s, e) + 1
    /\ Takes(s, e) => Continues(s, e)
    /\ o.inb = "half" => Had(s, e) = sent[s][d] /\ obj[s][d].csend # "no"
    /\ rend[s][e] = "eof" => o.inb = "half" /\ o.inbound = <<>>

-----------------------------------------------------------------------------
(* Queues and wires.                                                         *)

\* An item that is no message is queued.
LEMMA QueueMark ==
    ASSUME NEW q \in Seq(Items), NEW n \in Nat, Queued(q, n), NEW item \in Items, item.kind # "data"
    PROVE  Queued(Append(q, item), n) /\ NextOut(Append(q, item), n) = NextOut(q, n)
<1>1. PICK k \in Nat : DataFirst(q, n, k)
  BY DEF Queued
<1>2. /\ Append(q, item) \in Seq(Items) /\ Len(Append(q, item)) = Len(q) + 1 /\ Append(q, item)[Len(q) + 1] = item
      /\ \A i \in 1 .. Len(q) : Append(q, item)[i] = q[i]
  BY SMTT(200)
<1>3. DataFirst(Append(q, item), n, k)
  <2>1. Len(q) \in Nat
    BY SMTT(200)
  <2>2. k <= Len(q) /\ k <= n /\ Len(q) \in Nat
    BY <1>1, <2>1 DEF DataFirst
  <2>3. k <= Len(q) + 1 /\ ~(Len(q) + 1 <= k)
    BY <2>2, SMTT(200)
  <2>4. ASSUME NEW i \in 1 .. Len(q) PROVE
          IF i <= k THEN q[i].kind = "data" /\ q[i].n = n - k + i ELSE q[i].kind # "data"
    <3>1. DOMAIN q = 1 .. Len(q)
      BY SMTT(200)
    <3> QED
      BY <1>1, <3>1 DEF DataFirst
  <2>5. DOMAIN Append(q, item) = (1 .. Len(q)) \cup {Len(q) + 1}
    BY <2>2, SMTT(200)
  <2> QED
    BY <1>2, <2>2, <2>3, <2>4, <2>5 DEF DataFirst
<1>4. NextOut(Append(q, item), n) = NextOut(q, n)
  <2>1. CASE q = <<>>
    BY <2>1, SMTT(200) DEF NextOut
  <2>2. CASE q # <<>>
    <3>1. Append(q, item) # <<>> /\ Head(Append(q, item)) = Head(q)
      BY <2>2, SMTT(200)
    <3> QED
      BY <2>2, <3>1 DEF NextOut
  <2> QED
    BY <2>1, <2>2
<1> QED
  BY <1>3, <1>4 DEF Queued

\* A message is queued.
LEMMA QueueMessage ==
    ASSUME NEW q \in Seq(DataItems), NEW n \in Nat, Queued(q, n)
    PROVE  LET p == Append(q, [kind |-> "data", n |-> n + 1]) IN
           Queued(p, n + 1) /\ NextOut(p, n + 1) = NextOut(q, n) /\ p \in Seq(DataItems)
<1> DEFINE item == [kind |-> "data", n |-> n + 1]
           p == Append(q, item)
<1>1. PICK k \in Nat : DataFirst(q, n, k)
  BY DEF Queued
<1>2. \A i \in 1 .. Len(q) : q[i].kind = "data"
  BY SMTT(200) DEF DataItems
<1>3. k = Len(q)
  BY <1>1, <1>2, SMTT(200) DEF DataFirst
<1> item \in DataItems /\ item.kind = "data" /\ item.n = n + 1
  BY SMTT(200) DEF DataItems, Items
<1> /\ p \in Seq(DataItems) /\ Len(p) = Len(q) + 1 /\ p[Len(q) + 1] = item
    /\ \A i \in 1 .. Len(q) : p[i] = q[i]
  BY SMTT(200)
<1>4. DataFirst(p, n + 1, k + 1)
  BY <1>1, <1>3, SMTT(200) DEF DataFirst
<1>5. NextOut(p, n + 1) = NextOut(q, n)
  <2>1. CASE q = <<>>
    BY <2>1, SMTT(200) DEF NextOut
  <2>2. CASE q # <<>>
    BY <2>2, <1>2, SMTT(200) DEF NextOut
  <2> QED
    BY <2>1, <2>2
<1> QED
  BY <1>4, <1>5, SMTT(200) DEF Queued

\* The pump takes the first item.
LEMMA QueueTaken ==
    ASSUME NEW q \in Seq(Items), NEW n \in Nat, Queued(q, n), q # <<>>
    PROVE  /\ Queued(Tail(q), n)
           /\ Head(q).kind = "data" => NextOut(q, n) = Head(q).n /\ NextOut(Tail(q), n) = Head(q).n + 1
           /\ Head(q).kind # "data" => NextOut(q, n) = n + 1 /\ NextOut(Tail(q), n) = n + 1
<1> PICK k \in Nat : DataFirst(q, n, k)
  BY DEF Queued
<1>1. /\ Tail(q) \in Seq(Items) /\ Len(Tail(q)) = Len(q) - 1 /\ Len(q) \in Nat \ {0} /\ Head(q) = q[1]
      /\ \A i \in 1 .. Len(q) - 1 : Tail(q)[i] = q[i + 1]
  BY SMTT(200)
<1>2. CASE Head(q).kind = "data"
  <2> k >= 1 /\ q[1].n = n - k + 1
    BY <1>1, <1>2, SMTT(200) DEF DataFirst
  <2>1. DataFirst(Tail(q), n, k - 1)
    BY <1>1, SMTT(200) DEF DataFirst
  <2>2. NextOut(Tail(q), n) = q[1].n + 1
    <3>1. CASE Tail(q) = <<>>
      <4>1. Len(q) = 1
        <5>1. Len(Tail(q)) = 0
          BY <3>1, NoElements
        <5>2. Len(q) - 1 = 0 /\ Len(q) \in Nat
          BY <1>1, <5>1
        <5> QED
          BY <5>2, SMTT(200)
      <4>2. k = 1
        BY <1>1, <4>1, SMTT(200) DEF DataFirst
      <4> QED
        BY <3>1, <4>2, SMTT(200) DEF NextOut
    <3>2. CASE Tail(q) # <<>>
      <4> USE <3>2
      <4>1. Head(Tail(q)) = q[2] /\ Len(q) >= 2
        BY <1>1, SMTT(200)
      <4>2. CASE k >= 2
        BY <1>1, <4>1, <4>2, SMTT(200) DEF DataFirst, NextOut
      <4>3. CASE k = 1
        BY <1>1, <4>1, <4>3, SMTT(200) DEF DataFirst, NextOut
      <4> QED
        BY <4>2, <4>3, SMTT(200)
    <3> QED
      BY <3>1, <3>2
  <2>3. k - 1 \in Nat
    BY SMTT(200)
  <2> QED
    BY <1>1, <1>2, <2>1, <2>2, <2>3 DEF Queued, NextOut
<1>3. CASE Head(q).kind # "data"
  <2>1. k = 0
    BY <1>1, <1>3, SMTT(200) DEF DataFirst
  <2>2. DataFirst(Tail(q), n, 0)
    BY <1>1, <2>1, SMTT(200) DEF DataFirst
  <2>3. Tail(q) # <<>> => Head(Tail(q)) = q[2] /\ q[2].kind # "data"
    BY <1>1, <2>1, SMTT(200) DEF DataFirst
  <2> QED
    BY <1>1, <1>3, <2>2, <2>3 DEF Queued, NextOut
<1> QED
  BY <1>2, <1>3

\* The number after a number.
LEMMA After ==
    /\ 0 + 1 = 1
    /\ \A n \in Nat : n + 1 \in Nat /\ n + 2 = (n + 1) + 1 /\ \A m \in Nat : n + 1 = m + 1 => n = m
  BY SMTT(200)

\* Nothing is queued.
LEMMA EmptyQueue == Queued(<<>>, 0) /\ NextOut(<<>>, 0) = 1 /\ Len(<<>>) + Len(<<>>) = 0
<1>1. DataFirst(<<>>, 0, 0) /\ 0 \in Nat /\ Len(<<>>) + Len(<<>>) = 0
  BY SMTT(200) DEF DataFirst
<1>2. NextOut(<<>>, 0) = 1
  BY SMTT(200) DEF NextOut
<1>3. Queued(<<>>, 0)
  BY <1>1, SMTT(200) DEF Queued
<1> QED
  BY <1>1, <1>2, <1>3

\* The first element of a sequence and the others, and one that is appended.
LEMMA FirstIn ==
    ASSUME NEW S, NEW q \in Seq(S), q # <<>>
    PROVE  Head(q) \in S /\ Tail(q) \in Seq(S)
  BY SMTT(200)

\* A sequence over a set is one over every larger set.
LEMMA Wider ==
    ASSUME NEW S, NEW T, S \subseteq T, NEW q \in Seq(S)
    PROVE  q \in Seq(T)
  BY SMTT(200)

\* A sequence grows by an element of its set.
LEMMA LastIn ==
    ASSUME NEW S, NEW q \in Seq(S), NEW x \in S
    PROVE  Append(q, x) \in Seq(S)
  BY SMTT(200)

\* The elements of a sequence that has grown by one, or lost its first.
LEMMA Grown ==
    ASSUME NEW w \in Seq(Frames), NEW f \in Frames
    PROVE  /\ Append(w, f) \in Seq(Frames) /\ Len(w) \in Nat
           /\ Len(w) + 1 \in DOMAIN Append(w, f) /\ Append(w, f)[Len(w) + 1] = f
           /\ \A i \in DOMAIN w : i \in Nat /\ i < Len(w) + 1 /\ i \in DOMAIN Append(w, f) /\ Append(w, f)[i] = w[i]
           /\ \A i \in DOMAIN Append(w, f) : i = Len(w) + 1 \/ i \in DOMAIN w
  BY SMTT(200)

\* The frames of a wire that has lost its first.
LEMMA Shrunk ==
    ASSUME NEW w \in Seq(Frames), w # <<>>
    PROVE  /\ Tail(w) \in Seq(Frames) /\ 1 \in DOMAIN w /\ Head(w) = w[1] /\ w[1] \in Frames
           /\ \A i \in DOMAIN Tail(w) : i \in Nat \ {0} /\ i + 1 \in DOMAIN w /\ Tail(w)[i] = w[i + 1]
           /\ \A i \in DOMAIN w : i = 1 \/ (i \in Nat /\ i > 1 /\ i - 1 \in DOMAIN Tail(w) /\ Tail(w)[i - 1] = w[i])
  BY SMTT(200)

\* A frame of another kind or stream is written.
LEMMA WireGrows ==
    ASSUME NEW s \in Streams, NEW w \in Seq(Frames), NEW next \in Nat, NEW out \in Nat, NEW end \in Nat,
           Numbered(w, s, next, out, end), NEW f \in NotCarries(s)
    PROVE  Numbered(Append(w, f), s, next, out, end)
<1> DEFINE v == Append(w, f)
           n == Len(w) + 1
<1>1. f \in Frames /\ ~Carries(f, s)
  BY DEF NotCarries
<1>2. /\ v[n] = f /\ n \in DOMAIN v
      /\ \A i \in DOMAIN w : i \in DOMAIN v /\ v[i] = w[i]
      /\ \A i \in DOMAIN v : i = n \/ i \in DOMAIN w
  BY <1>1, Grown, SMTT(200)
<1> HIDE DEF v, n
<1>3. \A i \in DOMAIN v : Carries(v[i], s) => i \in DOMAIN w /\ v[i] = w[i]
  BY <1>1, <1>2
<1>4. \A i \in DOMAIN v : Carries(v[i], s) => Number(v[i], end) \in next .. out - 1
  BY <1>3 DEF Numbered
<1>5. \A i, j \in DOMAIN v : i < j /\ Carries(v[i], s) /\ Carries(v[j], s) => Number(v[i], end) < Number(v[j], end)
  BY <1>3 DEF Numbered
<1>6. \A m \in next .. out - 1 : \E i \in DOMAIN v : Carries(v[i], s) /\ Number(v[i], end) = m
  BY <1>2 DEF Numbered
<1>7. Numbered(v, s, next, out, end)
  BY <1>4, <1>5, <1>6 DEF Numbered
<1> QED
  BY <1>7 DEF v

\* The frame of the stream that is due is written.
LEMMA WireCarries ==
    ASSUME NEW s \in Streams, NEW w \in Seq(Frames), NEW next \in Nat, NEW out \in Nat, NEW end \in Nat,
           Numbered(w, s, next, out, end), NEW f \in Frames, Carries(f, s), Number(f, end) = out
    PROVE  Numbered(Append(w, f), s, next, out + 1, end)
<1> DEFINE v == Append(w, f)
           n == Len(w) + 1
<1> /\ v[n] = f /\ n \in DOMAIN v /\ n \in Nat
    /\ \A i \in DOMAIN w : i \in DOMAIN v /\ v[i] = w[i] /\ i \in Nat /\ i < n
    /\ \A i \in DOMAIN v : i = n \/ i \in DOMAIN w
  BY Grown, SMTT(200)
<1> HIDE DEF v, n
<1> /\ next <= out
    /\ \A i \in DOMAIN w : Carries(w[i], s) => Number(w[i], end) \in next .. out - 1
    /\ \A i, j \in DOMAIN w : i < j /\ Carries(w[i], s) /\ Carries(w[j], s) => Number(w[i], end) < Number(w[j], end)
    /\ \A m \in next .. out - 1 : \E i \in DOMAIN w : Carries(w[i], s) /\ Number(w[i], end) = m
  BY DEF Numbered
<1>1. \A i \in DOMAIN v : Carries(v[i], s) => Number(v[i], end) \in next .. (out + 1) - 1
  BY SMTT(200)
<1>2. ASSUME NEW i \in DOMAIN v, NEW j \in DOMAIN v, i < j, Carries(v[i], s), Carries(v[j], s)
      PROVE  Number(v[i], end) < Number(v[j], end)
  <2> USE <1>2
  <2>1. i \in DOMAIN w
    BY SMTT(200)
  <2>2. CASE j \in DOMAIN w
    BY <2>1, <2>2
  <2>3. CASE j = n
    BY <2>1, <2>3, SMTT(200)
  <2> QED
    BY <2>2, <2>3
<1>3. ASSUME NEW m \in next .. (out + 1) - 1
      PROVE  \E i \in DOMAIN v : Carries(v[i], s) /\ Number(v[i], end) = m
  <2>1. m = out \/ m \in next .. out - 1
    BY SMTT(200)
  <2> QED
    BY <2>1
<1>4. next <= out + 1
  BY SMTT(200)
<1>5. Numbered(v, s, next, out + 1, end)
  BY <1>1, <1>2, <1>3, <1>4 DEF Numbered
<1> QED
  BY <1>5 DEF v

\* A frame of another kind or stream is read.
LEMMA WireShrinks ==
    ASSUME NEW s \in Streams, NEW w \in Seq(Frames), w # <<>>, NEW next \in Nat, NEW out \in Nat, NEW end \in Nat,
           Numbered(w, s, next, out, end), ~Carries(Head(w), s)
    PROVE  Numbered(Tail(w), s, next, out, end)
<1> DEFINE v == Tail(w)
<1> /\ Head(w) = w[1]
    /\ \A i \in DOMAIN v : i \in Nat \ {0} /\ i + 1 \in DOMAIN w /\ v[i] = w[i + 1]
    /\ \A i \in DOMAIN w : i = 1 \/ (i \in Nat /\ i > 1 /\ i - 1 \in DOMAIN v /\ v[i - 1] = w[i])
  BY Shrunk
<1> HIDE DEF v
<1> /\ next <= out
    /\ \A i \in DOMAIN w : Carries(w[i], s) => Number(w[i], end) \in next .. out - 1
    /\ \A i, j \in DOMAIN w : i < j /\ Carries(w[i], s) /\ Carries(w[j], s) => Number(w[i], end) < Number(w[j], end)
    /\ \A m \in next .. out - 1 : \E i \in DOMAIN w : Carries(w[i], s) /\ Number(w[i], end) = m
  BY DEF Numbered
<1>1. \A i \in DOMAIN v : Carries(v[i], s) => Number(v[i], end) \in next .. out - 1
  OBVIOUS
<1>2. ASSUME NEW i \in DOMAIN v, NEW j \in DOMAIN v, i < j, Carries(v[i], s), Carries(v[j], s)
      PROVE  Number(v[i], end) < Number(v[j], end)
  <2>1. i + 1 < j + 1
    BY <1>2, SMTT(200)
  <2> QED
    BY <1>2, <2>1, SMTT(200)
<1>3. \A m \in next .. out - 1 : \E i \in DOMAIN v : Carries(v[i], s) /\ Number(v[i], end) = m
  OBVIOUS
<1>4. Numbered(v, s, next, out, end)
  BY <1>1, <1>2, <1>3 DEF Numbered
<1> QED
  BY <1>4 DEF v

\* The first frame of the stream that is read is the one expected.
LEMMA WireDelivers ==
    ASSUME NEW s \in Streams, NEW w \in Seq(Frames), w # <<>>, NEW next \in Nat, NEW out \in Nat, NEW end \in Nat,
           Numbered(w, s, next, out, end), Carries(Head(w), s)
    PROVE  Number(Head(w), end) = next /\ Numbered(Tail(w), s, next + 1, out, end)
<1> DEFINE v == Tail(w)
<1> /\ Head(w) = w[1] /\ 1 \in DOMAIN w /\ w[1] \in Frames
    /\ \A i \in DOMAIN v : i \in Nat \ {0} /\ i + 1 \in DOMAIN w /\ v[i] = w[i + 1]
    /\ \A i \in DOMAIN w : i = 1 \/ (i \in Nat /\ i > 1 /\ i - 1 \in DOMAIN v /\ v[i - 1] = w[i])
  BY Shrunk
<1> HIDE DEF v
<1> /\ next <= out
    /\ \A i \in DOMAIN w : Carries(w[i], s) => Number(w[i], end) \in next .. out - 1
    /\ \A i, j \in DOMAIN w : i < j /\ Carries(w[i], s) /\ Carries(w[j], s) => Number(w[i], end) < Number(w[j], end)
    /\ \A m \in next .. out - 1 : \E i \in DOMAIN w : Carries(w[i], s) /\ Number(w[i], end) = m
  BY DEF Numbered
<1> Number(w[1], end) \in next .. out - 1
  BY SMTT(200)
<1> Number(w[1], end) = next
  <2>1. next \in next .. out - 1
    BY SMTT(200)
  <2>2. PICK i \in DOMAIN w : Carries(w[i], s) /\ Number(w[i], end) = next
    BY <2>1
  <2>3. CASE i = 1
    BY <2>2, <2>3
  <2>4. CASE i # 1
    <3>1. 1 < i
      BY <2>4
    <3>2. Number(w[1], end) < next
      BY <2>2, <3>1
    <3> QED
      BY <3>2, SMTT(200)
  <2> QED
    BY <2>3, <2>4
<1>1. ASSUME NEW i \in DOMAIN v, Carries(v[i], s)
      PROVE  Number(v[i], end) \in next + 1 .. out - 1
  <2>1. i + 1 \in DOMAIN w /\ v[i] = w[i + 1] /\ 1 < i + 1
    BY SMTT(200)
  <2>2. Number(v[i], end) \in next .. out - 1 /\ next < Number(v[i], end)
    BY <1>1, <2>1, SMTT(200)
  <2> QED
    BY <2>2, SMTT(200)
<1>2. ASSUME NEW i \in DOMAIN v, NEW j \in DOMAIN v, i < j, Carries(v[i], s), Carries(v[j], s)
      PROVE  Number(v[i], end) < Number(v[j], end)
  <2>1. i + 1 < j + 1
    BY <1>2, SMTT(200)
  <2> QED
    BY <1>2, <2>1, SMTT(200)
<1>3. ASSUME NEW m \in next + 1 .. out - 1
      PROVE  \E i \in DOMAIN v : Carries(v[i], s) /\ Number(v[i], end) = m
  <2>1. m \in next .. out - 1 /\ m # next
    BY SMTT(200)
  <2>2. PICK i \in DOMAIN w : Carries(w[i], s) /\ Number(w[i], end) = m
    BY <2>1
  <2>3. i # 1
    BY <2>1, <2>2
  <2> QED
    BY <2>2, <2>3, SMTT(200)
<1>4. next + 1 <= out
  BY SMTT(200)
<1>5. Numbered(v, s, next + 1, out, end)
  BY <1>1, <1>2, <1>3, <1>4 DEF Numbered
<1> QED
  BY <1>5 DEF v

\* Where no CloseSend is on the wire, the number of one does not matter.
LEMMA WireEnd ==
    ASSUME NEW s \in Streams, NEW w \in Seq(NotCloses(s)), NEW next \in Nat, NEW out \in Nat, NEW end, NEW last,
           Numbered(w, s, next, out, end)
    PROVE  Numbered(w, s, next, out, last)
<1>1. \A i \in DOMAIN w : Carries(w[i], s) => Number(w[i], end) = Number(w[i], last)
  <2>1. \A i \in DOMAIN w : w[i] \in NotCloses(s)
    BY SMTT(200)
  <2> QED
    BY <2>1 DEF NotCloses, Carries, Number
<1> QED
  BY <1>1 DEF Numbered

\* A wire without frames of the stream.
LEMMA WireEmpty ==
    ASSUME NEW s \in Streams, NEW w \in Seq(NotCarries(s)), NEW next \in Nat, NEW end
    PROVE  /\ Numbered(w, s, next, next, end)
           /\ \A out \in Nat : Numbered(w, s, next, out, end) => out = next
<1>1. \A i \in DOMAIN w : ~Carries(w[i], s)
  <2>1. \A i \in DOMAIN w : w[i] \in NotCarries(s)
    BY SMTT(200)
  <2> QED
    BY <2>1 DEF NotCarries
<1>2. next <= next /\ ~ \E m : m \in next .. next - 1
  BY SMTT(200)
<1>3. Numbered(w, s, next, next, end)
  BY <1>1, <1>2 DEF Numbered
<1>4. ASSUME NEW out \in Nat, Numbered(w, s, next, out, end) PROVE out = next
  <2>1. next <= out /\ ~ \E m : m \in next .. out - 1
    BY <1>1, <1>4 DEF Numbered
  <2>2. next \notin next .. out - 1
    BY <2>1
  <2> QED
    BY <2>1, <2>2, SMTT(200)
<1> QED
  BY <1>3, <1>4

-----------------------------------------------------------------------------
(* What no step undoes.                                                      *)

\* Streams stay open, and a handler runs from the beginning or not at all.
LEMMA OpenedForGood ==
    ASSUME Typed, Opening, [Next]_vars, NEW s \in Streams
    PROVE  /\ \A d \in Endpoints : Opened(s, d) => Opened(s, d)'
           /\ hpc'[s] \in {"none", "running"} => hpc[s] \in {"none", "running"}
<1> /\ opc \in [Streams -> {"idle", "usable", "waiting", "notify", "returning", "established", "failed"}]
    /\ hpc \in [Streams -> {"none", "running", "closing", "flushing", "barrier", "flushed", "finishing",
                            "releasing", "done"}]
  BY DEF Typed, ServeType, OpenType
<1>1. opc[s] = "established" => opc'[s] = "established"
  <2>1. CASE UNCHANGED opc
    BY <2>1
  <2>2. ASSUME NEW r \in Streams, OpenCheck(r) \/ CancelCaller(r) \/ OpenStep(r) \/ FollowStep(r)
        PROVE  opc'[s] = opc[s] \/ opc[s] # "established"
    <3>1. UNCHANGED opc \/ \E v : opc[r] # "established" /\ opc' = [opc EXCEPT ![r] = v]
      BY <2>2 DEF OpenCheck, CancelCaller, OpenStep, OpenWrite, OpenSettled, OpenCancelled, OpenNotify,
                         OpenReturn, FollowStep, FollowFind, Follow, FollowNotify
    <3> QED
      BY <3>1
  <2>3. ASSUME NEW r \in Streams, HandlerReturn(r) \/ ServeStep(r) PROVE UNCHANGED opc
    BY <2>3 DEF HandlerReturn, ServeStep, CloseSendBegin, FlushEnqueue, HandlerClosed, HandlerFlushed,
                       HandlerFlushCancelled, HandlerFinish, HandlerEnd, HandlerRelease, objOnly, openVars
  <2>4. ASSUME NEW r \in Streams, NEW e \in Endpoints,
               Send(r, e) \/ CloseSendBegin(r, e) \/ CloseSendStep(r, e) \/ RecvStep(r, e) \/ PumpItem(r, e)
        PROVE  UNCHANGED opc
    <3>1. CASE PumpItem(r, e)
      BY <3>1 DEF PumpItem, openVars
    <3> QED
      BY <2>4, <3>1 DEF Send, CloseSendBegin, CloseSendStep, CloseSendEnqueue, CloseSendWritten,
                       CloseSendCancelled, RecvStep, RecvMessage, RecvEnd, RecvCancelled, objOnly, openVars
  <2>5. ASSUME NEW e \in Endpoints, ReadStep(e) PROVE UNCHANGED opc
    <3>1. CASE Deliver(e) \/ DeliverBlocked(e)
      BY <3>1 DEF Deliver, DeliverBlocked, HandOver, HandOverFails, StopReading, openVars
    <3> QED
      BY <2>5, <3>1 DEF ReadStep, ReadOpenStream, ReadAck, ReadData, ReadCloseSend, ReadStreamEnd, ReadClose,
                               ReadEOF, ReadError, StopReading, openVars
  <2>6. ASSUME NEW e \in Endpoints, Close(e) PROVE UNCHANGED opc
    BY <2>6 DEF Close, openVars
  <2>7. ASSUME NEW t \in Threads, EndRelease(t) PROVE UNCHANGED opc
    BY <2>7 DEF EndRelease
  <2>8. LoseLink \/ UNCHANGED vars => UNCHANGED opc
    BY DEF LoseLink, vars, openVars
  <2> QED
    BY <2>1, <2>2, <2>3, <2>4, <2>5, <2>6, <2>7, <2>8 DEF Next
<1>2. /\ hpc[s] # "none" => hpc'[s] # "none"
      /\ hpc'[s] \in {"none", "running"} => hpc[s] \in {"none", "running"}
  <2>1. CASE NoTurn
    BY <2>1 DEF NoTurn
  <2>2. ASSUME NEW r \in Streams, NEW to \in {"closing", "flushing", "barrier", "finishing", "releasing", "done"},
               hpc' = [hpc EXCEPT ![r] = to]
        PROVE  /\ hpc[s] # "none" => hpc'[s] # "none"
               /\ hpc'[s] \in {"none", "running"} => hpc[s] \in {"none", "running"}
    BY <2>2
  <2>3. ASSUME NEW r \in Streams, HandlerReturn(r) \/ ServeStep(r)
        PROVE  UNCHANGED hpc \/ \E to \in {"closing", "flushing", "barrier", "finishing", "releasing", "done"} :
                                    hpc' = [hpc EXCEPT ![r] = to]
    BY <2>3 DEF HandlerReturn, ServeStep, CloseSendBegin, FlushEnqueue, HandlerClosed, HandlerFlushed,
                       HandlerFlushCancelled, HandlerFinish, HandlerEnd, HandlerRelease, objOnly, serveVars
  <2>4. CASE ReadOpenStream
    <3>1. UNCHANGED hpc \/ hpc' = [hpc EXCEPT ![Arriving("server").s] = "running"]
      BY <2>4 DEF ReadOpenStream
    <3>2. Arriving("server").s \in Streams /\ hpc[Arriving("server").s] = "none"
      BY <2>4, NotServed DEF ReadOpenStream
    <3> QED
      BY <3>1, <3>2
  <2> QED
    BY <2>1, <2>2, <2>3, <2>4, CountOther DEF Next
<1> QED
  BY <1>1, <1>2 DEF Opened

\* A read loop that stopped, a session that ended and a network that failed do
\* not come back.
LEMMA LiveForGood ==
    ASSUME Typed, [Next]_vars, NEW d \in Endpoints
    PROVE  Live(d)' => Live(d)
<1> ConnType /\ ReadType /\ Other(d) \in Endpoints
  BY Places DEF Typed
<1>1. (linkUp' => linkUp) /\ \A e \in Endpoints : open'[e] => open[e]
  BY Fading, SMTT(200) DEF ConnType
<1>2. \A e \in Endpoints : reader[e] = "stopped" => reader'[e] = "stopped"
  <2>1. CASE UNCHANGED readVars
    BY <2>1 DEF readVars
  <2>2. ASSUME NEW e \in Endpoints, ReadStep(e)
        PROVE  UNCHANGED reader \/ (reader[e] # "stopped" /\ \E v : reader' = [reader EXCEPT ![e] = v])
    <3>1. CASE Deliver(e) \/ DeliverBlocked(e)
      <4>1. \E v : reader' = [reader EXCEPT ![e] = v]
        BY <3>1 DEF Deliver, DeliverBlocked, HandOver, HandOverFails, StopReading
      <4> QED
        BY <3>1, <4>1 DEF Deliver, DeliverBlocked
    <3>2. CASE ReadClose(e) \/ ReadEOF(e) \/ ReadError(e)
      BY <3>2 DEF ReadClose, ReadEOF, ReadError, ArrivesAt, Reading, StopReading
    <3>3. CASE ReadData(e)
      BY <3>3 DEF ReadData, ArrivesAt, Reading, readVars
    <3> QED
      BY <2>2, <3>1, <3>2, <3>3 DEF ReadStep, ReadOpenStream, ReadAck, ReadCloseSend, ReadStreamEnd, readVars
  <2>3. ASSUME NEW e \in Endpoints, ReadStep(e)
        PROVE  \A c \in Endpoints : reader[c] = "stopped" => reader'[c] = "stopped"
    BY <2>2, <2>3 DEF ReadType
  <2> QED
    BY <2>1, <2>3, OthersEnds DEF Next
<1> QED
  BY <1>1, <1>2 DEF Live

-----------------------------------------------------------------------------
(* Steps that leave a direction of a stream in peace.                        *)

\* No frame of the stream is written, and none is read that it would take.
WireCalm(s, d) ==
    \/ wire'[d] = wire[d]
    \/ \E f \in NotCarries(s) : wire'[d] = Append(wire[d], f)
    \/ /\ wire[d] # <<>> /\ wire'[d] = Tail(wire[d])
       /\ Head(wire[d]) \in NotCarries(s) \/ s \notin streams[Other(d)]

\* At the sending end at most a mark is queued or taken.
SenderCalm(s, d) ==
    LET o == obj[s][d]
        p == obj'[s][d]
    IN
    /\ sent'[s][d] = sent[s][d]
    /\ \/ p.outbound = o.outbound
       \/ \E item \in Items \ DataItems :
              /\ p.outbound = Append(o.outbound, item) /\ Opened(s, d)
              /\ p.csend # "no" \/ (d = "server" /\ hpc'[s] \notin {"none", "running"} /\ item \in OpenItems)
       \/ o.outbound # <<>> /\ Head(o.outbound).kind # "data" /\ p.outbound = Tail(o.outbound)
    /\ p.csend = "no" => o.csend = "no"
    /\ p.csend # "no" => o.csend # "no" \/ Opened(s, d)
    /\ p.pump = "running" => o.pump = "running"
SendCalm(s, d) == SenderCalm(s, d) /\ WireCalm(s, d)

\* At the receiving end at most the queue is closed, the end is reported or the
\* message in hand is given up.
RecvCalm(s, e) ==
    LET o == obj[s][e]
        p == obj'[s][e]
    IN
    /\ received'[s][e] = received[s][e] /\ p.inbound = o.inbound
    /\ p.inb = o.inb \/ (o.inb = "open" /\ p.inb = "final")
    /\ rend'[s][e] = rend[s][e] \/ rend'[s][e] # "eof" \/ (o.inb = "half" /\ o.inbound = <<>>)
    /\ delivering'[e] = delivering[e] \/ ~Delivers(s, e)'
    /\ s \in streams'[e] => s \in streams[e]

\* The types of what a direction of a stream consists of.
LEMMA DirectionTypes ==
    ASSUME Typed, NEW s \in Streams, NEW d \in Endpoints
    PROVE  /\ obj[s][d] \in StreamObjects /\ obj[s][d].outbound \in Seq(Items) /\ obj[s][d].inbound \in Seq(Nat)
           /\ sent[s][d] \in Nat /\ received[s][d] \in Seq(Nat) /\ wire[d] \in Seq(Frames)
           /\ Had(s, d) \in Nat /\ Expected(s, d) \in Nat /\ sent[s][d] + 1 \in Nat
           /\ ~Delivers(s, d) => Expected(s, d) = Had(s, d) + 1
<1> /\ obj[s][d] \in StreamObjects /\ sent[s][d] \in Nat /\ received[s][d] \in Seq(Nat) /\ wire[d] \in Seq(Frames)
  BY DEF Typed, ObjType, BoundedObjects, AppType, ConnType
<1>1. obj[s][d].outbound \in Seq(Items) /\ obj[s][d].inbound \in Seq(Nat)
  BY DEF StreamObjects
<1>2. Had(s, d) \in Nat
  <2>1. PICK n, m \in Nat : n = Len(received[s][d]) /\ m = Len(obj[s][d].inbound)
    BY <1>1, NoElements
  <2>2. Had(s, d) = n + m
    BY <2>1 DEF Had
  <2> QED
    BY <2>2, SMTT(200)
<1> QED
  BY <1>1, <1>2, SMTT(200) DEF Expected

\* Sequences of one kind keep it.
LEMMA WireKinds ==
    ASSUME NEW s \in Streams, NEW d \in Endpoints, Keeps(d, NotCarries(s))
    PROVE  /\ wire[d] \in Seq(NotCarries(s)) => wire'[d] \in Seq(NotCarries(s))
           /\ wire[d] \in Seq(NotCloses(s)) => wire'[d] \in Seq(NotCloses(s))
<1>1. NotCarries(s) \subseteq NotCloses(s)
  BY DEF NotCarries, NotCloses, Carries
<1>2. Keeps(d, NotCloses(s))
  BY <1>1 DEF Keeps
<1> QED
  BY <1>2, NeverArrives

\* A step that sends nothing keeps what holds at the sending end.
LEMMA SendingKept ==
    ASSUME Typed, Opening, [Next]_vars, NEW s \in Streams, NEW d \in Endpoints, SendingOf(s, d),
           SenderCalm(s, d), Keeps(d, NotCarries(s))
    PROVE  /\ SendingOf(s, d)'
           /\ NextOut(obj'[s][d].outbound, sent'[s][d]) = NextOut(obj[s][d].outbound, sent[s][d])
<1> DEFINE q == obj[s][d].outbound
           n == sent[s][d]
<1> q \in Seq(Items) /\ n \in Nat /\ sent'[s][d] = n /\ Queued(q, n)
  BY DirectionTypes DEF SenderCalm, SendingOf
<1>1. /\ Opened(s, d) => Opened(s, d)'
      /\ hpc'[s] \in {"none", "running"} => hpc[s] \in {"none", "running"}
  BY OpenedForGood
<1>2. /\ wire[d] \in Seq(NotCarries(s)) => wire'[d] \in Seq(NotCarries(s))
      /\ wire[d] \in Seq(NotCloses(s)) => wire'[d] \in Seq(NotCloses(s))
  BY WireKinds
<1> DEFINE Fits == /\ Queued(obj'[s][d].outbound, n) /\ NextOut(obj'[s][d].outbound, n) = NextOut(q, n)
                   /\ ~Opened(s, d) => obj'[s][d].outbound = q \/ q # <<>>
                   /\ obj'[s][d].csend = "no" /\ (d = "server" => hpc'[s] \in {"none", "running"}) =>
                         obj'[s][d].outbound = q \/ (q # <<>> /\ Head(q).kind # "data")
<1> Fits
  <2>1. CASE obj'[s][d].outbound = q
    BY <2>1
  <2>2. ASSUME NEW item \in Items \ DataItems, obj'[s][d].outbound = Append(q, item), Opened(s, d),
               obj'[s][d].csend # "no" \/ (d = "server" /\ hpc'[s] \notin {"none", "running"} /\ item \in OpenItems)
        PROVE  Fits
    <3>1. item \in Items /\ item.kind # "data"
      BY <2>2 DEF DataItems
    <3>2. Queued(Append(q, item), n) /\ NextOut(Append(q, item), n) = NextOut(q, n)
      BY <3>1, QueueMark
    <3> QED
      BY <2>2, <3>2
  <2>3. CASE q # <<>> /\ Head(q).kind # "data" /\ obj'[s][d].outbound = Tail(q)
    <3>1. Queued(Tail(q), n) /\ NextOut(Tail(q), n) = NextOut(q, n)
      BY <2>3, QueueTaken
    <3> QED
      BY <2>3, <3>1
  <2> QED
    BY <2>1, <2>2, <2>3 DEF SenderCalm
<1>3. obj'[s][d].csend = "no" /\ (d = "server" => hpc'[s] \in {"none", "running"}) => obj'[s][d].outbound \in Seq(DataItems)
  <2> SUFFICES ASSUME obj'[s][d].csend = "no", d = "server" => hpc'[s] \in {"none", "running"}
               PROVE  obj'[s][d].outbound \in Seq(DataItems)
    OBVIOUS
  <2>1. q \in Seq(DataItems)
    BY <1>1 DEF SenderCalm, SendingOf
  <2>2. q # <<>> => Head(q).kind = "data"
    <3>1. q # <<>> => Head(q) \in DataItems
      BY <2>1, FirstIn
    <3> QED
      BY <3>1 DEF DataItems
  <2> QED
    BY <2>1, <2>2
<1>4. obj'[s][d].csend = "no" => obj'[s][d].outbound \in Seq(OpenItems) /\ wire'[d] \in Seq(NotCloses(s))
  <2> SUFFICES ASSUME obj'[s][d].csend = "no"
               PROVE  obj'[s][d].outbound \in Seq(OpenItems) /\ wire'[d] \in Seq(NotCloses(s))
    OBVIOUS
  <2>1. q \in Seq(OpenItems) /\ wire'[d] \in Seq(NotCloses(s))
    BY <1>2 DEF SenderCalm, SendingOf
  <2>2. /\ \A item \in OpenItems : Append(q, item) \in Seq(OpenItems)
        /\ q # <<>> => Tail(q) \in Seq(OpenItems)
    BY <2>1, FirstIn, LastIn
  <2> QED
    BY <2>1, <2>2 DEF SenderCalm
<1>5. ~Opened(s, d)' => /\ sent'[s][d] = 0 /\ obj'[s][d].outbound = <<>> /\ obj'[s][d].csend = "no"
                        /\ wire'[d] \in Seq(NotCarries(s))
  <2> SUFFICES ASSUME ~Opened(s, d)
               PROVE  /\ sent'[s][d] = 0 /\ obj'[s][d].outbound = <<>> /\ obj'[s][d].csend = "no"
                      /\ wire'[d] \in Seq(NotCarries(s))
    BY <1>1
  <2> QED
    BY <1>2 DEF SenderCalm, SendingOf
<1> QED
  BY <1>3, <1>4, <1>5 DEF SendingOf, NotCarries, NotCloses

\* A receiving end that is left in peace depends on the sending end for what
\* continues, and for that a CloseSend was the end.
LEMMA ReceivingCalm ==
    ASSUME Typed, Opening, [Next]_vars, NEW s \in Streams, NEW e \in Endpoints, NEW d \in Endpoints, d = Other(e),
           ReceivingOf(s, e), RecvCalm(s, e), Takes(s, e) /\ Takes(s, e)' => Continues(s, e)',
           obj[s][e].inb = "half" => sent'[s][d] = sent[s][d] /\ obj'[s][d].csend # "no"
    PROVE  ReceivingOf(s, e)'
<1>1. Opened(s, d) => Opened(s, d)'
  BY OpenedForGood
<1> /\ received'[s][e] = received[s][e] /\ obj'[s][e].inbound = obj[s][e].inbound
    /\ Delivers(s, e)' => Delivers(s, e) /\ delivering'[e] = delivering[e]
  BY DEF RecvCalm, Delivers
<1>2. Had(s, e)' = Had(s, e)
  BY DEF Had
<1> (obj'[s][e].inb = "open" => obj[s][e].inb = "open") /\ (obj'[s][e].inb = "half" <=> obj[s][e].inb = "half")
  BY DEF RecvCalm
<1>3. Takes(s, e)' => Continues(s, e)'
  BY DEF Takes, RecvCalm
<1>4. ~Opened(s, d)' => received'[s][e] = <<>> /\ obj'[s][e].inbound = <<>> /\ ~Delivers(s, e)'
  BY <1>1 DEF ReceivingOf
<1>5. /\ \A i \in DOMAIN received'[s][e] : received'[s][e][i] = i
      /\ \A i \in DOMAIN obj'[s][e].inbound : obj'[s][e].inbound[i] = Len(received'[s][e]) + i
  BY DEF ReceivingOf
<1>6. Delivers(s, e)' /\ obj'[s][e].inb = "open" => delivering'[e][2] = Had(s, e)' + 1
  BY <1>2 DEF ReceivingOf
<1>7. obj'[s][e].inb = "half" => Had(s, e)' = sent'[s][d] /\ obj'[s][d].csend # "no"
  BY <1>2 DEF ReceivingOf
<1>8. rend'[s][e] = "eof" => obj'[s][e].inb = "half" /\ obj'[s][e].inbound = <<>>
  BY DEF ReceivingOf, RecvCalm
<1> QED
  BY <1>3, <1>4, <1>5, <1>6, <1>7, <1>8 DEF ReceivingOf

\* What is expected next does not change with such a step.
LEMMA ExpectedCalm ==
    ASSUME NEW s \in Streams, NEW e \in Endpoints, RecvCalm(s, e), Delivers(s, e)' = Delivers(s, e)
    PROVE  Expected(s, e)' = Expected(s, e)
<1>1. /\ received'[s][e] = received[s][e] /\ obj'[s][e].inbound = obj[s][e].inbound
  BY DEF RecvCalm
<1> QED
  BY <1>1 DEF Had, Expected

\* A step that neither sends nor delivers keeps what holds of a direction.
LEMMA ReceivingKept ==
    ASSUME Typed, Opening, [Next]_vars, NEW s \in Streams, NEW e \in Endpoints, NEW d \in Endpoints, d = Other(e),
           SendingOf(s, d), ReceivingOf(s, e), SendCalm(s, d), RecvCalm(s, e),
           Delivers(s, e)' = Delivers(s, e) \/ obj'[s][e].inb # "open"
    PROVE  SendingOf(s, d)' /\ ReceivingOf(s, e)'
<1> /\ wire[d] \in Seq(Frames) /\ Expected(s, e) \in Nat /\ sent[s][d] \in Nat /\ sent[s][d] + 1 \in Nat
    /\ e = Other(d)
  BY DirectionTypes, Places
<1>1. SendingOf(s, d)' /\ NextOut(obj'[s][d].outbound, sent'[s][d]) = NextOut(obj[s][d].outbound, sent[s][d])
  <2>1. Keeps(d, NotCarries(s))
    BY DEF SendCalm, WireCalm, Keeps
  <2> QED
    BY <2>1, SendingKept DEF SendCalm
<1>2. Takes(s, e) /\ Takes(s, e)' => Continues(s, e)'
  <2> SUFFICES ASSUME Takes(s, e), Takes(s, e)' PROVE Continues(s, e)'
    OBVIOUS
  <2>1. Expected(s, e)' = Expected(s, e)
    BY ExpectedCalm DEF Takes
  <2> PICK out \in Nat :
          /\ Numbered(wire[d], s, Expected(s, e), out, sent[s][d] + 1)
          /\ Live(d) /\ obj[s][d].pump = "running" => out = NextOut(obj[s][d].outbound, sent[s][d])
    BY DEF ReceivingOf, Continues
  <2>2. Numbered(wire'[d], s, Expected(s, e), out, sent[s][d] + 1)
    <3>1. CASE wire'[d] = wire[d]
      BY <3>1
    <3>2. CASE \E f \in NotCarries(s) : wire'[d] = Append(wire[d], f)
      BY <3>2, WireGrows
    <3>3. CASE wire[d] # <<>> /\ wire'[d] = Tail(wire[d]) /\ Head(wire[d]) \in NotCarries(s)
      <4>1. ~Carries(Head(wire[d]), s)
        BY <3>3 DEF NotCarries
      <4> QED
        BY <3>3, <4>1, WireShrinks
    <3> QED
      BY <3>1, <3>2, <3>3 DEF SendCalm, WireCalm, Takes
  <2>3. Live(d)' /\ obj'[s][d].pump = "running" => out = NextOut(obj'[s][d].outbound, sent'[s][d])
    BY <1>1, LiveForGood DEF SendCalm, SenderCalm
  <2> QED
    BY <2>1, <2>2, <2>3 DEF Continues, SendCalm, SenderCalm
<1>3. obj[s][e].inb = "half" => sent'[s][d] = sent[s][d] /\ obj'[s][d].csend # "no"
  BY DEF ReceivingOf, SendCalm, SenderCalm
<1> QED
  BY <1>1, <1>2, <1>3, ReceivingCalm

\* A message is sent.
LEMMA SendMove ==
    ASSUME Typed, Opening, [Next]_vars, NEW s \in Streams, NEW e \in Endpoints, NEW d \in Endpoints, d = Other(e),
           SendingOf(s, d), ReceivingOf(s, e), RecvCalm(s, e), Delivers(s, e)' = Delivers(s, e),
           Opened(s, d), wire'[d] = wire[d],
           d = "server" => hpc[s] = "running",
           obj[s][d].csend = "no", obj'[s][d].csend = "no", sent'[s][d] = sent[s][d] + 1,
           obj'[s][d].outbound = Append(obj[s][d].outbound, [kind |-> "data", n |-> sent[s][d] + 1]),
           obj'[s][d].pump = obj[s][d].pump
    PROVE  SendingOf(s, d)' /\ ReceivingOf(s, e)'
<1> DEFINE q == obj[s][d].outbound
           n == sent[s][d]
           p == Append(q, [kind |-> "data", n |-> n + 1])
<1> /\ wire[d] \in Seq(NotCloses(s)) /\ Expected(s, e) \in Nat /\ n \in Nat /\ Queued(q, n)
    /\ q \in Seq(DataItems)
  BY DirectionTypes DEF SendingOf
<1>1. Queued(p, n + 1) /\ NextOut(p, n + 1) = NextOut(q, n) /\ p \in Seq(DataItems) /\ p \in Seq(OpenItems)
  <2>1. DataItems \subseteq OpenItems
    BY DEF DataItems, OpenItems
  <2>2. Queued(p, n + 1) /\ NextOut(p, n + 1) = NextOut(q, n) /\ p \in Seq(DataItems)
    BY QueueMessage
  <2> HIDE DEF p
  <2> QED
    BY <2>1, <2>2, Wider
<1>2. Opened(s, d)' /\ (Live(d)' => Live(d))
  BY OpenedForGood, LiveForGood
<1> HIDE DEF p
<1>3. obj'[s][d].outbound = p /\ sent'[s][d] = n + 1
  BY DEF p
<1>4. SendingOf(s, d)'
  BY <1>1, <1>2, <1>3 DEF SendingOf, NotCloses
<1>5. Takes(s, e) => Continues(s, e)'
  <2> SUFFICES ASSUME Takes(s, e) PROVE Continues(s, e)'
    OBVIOUS
  <2>1. PICK out \in Nat :
            /\ Numbered(wire[d], s, Expected(s, e), out, n + 1)
            /\ Live(d) /\ obj[s][d].pump = "running" => out = NextOut(q, n)
    BY DEF ReceivingOf, Continues
  <2>2. Numbered(wire[d], s, Expected(s, e), out, (n + 1) + 1)
    BY <2>1, WireEnd
  <2> QED
    BY <1>1, <1>2, <1>3, <2>1, <2>2, ExpectedCalm DEF Continues
<1>6. obj[s][e].inb # "half"
  BY DEF ReceivingOf
<1> QED
  BY <1>4, <1>5, <1>6, ReceivingCalm

\* The pump writes a message or the close marker.
LEMMA PumpMove ==
    ASSUME Typed, Opening, [Next]_vars, NEW s \in Streams, NEW e \in Endpoints, NEW d \in Endpoints, d = Other(e),
           SendingOf(s, d), ReceivingOf(s, e), RecvCalm(s, e), Delivers(s, e)' = Delivers(s, e), sent'[s][d] = sent[s][d],
           obj[s][d].outbound # <<>>, obj'[s][d].outbound = Tail(obj[s][d].outbound), obj[s][d].pump = "running",
           obj'[s][d].csend = "no" <=> obj[s][d].csend = "no",
           hpc'[s] \in {"none", "running"} => hpc[s] \in {"none", "running"},
           NEW f \in Frames, Carries(f, s), Number(f, sent[s][d] + 1) = NextOut(obj[s][d].outbound, sent[s][d]),
           f.type = "CloseSend" => Head(obj[s][d].outbound).kind # "data" /\ obj[s][d].csend # "no",
           f.type = "CloseSend" => obj'[s][d].pump # "running",
           f.type # "CloseSend" => Head(obj[s][d].outbound).kind = "data",
           wire'[d] \in {wire[d], Append(wire[d], f)},
           wire'[d] = Append(wire[d], f) => Live(d),
           Live(d)' /\ obj'[s][d].pump = "running" => wire'[d] = Append(wire[d], f)
    PROVE  SendingOf(s, d)' /\ ReceivingOf(s, e)'
<1> DEFINE q == obj[s][d].outbound
           n == sent[s][d]
<1>1. /\ wire[d] \in Seq(Frames) /\ Expected(s, e) \in Nat /\ n \in Nat /\ n + 1 \in Nat /\ Queued(q, n)
      /\ q \in Seq(Items) /\ Tail(q) \in Seq(Items)
  <2>1. /\ wire[d] \in Seq(Frames) /\ Expected(s, e) \in Nat /\ n \in Nat /\ Queued(q, n)
        /\ q \in Seq(Items) /\ q # <<>>
    BY DirectionTypes DEF SendingOf
  <2> QED
    BY <2>1, FirstIn, After
<1>2. /\ Queued(Tail(q), n)
      /\ Head(q).kind = "data" => NextOut(q, n) = Head(q).n /\ NextOut(Tail(q), n) = Head(q).n + 1
  BY <1>1, QueueTaken
<1>3. Opened(s, d) /\ Opened(s, d)' /\ (Live(d)' => Live(d))
  BY OpenedForGood, LiveForGood DEF SendingOf
<1>4. SendingOf(s, d)'
  <2>1. /\ q \in Seq(DataItems) => Tail(q) \in Seq(DataItems)
        /\ q \in Seq(OpenItems) => Tail(q) \in Seq(OpenItems)
    BY FirstIn
  <2>2. obj[s][d].csend = "no" => wire'[d] \in Seq(NotCloses(s))
    <3> SUFFICES ASSUME obj[s][d].csend = "no" PROVE wire'[d] \in Seq(NotCloses(s))
      OBVIOUS
    <3>1. wire[d] \in Seq(NotCloses(s)) /\ f \in NotCloses(s)
      BY DEF SendingOf, NotCloses
    <3>2. Append(wire[d], f) \in Seq(NotCloses(s))
      BY <3>1, LastIn
    <3> QED
      BY <3>1, <3>2
  <2> QED
    BY <1>2, <1>3, <2>1, <2>2 DEF SendingOf, NotCloses
<1>5. Takes(s, e) => Continues(s, e)'
  <2> SUFFICES ASSUME Takes(s, e) PROVE Continues(s, e)'
    OBVIOUS
  <2> PICK out \in Nat :
          /\ Numbered(wire[d], s, Expected(s, e), out, n + 1)
          /\ Live(d) /\ obj[s][d].pump = "running" => out = NextOut(q, n)
    BY DEF ReceivingOf, Continues
  <2>1. CASE wire'[d] = Append(wire[d], f)
    <3> out = NextOut(q, n) /\ out + 1 \in Nat
      BY <2>1, After
    <3>1. Numbered(wire'[d], s, Expected(s, e), out + 1, n + 1)
      <4>1. Number(f, n + 1) = out /\ Numbered(wire[d], s, Expected(s, e), out, n + 1)
        OBVIOUS
      <4>2. Numbered(Append(wire[d], f), s, Expected(s, e), out + 1, n + 1)
        BY <1>1, <4>1, WireCarries
      <4> QED
        BY <2>1, <4>2
    <3>2. obj'[s][d].pump = "running" => out + 1 = NextOut(Tail(q), n)
      <4>1. obj'[s][d].pump = "running" => Head(q).kind = "data"
        OBVIOUS
      <4> QED
        BY <1>2, <4>1
    <3> QED
      BY <3>1, <3>2, ExpectedCalm DEF Continues
  <2>2. CASE wire'[d] # Append(wire[d], f)
    BY <2>2, ExpectedCalm DEF Continues
  <2> QED
    BY <2>1, <2>2
<1>6. obj[s][e].inb = "half" => sent'[s][d] = sent[s][d] /\ obj'[s][d].csend # "no"
  BY DEF ReceivingOf
<1> QED
  BY <1>4, <1>5, <1>6, ReceivingCalm

\* A message joins the inbound queue, and leaves it.
LEMMA HandQueue ==
    ASSUME NEW q \in Seq(Nat), NEW g \in Seq(Nat), NEW n, n = Len(g) + Len(q) + 1,
           \A i \in DOMAIN q : q[i] = Len(g) + i
    PROVE  /\ \A i \in DOMAIN Append(q, n) : Append(q, n)[i] = Len(g) + i
           /\ Len(g) + Len(Append(q, n)) + 1 = Len(g) + Len(q) + 2
<1> /\ n \in Nat /\ DOMAIN Append(q, n) = 1 .. Len(q) + 1 /\ Append(q, n)[Len(q) + 1] = n
    /\ Len(Append(q, n)) = Len(q) + 1 /\ \A i \in 1 .. Len(q) : Append(q, n)[i] = q[i]
  BY SMTT(200)
<1>1. ASSUME NEW i \in 1 .. Len(q) + 1 PROVE Append(q, n)[i] = Len(g) + i
  <2>1. CASE i = Len(q) + 1
    <3>1. Append(q, n)[i] = n
      BY <2>1
    <3> QED
      BY <2>1, <3>1, SMTT(200)
  <2>2. CASE i \in 1 .. Len(q)
    BY <2>2, SMTT(200)
  <2> QED
    BY <2>1, <2>2, SMTT(200)
<1>2. Len(g) + (Len(q) + 1) + 1 = Len(g) + Len(q) + 2
  BY SMTT(200)
<1> QED
  BY <1>1, <1>2

\* The receiver takes the first message of its queue.
LEMMA RecvQueue ==
    ASSUME NEW q \in Seq(Nat), NEW g \in Seq(Nat), q # <<>>,
           \A i \in DOMAIN q : q[i] = Len(g) + i, \A i \in DOMAIN g : g[i] = i
    PROVE  LET h == Append(g, Head(q)) IN
           /\ \A i \in DOMAIN h : h[i] = i
           /\ \A i \in DOMAIN Tail(q) : Tail(q)[i] = Len(h) + i
           /\ Len(h) + Len(Tail(q)) = Len(g) + Len(q)
<1>1. Head(q) = Len(g) + 1 /\ Head(q) \in Nat
  BY SMTT(200)
<1>2. Len(Append(g, Head(q))) = Len(g) + 1 /\ Len(Tail(q)) = Len(q) - 1
  BY <1>1, SMTT(200)
<1>3. \A i \in DOMAIN Append(g, Head(q)) : Append(g, Head(q))[i] = i
  BY <1>1, SMTT(200)
<1>4. \A i \in DOMAIN Tail(q) : Tail(q)[i] = Len(g) + 1 + i
  BY SMTT(200)
<1> QED
  BY <1>2, <1>3, <1>4, SMTT(200)

\* The first frame on a wire, if it is for a stream that takes messages.
LEMMA FirstFrame ==
    ASSUME Typed, NEW s \in Streams, NEW e \in Endpoints, NEW d \in Endpoints, d = Other(e),
           ReceivingOf(s, e), Takes(s, e), ~Delivers(s, e), wire[d] # <<>>, Carries(Head(wire[d]), s)
    PROVE  /\ Head(wire[d]).type = "Data" => Head(wire[d]).n = Had(s, e) + 1
           /\ Head(wire[d]).type = "CloseSend" => Had(s, e) = sent[s][d]
           /\ \E out \in Nat :
                 /\ Numbered(Tail(wire[d]), s, Had(s, e) + 2, out, sent[s][d] + 1)
                 /\ Live(d) /\ obj[s][d].pump = "running" => out = NextOut(obj[s][d].outbound, sent[s][d])
<1>1. /\ wire[d] \in Seq(Frames) /\ Had(s, e) \in Nat /\ sent[s][d] \in Nat /\ sent[s][d] + 1 \in Nat
      /\ Expected(s, e) = Had(s, e) + 1 /\ Expected(s, e) \in Nat
  BY DirectionTypes
<1>2. PICK out \in Nat :
          /\ Numbered(wire[d], s, Expected(s, e), out, sent[s][d] + 1)
          /\ Live(d) /\ obj[s][d].pump = "running" => out = NextOut(obj[s][d].outbound, sent[s][d])
  BY DEF ReceivingOf, Continues
<1>3. /\ Number(Head(wire[d]), sent[s][d] + 1) = Expected(s, e)
      /\ Numbered(Tail(wire[d]), s, Expected(s, e) + 1, out, sent[s][d] + 1)
  BY <1>1, <1>2, WireDelivers, SMTT(200)
<1>4. Numbered(Tail(wire[d]), s, Had(s, e) + 2, out, sent[s][d] + 1)
  BY <1>1, <1>3, After
<1>5. /\ Head(wire[d]).type = "Data" => Head(wire[d]).n = Had(s, e) + 1
      /\ Head(wire[d]).type = "CloseSend" => sent[s][d] + 1 = Had(s, e) + 1
  BY <1>1, <1>3 DEF Number
<1> QED
  BY <1>1, <1>2, <1>4, <1>5, After

\* A message in hand.
LEMMA InHand ==
    ASSUME NEW s \in Streams, NEW e \in Endpoints, NEW n, delivering'[e] = <<s, n>>
    PROVE  Delivers(s, e)' /\ delivering'[e][2] = n
  BY SMTT(200) DEF Delivers

\* What was received stays so.
LEMMA StillReceived ==
    ASSUME NEW s \in Streams, NEW e \in Endpoints, ReceivingOf(s, e),
           received'[s][e] = received[s][e], obj'[s][e].inbound = obj[s][e].inbound
    PROVE  /\ \A i \in DOMAIN received'[s][e] : received'[s][e][i] = i
           /\ \A i \in DOMAIN obj'[s][e].inbound : obj'[s][e].inbound[i] = Len(received'[s][e]) + i
  BY DEF ReceivingOf

\* The read loop finds the stream of a message.
LEMMA TakeMove ==
    ASSUME Typed, Opening, [Next]_vars, NEW s \in Streams, NEW e \in Endpoints, NEW d \in Endpoints, d = Other(e),
           SendingOf(s, d), ReceivingOf(s, e), SenderCalm(s, d), s \in streams[e], ~Delivers(s, e),
           wire[d] # <<>>, Head(wire[d]).type = "Data", Head(wire[d]).s = s, wire'[d] = Tail(wire[d]),
           delivering'[e] = <<s, Head(wire[d]).n>>, obj'[s][e] = obj[s][e],
           received'[s][e] = received[s][e], rend'[s][e] = rend[s][e]
    PROVE  SendingOf(s, d)' /\ ReceivingOf(s, e)'
<1> DEFINE f == Head(wire[d])
<1> /\ wire[d] \in Seq(Frames) /\ Had(s, e) \in Nat /\ sent[s][d] \in Nat /\ sent[s][d] + 1 \in Nat
    /\ Expected(s, e) = Had(s, e) + 1 /\ Expected(s, e) \in Nat
  BY DirectionTypes
<1>1. SendingOf(s, d)' /\ NextOut(obj'[s][d].outbound, sent'[s][d]) = NextOut(obj[s][d].outbound, sent[s][d])
  <2>1. Keeps(d, NotCarries(s))
    BY DEF Keeps
  <2> QED
    BY <2>1, SendingKept
<1> Carries(f, s) /\ \A end : Number(f, end) = f.n
  BY DEF Carries, Number
<1>2. Opened(s, d) /\ Opened(s, d)'
  <2>1. wire[d] \notin Seq(NotCarries(s))
    <3>1. wire[d] \in Seq(NotCarries(s)) => f \in NotCarries(s)
      BY FirstIn
    <3> QED
      BY <3>1 DEF NotCarries
  <2> QED
    BY <2>1, OpenedForGood DEF SendingOf
<1> Delivers(s, e)' /\ delivering'[e][2] = f.n /\ Had(s, e)' = Had(s, e) /\ Expected(s, e)' = Had(s, e) + 2
  <2>1. Delivers(s, e)' /\ delivering'[e][2] = f.n
    BY InHand
  <2>2. Had(s, e)' = Had(s, e)
    BY DEF Had
  <2>3. Expected(s, e)' = Had(s, e) + 2
    BY <2>1, <2>2 DEF Expected
  <2> QED
    BY <2>1, <2>2, <2>3
<1>3. ASSUME Takes(s, e) PROVE f.n = Had(s, e) + 1 /\ Continues(s, e)'
  <2>1. f.n = Had(s, e) + 1 /\ \E out \in Nat :
            /\ Numbered(Tail(wire[d]), s, Had(s, e) + 2, out, sent[s][d] + 1)
            /\ Live(d) /\ obj[s][d].pump = "running" => out = NextOut(obj[s][d].outbound, sent[s][d])
    BY <1>3, FirstFrame
  <2>2. PICK out \in Nat :
            /\ Numbered(Tail(wire[d]), s, Had(s, e) + 2, out, sent[s][d] + 1)
            /\ Live(d) /\ obj[s][d].pump = "running" => out = NextOut(obj[s][d].outbound, sent[s][d])
    BY <2>1
  <2>3. Live(d)' /\ obj'[s][d].pump = "running" => out = NextOut(obj'[s][d].outbound, sent'[s][d])
    BY <1>1, <2>2, LiveForGood DEF SenderCalm
  <2>4. sent'[s][d] = sent[s][d]
    BY DEF SenderCalm
  <2> QED
    BY <2>1, <2>2, <2>3, <2>4 DEF Continues
<1>4. obj'[s][e].inb = "open" => Takes(s, e)
  BY DEF Takes
<1>5. /\ Takes(s, e)' => Continues(s, e)'
      /\ Delivers(s, e)' /\ obj'[s][e].inb = "open" => delivering'[e][2] = Had(s, e)' + 1
  BY <1>3, <1>4 DEF Takes
<1>6. obj'[s][e].inb = "half" => Had(s, e)' = sent'[s][d] /\ obj'[s][d].csend # "no"
  BY DEF ReceivingOf, SenderCalm
<1>7. rend'[s][e] = "eof" => obj'[s][e].inb = "half" /\ obj'[s][e].inbound = <<>>
  BY DEF ReceivingOf
<1>8. /\ \A i \in DOMAIN received'[s][e] : received'[s][e][i] = i
      /\ \A i \in DOMAIN obj'[s][e].inbound : obj'[s][e].inbound[i] = Len(received'[s][e]) + i
  BY StillReceived
<1> QED
  BY <1>1, <1>2, <1>5, <1>6, <1>7, <1>8 DEF ReceivingOf

\* deliver hands a message over.
LEMMA HandMove ==
    ASSUME Typed, Opening, [Next]_vars, NEW s \in Streams, NEW e \in Endpoints, NEW d \in Endpoints, d = Other(e),
           SendingOf(s, d), ReceivingOf(s, e), SendCalm(s, d), Delivers(s, e), obj[s][e].inb = "open",
           ~Delivers(s, e)', obj'[s][e].inbound = Append(obj[s][e].inbound, delivering[e][2]),
           obj'[s][e].inb \in {"open", "final"}, s \in streams'[e] => s \in streams[e],
           received'[s][e] = received[s][e], rend'[s][e] = rend[s][e], wire'[d] = wire[d]
    PROVE  SendingOf(s, d)' /\ ReceivingOf(s, e)'
<1> DEFINE q == obj[s][e].inbound
           n == delivering[e][2]
           g == received[s][e]
<1>1. /\ q \in Seq(Nat) /\ g \in Seq(Nat) /\ Len(q) \in Nat /\ Len(g) \in Nat
      /\ Expected(s, e) = Len(g) + Len(q) + 2 /\ n = Len(g) + Len(q) + 1
      /\ \A i \in DOMAIN q : q[i] = Len(g) + i
  <2>1. Expected(s, e) = Len(g) + Len(q) + 2 /\ n = Len(g) + Len(q) + 1
    BY DEF Had, Expected, ReceivingOf
  <2>2. q \in Seq(Nat) /\ g \in Seq(Nat)
    BY DirectionTypes
  <2> QED
    BY <2>1, <2>2, NoElements DEF ReceivingOf
<1>2. SendingOf(s, d)' /\ NextOut(obj'[s][d].outbound, sent'[s][d]) = NextOut(obj[s][d].outbound, sent[s][d])
  <2>1. Keeps(d, NotCarries(s))
    BY DEF Keeps
  <2> QED
    BY <2>1, SendingKept DEF SendCalm
<1>3. Opened(s, d) /\ Opened(s, d)'
  BY OpenedForGood DEF ReceivingOf
<1>4. /\ \A i \in DOMAIN Append(q, n) : Append(q, n)[i] = Len(g) + i
      /\ Len(g) + Len(Append(q, n)) + 1 = Len(g) + Len(q) + 2
  BY <1>1, HandQueue
<1>5. Expected(s, e)' = Expected(s, e)
  <2>1. Expected(s, e)' = Len(g) + Len(Append(q, n)) + 1
    BY DEF Had, Expected
  <2> QED
    BY <1>1, <1>4, <2>1
<1>6. Takes(s, e)' => Continues(s, e)'
  <2> SUFFICES ASSUME Takes(s, e)' PROVE Continues(s, e)'
    OBVIOUS
  <2>1. Takes(s, e)
    BY DEF Takes
  <2>2. PICK out \in Nat :
            /\ Numbered(wire[d], s, Expected(s, e), out, sent[s][d] + 1)
            /\ Live(d) /\ obj[s][d].pump = "running" => out = NextOut(obj[s][d].outbound, sent[s][d])
    BY <2>1 DEF ReceivingOf, Continues
  <2>3. Live(d)' /\ obj'[s][d].pump = "running" => out = NextOut(obj'[s][d].outbound, sent'[s][d])
    BY <1>2, <2>2, LiveForGood DEF SendCalm, SenderCalm
  <2> QED
    BY <1>5, <2>2, <2>3 DEF Continues, SendCalm, SenderCalm
<1>7. rend[s][e] # "eof"
  BY DEF ReceivingOf
<1> QED
  BY <1>2, <1>3, <1>4, <1>6, <1>7 DEF ReceivingOf

\* The read loop closes the queue of a stream after CloseSend.
LEMMA CloseMove ==
    ASSUME Typed, Opening, [Next]_vars, NEW s \in Streams, NEW e \in Endpoints, NEW d \in Endpoints, d = Other(e),
           SendingOf(s, d), ReceivingOf(s, e), SenderCalm(s, d), Takes(s, e), ~Delivers(s, e), ~Delivers(s, e)',
           wire[d] # <<>>, Head(wire[d]).type = "CloseSend", Head(wire[d]).s = s, wire'[d] = Tail(wire[d]),
           obj'[s][e].inb = "half", obj'[s][e].inbound = obj[s][e].inbound,
           received'[s][e] = received[s][e], rend'[s][e] = rend[s][e]
    PROVE  SendingOf(s, d)' /\ ReceivingOf(s, e)'
<1> DEFINE f == Head(wire[d])
<1>1. SendingOf(s, d)'
  <2>1. Keeps(d, NotCarries(s))
    BY DEF Keeps
  <2> QED
    BY <2>1, SendingKept
<1> Carries(f, s) /\ \A end : Number(f, end) = end
  BY DEF Carries, Number
<1>2. obj[s][d].csend # "no" /\ Opened(s, d)
  <2>1. wire[d] \notin Seq(NotCloses(s)) /\ wire[d] \notin Seq(NotCarries(s))
    <3>1. /\ wire[d] \in Seq(NotCarries(s)) => f \in NotCarries(s)
          /\ wire[d] \in Seq(NotCloses(s)) => f \in NotCloses(s)
      BY FirstIn
    <3> QED
      BY <3>1 DEF NotCarries, NotCloses
  <2> QED
    BY <2>1 DEF SendingOf
<1>3. Had(s, e)' = Had(s, e) /\ Opened(s, d)'
  BY <1>2, OpenedForGood DEF Had
<1>4. Had(s, e) = sent[s][d]
  BY FirstFrame
<1>5. rend[s][e] # "eof"
  BY DEF ReceivingOf, Takes
<1>6. obj'[s][e].inb = "half" => Had(s, e)' = sent'[s][d] /\ obj'[s][d].csend # "no"
  BY <1>2, <1>3, <1>4 DEF SenderCalm
<1>7. /\ \A i \in DOMAIN received'[s][e] : received'[s][e][i] = i
      /\ \A i \in DOMAIN obj'[s][e].inbound : obj'[s][e].inbound[i] = Len(received'[s][e]) + i
  BY StillReceived
<1>8. ~Takes(s, e)'
  BY DEF Takes
<1> QED
  BY <1>1, <1>3, <1>5, <1>6, <1>7, <1>8 DEF ReceivingOf

\* Recv returns a message.
LEMMA RecvMove ==
    ASSUME Typed, Opening, [Next]_vars, NEW s \in Streams, NEW e \in Endpoints, NEW d \in Endpoints, d = Other(e),
           SendingOf(s, d), ReceivingOf(s, e), SendCalm(s, d), wire'[d] = wire[d],
           obj[s][e].inbound # <<>>, obj'[s][e].inbound = Tail(obj[s][e].inbound), obj'[s][e].inb = obj[s][e].inb,
           received'[s][e] = Append(received[s][e], Head(obj[s][e].inbound)), rend'[s][e] = rend[s][e],
           delivering'[e] = delivering[e], streams'[e] = streams[e]
    PROVE  SendingOf(s, d)' /\ ReceivingOf(s, e)'
<1> DEFINE q == obj[s][e].inbound
           g == received[s][e]
           h == Append(g, Head(q))
<1>1. /\ q \in Seq(Nat) /\ g \in Seq(Nat) /\ Len(q) \in Nat /\ Len(g) \in Nat
      /\ \A i \in DOMAIN q : q[i] = Len(g) + i
      /\ \A i \in DOMAIN g : g[i] = i
  <2>1. q \in Seq(Nat) /\ g \in Seq(Nat)
    BY DirectionTypes
  <2> QED
    BY <2>1, NoElements DEF ReceivingOf
<1>2. SendingOf(s, d)' /\ NextOut(obj'[s][d].outbound, sent'[s][d]) = NextOut(obj[s][d].outbound, sent[s][d])
  <2>1. Keeps(d, NotCarries(s))
    BY DEF Keeps
  <2> QED
    BY <2>1, SendingKept DEF SendCalm
<1>3. Opened(s, d) /\ Opened(s, d)'
  BY OpenedForGood DEF ReceivingOf
<1>4. /\ \A i \in DOMAIN h : h[i] = i
      /\ \A i \in DOMAIN Tail(q) : Tail(q)[i] = Len(h) + i
      /\ Len(h) + Len(Tail(q)) = Len(g) + Len(q)
  BY <1>1, RecvQueue
<1> Had(s, e)' = Had(s, e) /\ Delivers(s, e)' = Delivers(s, e)
  BY <1>4 DEF Had, Delivers
<1>5. Expected(s, e)' = Expected(s, e)
  BY DEF Expected
<1>6. Takes(s, e)' => Continues(s, e)'
  <2> SUFFICES ASSUME Takes(s, e)' PROVE Continues(s, e)'
    OBVIOUS
  <2>1. Takes(s, e)
    BY DEF Takes
  <2>2. PICK out \in Nat :
            /\ Numbered(wire[d], s, Expected(s, e), out, sent[s][d] + 1)
            /\ Live(d) /\ obj[s][d].pump = "running" => out = NextOut(obj[s][d].outbound, sent[s][d])
    BY <2>1 DEF ReceivingOf, Continues
  <2>3. Live(d)' /\ obj'[s][d].pump = "running" => out = NextOut(obj'[s][d].outbound, sent'[s][d])
    BY <1>2, <2>2, LiveForGood DEF SendCalm, SenderCalm
  <2> QED
    BY <1>5, <2>2, <2>3 DEF Continues, SendCalm, SenderCalm
<1>7. rend[s][e] # "eof"
  BY DEF ReceivingOf
<1>8. obj'[s][e].inb = "half" => Had(s, e)' = sent'[s][d] /\ obj'[s][d].csend # "no"
  BY DEF ReceivingOf, SendCalm, SenderCalm
<1>9. Delivers(s, e)' /\ obj'[s][e].inb = "open" => delivering'[e][2] = Had(s, e)' + 1
  BY DEF ReceivingOf
<1> QED
  BY <1>2, <1>3, <1>4, <1>6, <1>7, <1>8, <1>9 DEF ReceivingOf

\* Nothing was sent in this direction so far.
LEMMA FreshMove ==
    ASSUME Typed, Typed', Opening, [Next]_vars, NEW s \in Streams, NEW e \in Endpoints, NEW d \in Endpoints, d = Other(e),
           SendingOf(s, d), ReceivingOf(s, e), SenderCalm(s, d) \/ obj'[s][d].outbound = obj[s][d].outbound,
           obj'[s][d].csend = obj[s][d].csend, sent'[s][d] = sent[s][d], ~Opened(s, d), Keeps(d, NotCarries(s)),
           received'[s][e] = received[s][e], obj'[s][e].inbound = obj[s][e].inbound,
           obj'[s][e].inb = "half" => obj[s][e].inb = "half", rend'[s][e] = rend[s][e], ~Delivers(s, e)'
    PROVE  SendingOf(s, d)' /\ ReceivingOf(s, e)'
<1> /\ sent'[s][d] = 0 /\ obj'[s][d].outbound = <<>> /\ obj'[s][d].csend = "no"
    /\ wire'[d] \in Seq(NotCarries(s)) /\ received'[s][e] = <<>> /\ obj'[s][e].inbound = <<>>
    /\ wire'[d] \in Seq(NotCloses(s)) /\ obj[s][e].inb # "half" /\ rend'[s][e] # "eof"
  BY WireKinds DEF SendingOf, ReceivingOf, SenderCalm
<1>1. SendingOf(s, d)'
  <2>1. Queued(<<>>, 0)
    BY EmptyQueue
  <2>2. <<>> \in Seq(DataItems) /\ <<>> \in Seq(OpenItems)
    BY NoElements
  <2> QED
    BY <2>1, <2>2 DEF SendingOf, NotCarries, NotCloses
<1>2. Had(s, e)' = 0 /\ Expected(s, e)' = 1
  <2>1. Had(s, e)' = Len(<<>>) + Len(<<>>)
    BY DEF Had
  <2>2. Had(s, e)' = 0
    BY <2>1, EmptyQueue
  <2>3. Expected(s, e)' = 0 + 1
    BY <2>2 DEF Expected
  <2> QED
    BY <2>2, <2>3, After
<1>3. Continues(s, e)'
  <2>1. Numbered(wire'[d], s, 1, 1, 0 + 1) /\ 1 \in Nat
    BY WireEmpty
  <2>2. NextOut(<<>>, 0) = 1
    BY EmptyQueue
  <2> QED
    BY <1>2, <2>1, <2>2 DEF Continues
<1> QED
  BY <1>1, <1>3 DEF ReceivingOf
=============================================================================
