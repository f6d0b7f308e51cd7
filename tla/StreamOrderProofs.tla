------------------------- MODULE StreamOrderProofs -------------------------
(***************************************************************************)
(* Machine-checked proofs about Streams, continued: what travels between   *)
(* the two ends of a stream arrives in order, each message once and all of *)
(* them before the end of the stream.                                      *)
(***************************************************************************)
EXTENDS StreamsProofs

USE ZenonT(200)

-----------------------------------------------------------------------------
(* Steps that leave every direction of every stream in peace.                *)

\* Streams end or are forgotten at most.
Settling ==
    /\ \A r \in Streams, d \in Endpoints :
          /\ Settles(obj[r][d], obj'[r][d])
          /\ r \in streams'[d] => r \in streams[d]
          /\ \/ rend'[r][d] = rend[r][d] \/ rend'[r][d] # "eof"
             \/ obj[r][d].inb = "half" /\ obj[r][d].inbound = <<>>
    /\ UNCHANGED <<sent, received>>
AtPeace == Settling /\ UNCHANGED delivering /\ \A r \in Streams, d \in Endpoints : WireCalm(r, d)

\* A step at peace keeps what holds of every direction.
LEMMA PeaceKeeps ==
    ASSUME Typed, Opening, [Next]_vars, NEW s \in Streams, NEW e \in Endpoints, NEW d \in Endpoints, d = Other(e),
           SendingOf(s, d), ReceivingOf(s, e), AtPeace
    PROVE  SendingOf(s, d)' /\ ReceivingOf(s, e)'
<1>1. SendCalm(s, d)
  BY DEF AtPeace, Settling, Settles, SendCalm, SenderCalm
<1>2. RecvCalm(s, e)
  BY DEF AtPeace, Settling, Settles, RecvCalm
<1>3. Delivers(s, e)' = Delivers(s, e)
  BY DEF AtPeace, Delivers
<1> QED
  BY <1>1, <1>2, <1>3, ReceivingKept

\* The frames that carry nothing.
LEMMA PlainFrames ==
    ASSUME NEW r \in Streams, NEW s \in Streams
    PROVE  /\ CloseFrame \in NotCarries(r) /\ Ack(s) \in NotCarries(r) /\ OpenStream(s) \in NotCarries(r)
           /\ \A status \in Statuses : StreamEnd(s, status) \in NotCarries(r)
           /\ r # s => CloseSendFrame(s) \in NotCarries(r) /\ \A n \in Nat : Data(s, n) \in NotCarries(r)
<1>1. /\ ~Carries(CloseFrame, r) /\ ~Carries(Ack(s), r) /\ ~Carries(OpenStream(s), r)
      /\ \A status : ~Carries(StreamEnd(s, status), r)
  BY SMTT(200) DEF Carries, CloseFrame, Ack, OpenStream, StreamEnd
<1>2. r # s => ~Carries(CloseSendFrame(s), r) /\ \A n : ~Carries(Data(s, n), r)
  BY SMTT(200) DEF Carries, CloseSendFrame, Data
<1> QED
  BY <1>1, <1>2, FrameTypes DEF NotCarries

\* Such a frame is written, or nothing.
LEMMA WriteCalm ==
    ASSUME wire \in [Endpoints -> Seq(Frames)], NEW t \in Threads, NEW f, NEW r \in Streams, f \in NotCarries(r),
           UNCHANGED wire \/ WriteOK(wire, t, f) \/ WriteFails(wire, t)
    PROVE  \A d \in Endpoints : WireCalm(r, d)
  BY SendEffect DEF WireCalm

\* Such a frame is read.
LEMMA ReadCalm ==
    ASSUME Typed, NEW e \in Endpoints, NEW type \in {"OpenStream", "Ack", "StreamEnd"}, ArrivesAt(e, type),
           NEW r \in Streams
    PROVE  Head(wire[Other(e)]) \in NotCarries(r) /\ wire[Other(e)] # <<>>
<1>1. /\ wire[Other(e)] \in Seq(Frames) /\ wire[Other(e)] # <<>> /\ Head(wire[Other(e)]).type = type
  BY Places DEF Typed, ConnType, ArrivesAt, Arriving
<1>2. Head(wire[Other(e)]) \in Frames
  BY <1>1, SMTT(200)
<1> QED
  BY <1>1, <1>2 DEF NotCarries, Carries

\* There are two ends.
LEMMA TwoEnds == \A e, d \in Endpoints : d = e \/ d = Other(e)
  BY DEF Endpoints, Other

\* The reader takes the first frame of the other end.
LEMMA Consuming ==
    ASSUME Typed, NEW e \in Endpoints
    PROVE  /\ Consumed(e)[Other(e)] = Tail(wire[Other(e)])
           /\ \A d \in Endpoints : d # Other(e) => Consumed(e)[d] = wire[d]
  BY Places DEF Typed, ConnType, Consumed

\* Nothing happens to an object.
LEMMA SettlesSame ==
    ASSUME NEW o
    PROVE  Settles(o, o)
  BY DEF Settles

\* One stream is finished at one end.
LEMMA FinishedSettles ==
    ASSUME ObjType, NEW s \in Streams, NEW e \in Endpoints, NEW err \in Errors,
           obj' = [obj EXCEPT ![s][e] = finishStream(s, e, err)]
    PROVE  \A r \in Streams, d \in Endpoints : Settles(obj[r][d], obj'[r][d])
<1>1. finishStream(s, e, err) \in BoundedObjects /\ Settles(obj[s][e], finishStream(s, e, err))
  BY FinishSettles
<1>2. /\ obj'[s][e] = finishStream(s, e, err)
      /\ \A r \in Streams, d \in Endpoints : r # s \/ d # e => obj'[r][d] = obj[r][d]
  BY DEF ObjType
<1> QED
  BY <1>1, <1>2, SettlesSame

\* Steps of the client, but for the one that opens a stream.
LEMMA ClientPeace ==
    ASSUME Typed, NEW s \in Streams,
           OpenCheck(s) \/ CancelCaller(s) \/ (OpenStep(s) /\ ~OpenWrite(s)) \/ FollowStep(s)
    PROVE  AtPeace
<1> /\ ObjType /\ "client" \in Endpoints /\ wire \in [Endpoints -> Seq(Frames)] /\ streams \in [Endpoints -> SUBSET Streams]
    /\ Opener(s) \in Threads /\ Follower(s) \in Threads /\ "canceled" \in Statuses /\ "canceled" \in Errors
  BY Places, ErrorTypes DEF Typed, ConnType, SessType
<1>1. UNCHANGED <<sent, received, rend, delivering>>
  BY DEF OpenCheck, CancelCaller, OpenStep, OpenSettled, OpenCancelled, OpenNotify, OpenReturn,
               FollowStep, FollowFind, Follow, FollowNotify, appVars, engineVars, readVars
<1>2. UNCHANGED streams \/ streams' = [streams EXCEPT !["client"] = @ \ {s}]
  BY DEF OpenCheck, CancelCaller, OpenStep, OpenSettled, OpenCancelled, OpenNotify, OpenReturn,
               FollowStep, FollowFind, Follow, FollowNotify, engineVars, sessionVars
<1>3. \A r \in Streams, d \in Endpoints : r \in streams'[d] => r \in streams[d]
  BY <1>2, SMTT(200)
<1>4. UNCHANGED obj \/ \E err \in Errors : obj' = [obj EXCEPT ![s]["client"] = finishStream(s, "client", err)]
  <2>1. OpenSettled(s) => Head(accepted[s]) \in Errors \cup {"ok"}
    BY SMTT(200) DEF Typed, OpenType, OpenSettled
  <2> QED
    BY <2>1 DEF OpenCheck, CancelCaller, OpenStep, OpenSettled, OpenCancelled, OpenNotify, OpenReturn,
                   FollowStep, FollowFind, Follow, FollowNotify
<1>5. \A r \in Streams, d \in Endpoints : Settles(obj[r][d], obj'[r][d])
  BY <1>4, FinishedSettles, SettlesSame
<1>6. \/ UNCHANGED wire
      \/ \E t \in Threads : WriteOK(wire, t, StreamEnd(s, "canceled")) \/ WriteFails(wire, t)
  BY DEF OpenCheck, CancelCaller, OpenStep, OpenSettled, OpenCancelled, OpenNotify, OpenReturn,
               FollowStep, FollowFind, Follow, FollowNotify, engineVars, connVars, sendFrame
<1>7. \A r \in Streams, d \in Endpoints : WireCalm(r, d)
  <2>1. \A r \in Streams : StreamEnd(s, "canceled") \in NotCarries(r)
    BY PlainFrames
  <2> QED
    BY <1>6, <2>1, WriteCalm
<1> QED
  BY <1>1, <1>3, <1>5, <1>7 DEF AtPeace, Settling

\* Steps of a serving goroutine that queue nothing.
LEMMA ServerPeace ==
    ASSUME Typed, NEW s \in Streams,
           \/ HandlerReturn(s) \/ HandlerClosed(s) \/ HandlerFlushed(s) \/ HandlerFlushCancelled(s)
           \/ HandlerEnd(s) \/ HandlerRelease(s)
    PROVE  AtPeace
<1> /\ ObjType /\ "server" \in Endpoints /\ wire \in [Endpoints -> Seq(Frames)] /\ streams \in [Endpoints -> SUBSET Streams]
    /\ Handler(s) \in Threads /\ StatusOf(herr[s]) \in Statuses
  BY Places, ErrorTypes DEF Typed, ConnType, SessType, ServeType
<1>1. UNCHANGED <<sent, received, rend, delivering>>
  BY DEF HandlerReturn, HandlerClosed, HandlerFlushed, HandlerFlushCancelled, HandlerFinish, HandlerEnd,
               HandlerRelease, appVars, engineVars, readVars
<1>2. UNCHANGED streams \/ streams' = [streams EXCEPT !["server"] = @ \ {s}]
  BY DEF HandlerReturn, HandlerClosed, HandlerFlushed, HandlerFlushCancelled, HandlerFinish, HandlerEnd,
               HandlerRelease, engineVars, sessionVars
<1>3. \A r \in Streams, d \in Endpoints : r \in streams'[d] => r \in streams[d]
  BY <1>2
<1>4. UNCHANGED obj \/ \E err \in Errors : obj' = [obj EXCEPT ![s]["server"] = finishStream(s, "server", err)]
  BY ErrorTypes DEF HandlerReturn, HandlerClosed, HandlerFlushed, HandlerFlushCancelled, HandlerFinish,
               HandlerEnd, HandlerRelease
<1>5. \A r \in Streams, d \in Endpoints : Settles(obj[r][d], obj'[r][d])
  BY <1>4, FinishedSettles, SettlesSame
<1>6. \/ UNCHANGED wire
      \/ WriteOK(wire, Handler(s), StreamEnd(s, StatusOf(herr[s]))) \/ WriteFails(wire, Handler(s))
  BY DEF HandlerReturn, HandlerClosed, HandlerFlushed, HandlerFlushCancelled, HandlerFinish, HandlerEnd,
               HandlerRelease, engineVars, connVars, sendFrame
<1>7. \A r \in Streams, d \in Endpoints : WireCalm(r, d)
  <2>1. \A r \in Streams : StreamEnd(s, StatusOf(herr[s])) \in NotCarries(r)
    BY PlainFrames
  <2> QED
    BY <1>6, <2>1, WriteCalm
<1> QED
  BY <1>1, <1>3, <1>5, <1>7 DEF AtPeace, Settling

\* Recv at the end of a stream.
LEMMA RecvPeace ==
    ASSUME Typed, NEW s \in Streams, NEW e \in Endpoints, RecvEnd(s, e) \/ RecvCancelled(s, e)
    PROVE  AtPeace
<1> /\ ObjType /\ rend \in [Streams -> [Endpoints -> Errors \cup {"none", "eof"}]]
    /\ "eof" \notin Errors /\ obj[s][e].fin \in Errors \cup {"none"}
  <2>1. "eof" \notin Errors
    BY SMTT(200) DEF Errors, Statuses
  <2>2. obj[s][e].fin \in Errors \cup {"none"}
    BY DEF Typed, ObjType, BoundedObjects, StreamObjects
  <2> QED
    BY <2>1, <2>2 DEF Typed, AppType
<1>1. UNCHANGED <<sent, received, delivering, streams, wire>>
  BY DEF RecvEnd, RecvCancelled, engineVars, readVars, sessionVars, connVars
<1> PICK err \in Errors : settleCancelled(s, e) = finishStream(s, e, err)
  BY ErrorTypes DEF settleCancelled, Typed, SessType
<1>2. \E v : rend' = [rend EXCEPT ![s][e] = v] /\ (v = "eof" => obj[s][e].inb = "half" /\ obj[s][e].inbound = <<>>)
  <2>1. CASE RecvEnd(s, e)
    BY <2>1 DEF RecvEnd
  <2>2. CASE RecvCancelled(s, e)
    <3>1. settleCancelled(s, e).fin # "eof"
      <4>1. finishStream(s, e, err).fin \in {obj[s][e].fin, err}
        BY FinishSettles, SMTT(200)
      <4> QED
        BY <4>1, SMTT(200)
    <3> QED
      BY <2>2, <3>1 DEF RecvCancelled
  <2> QED
    BY <2>1, <2>2
<1>3. \A r \in Streams, d \in Endpoints : \/ rend'[r][d] = rend[r][d] \/ rend'[r][d] # "eof"
                                          \/ obj[r][d].inb = "half" /\ obj[r][d].inbound = <<>>
  BY <1>2, SMTT(200)
<1>4. \A r \in Streams, d \in Endpoints : Settles(obj[r][d], obj'[r][d])
  <2>1. CASE RecvEnd(s, e)
    BY <2>1, SettlesSame DEF RecvEnd
  <2>2. CASE RecvCancelled(s, e)
    <3>1. obj' = [obj EXCEPT ![s][e] = finishStream(s, e, err)]
      BY <2>2, SMTT(200) DEF RecvCancelled
    <3> QED
      BY <3>1, FinishedSettles
  <2> QED
    BY <2>1, <2>2, SMTT(200)
<1>5. \A r \in Streams, d \in Endpoints : WireCalm(r, d)
  BY <1>1 DEF WireCalm
<1> QED
  BY <1>1, <1>3, <1>4, <1>5 DEF AtPeace, Settling

\* Close, end() and the loss of the link.
LEMMA EndPeace ==
    ASSUME Typed,
           (\E e \in Endpoints : Close(e)) \/ (\E t \in Threads : EndRelease(t)) \/ LoseLink \/ UNCHANGED vars
    PROVE  AtPeace
<1> ObjType /\ wire \in [Endpoints -> Seq(Frames)] /\ streams \in [Endpoints -> SUBSET Streams]
  BY DEF Typed, ConnType, SessType
<1>1. UNCHANGED <<sent, received, rend, delivering>>
  BY DEF Close, EndRelease, LoseLink, vars, appVars, engineVars, readVars
<1>2. \A r \in Streams, d \in Endpoints : r \in streams'[d] => r \in streams[d]
  <2>1. UNCHANGED streams \/ \E e \in Endpoints : streams' = [streams EXCEPT ![e] = {}]
    BY Places DEF Close, EndRelease, LoseLink, vars, engineVars, sessionVars
  <2> QED
    BY <2>1, SMTT(200)
<1>3. \A r \in Streams, d \in Endpoints : Settles(obj[r][d], obj'[r][d])
  <2>1. CASE UNCHANGED obj
    BY <2>1, SettlesSame
  <2>2. ASSUME NEW t \in Threads, EndRelease(t)
        PROVE  \A r \in Streams, d \in Endpoints : Settles(obj[r][d], obj'[r][d])
    <3>1. streamCause(ending[t]) \in Errors /\ Home(t) \in Endpoints
      BY <2>2, ErrorTypes, Places DEF EndRelease, Ready, Typed, EndType
    <3>2. PICK err \in Errors, e \in Endpoints : obj' = finishStreams(e, err)
      BY <2>2, <3>1 DEF EndRelease
    <3>3. \A r \in Streams, d \in Endpoints : obj'[r][d] = obj[r][d] \/ obj'[r][d] = finishStream(r, d, err)
      BY <3>2 DEF finishStreams, ObjType
    <3> QED
      BY <3>3, SettlesSame, FinishSettles
  <2> QED
    BY <2>1, <2>2 DEF Close, LoseLink, vars
<1>4. \A r \in Streams, d \in Endpoints : WireCalm(r, d)
  <2>1. UNCHANGED wire \/ \E e \in Endpoints : wire' = Transmit(wire, e, CloseFrame)
    BY DEF Close, EndRelease, LoseLink, vars, engineVars, connVars
  <2>2. \A d \in Endpoints : wire'[d] = wire[d] \/ wire'[d] = Append(wire[d], CloseFrame)
    BY <2>1, SMTT(200) DEF Transmit
  <2> QED
    BY <2>2, PlainFrames DEF WireCalm
<1> QED
  BY <1>1, <1>2, <1>3, <1>4 DEF AtPeace, Settling

\* A frame about the beginning or the end of a stream is read, unless a stream
\* begins.
LEMMA ReadPeace ==
    ASSUME Typed, NEW e \in Endpoints,
           \/ (e = "client" /\ ReadAck) \/ ReadStreamEnd(e)
           \/ (e = "server" /\ ReadOpenStream /\ UNCHANGED <<obj, streams>>)
    PROVE  AtPeace
<1> /\ ObjType /\ ConnType /\ wire \in [Endpoints -> Seq(Frames)] /\ streams \in [Endpoints -> SUBSET Streams]
    /\ Other(e) \in Endpoints /\ Other(e) # e
  BY Places DEF Typed, ConnType, SessType
<1> PICK type \in {"OpenStream", "Ack", "StreamEnd"} : ArrivesAt(e, type)
  BY DEF ReadAck, ReadStreamEnd, ReadOpenStream
<1> PICK f : f = Arriving(e)
  BY SMTT(200)
<1> f.s \in Streams /\ f.status \in Statuses
  BY ArrivalType
<1>1. UNCHANGED <<sent, received, rend, delivering>>
  BY DEF ReadAck, ReadStreamEnd, ReadOpenStream, appVars, readVars
<1>2. \A r \in Streams, d \in Endpoints : r \in streams'[d] => r \in streams[d]
  <2>1. UNCHANGED streams \/ streams' = [streams EXCEPT ![e] = @ \ {f.s}]
    BY DEF ReadAck, ReadStreamEnd
  <2> QED
    BY <2>1, SMTT(200)
<1>3. \A r \in Streams, d \in Endpoints : Settles(obj[r][d], obj'[r][d])
  <2>1. CASE UNCHANGED obj
    BY <2>1, SettlesSame
  <2>2. ASSUME NEW err \in Errors, obj' = [obj EXCEPT ![f.s][e] = finishStream(f.s, e, err)]
        PROVE  \A r \in Streams, d \in Endpoints : Settles(obj[r][d], obj'[r][d])
    BY <2>2, FinishedSettles
  <2>3. (IF f.status = "ok" THEN "closed" ELSE f.status) \in Errors
    BY ErrorTypes
  <2> QED
    BY <2>1, <2>2, <2>3 DEF ReadAck, ReadStreamEnd
<1>4. \A r \in Streams, d \in Endpoints : WireCalm(r, d)
  <2>1. /\ wire'[Other(e)] = Tail(wire[Other(e)])
        /\ \/ wire'[e] = wire[e]
           \/ \E g : wire'[e] = Append(wire[e], g) /\ \A r \in Streams : g \in NotCarries(r)
    <3>1. CASE wire' = Consumed(e)
      BY <3>1, Consuming
    <3>2. ASSUME NEW g, WriteOK(Consumed(e), Reader(e), g) \/ WriteFails(Consumed(e), Reader(e))
          PROVE  wire'[Other(e)] = Tail(wire[Other(e)]) /\ (wire'[e] = wire[e] \/ wire'[e] = Append(wire[e], g))
      <4>1. Consumed(e) \in [Endpoints -> Seq(Frames)] /\ Reader(e) \in Threads /\ Home(Reader(e)) = e
        BY ArrivalType, Places
      <4>2. PICK w \in [Endpoints -> Seq(Frames)] : w = Consumed(e)
        BY <4>1, SMTT(200)
      <4>3. /\ wire'[e] = w[e] \/ wire'[e] = Append(w[e], g)
            /\ \A d \in Endpoints : d # e => wire'[d] = w[d]
        BY <3>2, <4>1, <4>2, SMTT(200) DEF WriteOK, WriteFails, Transmit
      <4> QED
        BY <4>2, <4>3, Consuming
    <3>3. \A r \in Streams : /\ Ack(f.s) \in NotCarries(r)
                             /\ \A status \in {"overloaded", "refused"} : StreamEnd(f.s, status) \in NotCarries(r)
      BY PlainFrames, ErrorTypes
    <3>4. e = "server" /\ ReadOpenStream =>
             \/ \E status \in {"overloaded", "refused"} : sendFrame(Consumed(e), Reader(e), StreamEnd(f.s, status))
             \/ WriteOK(Consumed(e), Reader(e), Ack(f.s)) \/ WriteFails(Consumed(e), Reader(e))
      BY DEF ReadOpenStream, acknowledge
    <3> QED
      BY <3>1, <3>2, <3>3, <3>4 DEF ReadAck, ReadStreamEnd, sendFrame
  <2>2. \A r \in Streams : WireCalm(r, Other(e)) /\ WireCalm(r, e)
    BY <2>1, ReadCalm DEF WireCalm
  <2> QED
    BY <2>2, TwoEnds
<1> QED
  BY <1>1, <1>2, <1>3, <1>4 DEF AtPeace, Settling

-----------------------------------------------------------------------------
(* Every step keeps every direction.                                         *)

Flow(s, e) == SendingOf(s, Other(e)) /\ ReceivingOf(s, e)
Flowing == \A s \in Streams, e \in Endpoints : Flow(s, e)

\* The two ends of a direction.
LEMMA FlowAt ==
    ASSUME Flowing, NEW c \in Endpoints, NEW r \in Streams, NEW e \in Endpoints, NEW d \in Endpoints, d = Other(e)
    PROVE  SendingOf(r, d) /\ ReceivingOf(r, e) /\ Other(d) = e /\ (d = Other(c) <=> e = c)
  BY Places DEF Flowing, Flow

\* Nothing moves but the object of one end of one stream.
OnlyObject == UNCHANGED <<wire, delivering, streams, received, rend>>

\* The object of an end of a stream changes: the other objects stay as they are.
LEMMA OtherObjects ==
    ASSUME ObjType, NEW s \in Streams, NEW c \in Endpoints, NEW p, obj' = [obj EXCEPT ![s][c] = p]
    PROVE  /\ obj'[s][c] = p
           /\ \A r \in Streams, d \in Endpoints : r # s \/ d # c => obj'[r][d] = obj[r][d]
  BY DEF ObjType

\* Nothing happens at the sending end.
LEMMA SenderSame ==
    ASSUME NEW s \in Streams, NEW d \in Endpoints, obj'[s][d] = obj[s][d], sent'[s][d] = sent[s][d]
    PROVE  SenderCalm(s, d)
  BY DEF SenderCalm

\* The stream of a sending end is finished.
LEMMA SenderSettled ==
    ASSUME NEW s \in Streams, NEW d \in Endpoints, Settles(obj[s][d], obj'[s][d]), sent'[s][d] = sent[s][d]
    PROVE  SenderCalm(s, d)
  BY DEF SenderCalm, Settles

\* A mark is queued or taken, or a result of CloseSend is noted.
LEMMA MarkKeeps ==
    ASSUME Typed, Opening, [Next]_vars, Flowing, NEW s \in Streams, NEW c \in Endpoints, NEW p,
           obj' = [obj EXCEPT ![s][c] = p], p.inbound = obj[s][c].inbound, p.inb = obj[s][c].inb,
           OnlyObject, UNCHANGED sent, SenderCalm(s, c)
    PROVE  Flowing'
<1> SUFFICES ASSUME NEW r \in Streams, NEW e \in Endpoints PROVE Flow(r, e)'
  BY DEF Flowing
<1> ObjType /\ Other(e) \in Endpoints
  BY Places DEF Typed
<1>1. /\ obj'[s][c] = p
      /\ \A q \in Streams, d \in Endpoints : q # s \/ d # c => obj'[q][d] = obj[q][d]
  BY OtherObjects
<1>2. SenderCalm(r, Other(e))
  BY <1>1, SenderSame
<1>3. WireCalm(r, Other(e)) /\ Delivers(r, e)' = Delivers(r, e)
  BY DEF WireCalm, OnlyObject, Delivers
<1>4. RecvCalm(r, e)
  <2>1. obj'[r][e].inbound = obj[r][e].inbound /\ obj'[r][e].inb = obj[r][e].inb
    BY <1>1
  <2> QED
    BY <2>1 DEF RecvCalm, OnlyObject
<1>5. SendingOf(r, Other(e)) /\ ReceivingOf(r, e)
  BY DEF Flowing, Flow
<1> QED
  BY <1>2, <1>3, <1>4, <1>5, ReceivingKept DEF SendCalm, Flow

\* CloseSend, and the barrier of the handler that has returned.
LEMMA MarkSteps ==
    ASSUME Typed, Opening, [Next]_vars, Flowing, NEW s \in Streams, NEW c \in Endpoints,
           CloseSendBegin(s, c) \/ CloseSendStep(s, c) \/ (c = "server" /\ FlushEnqueue(s))
    PROVE  Flowing'
<1> DEFINE o == obj[s][c]
           close == [kind |-> "close", n |-> 0]
           barrier == [kind |-> "barrier", n |-> 0]
<1> ObjType /\ o \in StreamObjects
  BY DEF Typed, ObjType, BoundedObjects
<1> OnlyObject /\ UNCHANGED sent
  BY DEF OnlyObject, CloseSendBegin, CloseSendStep, CloseSendEnqueue, CloseSendWritten, CloseSendCancelled,
               FlushEnqueue, objOnly, engineVars, readVars, sessionVars, connVars, appVars
<1>1. o.csend # "no" => Opened(s, c)
  <2>1. c = Other(Other(c)) /\ Other(c) \in Endpoints
    BY Places
  <2>2. SendingOf(s, c)
    BY <2>1 DEF Flowing, Flow
  <2> QED
    BY <2>2 DEF SendingOf
<1>2. close \in Items \ DataItems /\ barrier \in Items \ DataItems /\ barrier \in OpenItems
  BY SMTT(200) DEF Items, DataItems, OpenItems
<1>3. CASE CloseSendBegin(s, c)
  <2> USE <1>3
  <2> DEFINE p == [o EXCEPT !.csend = "enqueue"]
  <2>1. obj' = [obj EXCEPT ![s][c] = p]
    BY DEF CloseSendBegin
  <2>2. p.inbound = o.inbound /\ p.inb = o.inb /\ p.outbound = o.outbound /\ p.pump = o.pump /\ p.csend # "no"
    BY DEF StreamObjects
  <2>3. Opened(s, c)
    BY DEF CloseSendBegin, Holds, Opened
  <2> HIDE DEF p
  <2>4. obj'[s][c] = p
    BY <2>1 DEF ObjType
  <2>5. SenderCalm(s, c)
    BY <2>2, <2>3, <2>4 DEF SenderCalm, CloseSendBegin
  <2> QED
    BY <2>1, <2>2, <2>5, MarkKeeps
<1>4. CASE CloseSendEnqueue(s, c)
  <2> DEFINE p == [enqueued(o, "close") EXCEPT !.csend = "await"]
  <2>1. obj' = [obj EXCEPT ![s][c] = p]
    BY <1>4 DEF CloseSendEnqueue
  <2>2. /\ p.inbound = o.inbound /\ p.inb = o.inb /\ p.outbound = Append(o.outbound, close) /\ p.pump = o.pump
        /\ p.csend # "no"
    BY DEF StreamObjects, enqueued
  <2>3. Opened(s, c) /\ o.csend # "no"
    BY <1>1, <1>4 DEF CloseSendEnqueue
  <2> HIDE DEF p
  <2>4. obj'[s][c] = p
    BY <2>1 DEF ObjType
  <2>5. SenderCalm(s, c)
    BY <1>2, <2>2, <2>3, <2>4 DEF SenderCalm
  <2> QED
    BY <2>1, <2>2, <2>5, MarkKeeps
<1>5. CASE CloseSendWritten(s, c) \/ CloseSendCancelled(s, c)
  <2> PICK v : v # "no" /\ o.csend # "no" /\ obj' = [obj EXCEPT ![s][c].csend = v]
    BY <1>5 DEF CloseSendWritten, CloseSendCancelled, closeSendAfterTerminal
  <2> DEFINE p == [o EXCEPT !.csend = v]
  <2>1. obj' = [obj EXCEPT ![s][c] = p]
    OBVIOUS
  <2>2. p.inbound = o.inbound /\ p.inb = o.inb /\ p.outbound = o.outbound /\ p.pump = o.pump /\ p.csend # "no"
    BY DEF StreamObjects
  <2> HIDE DEF p
  <2>3. obj'[s][c] = p
    BY <2>1 DEF ObjType
  <2>4. SenderCalm(s, c)
    BY <2>2, <2>3 DEF SenderCalm
  <2> QED
    BY <2>1, <2>2, <2>4, MarkKeeps
<1>6. CASE c = "server" /\ FlushEnqueue(s)
  <2> USE <1>6
  <2> DEFINE p == enqueued(o, "barrier")
  <2>1. obj' = [obj EXCEPT ![s][c] = p]
    BY DEF FlushEnqueue
  <2>2. /\ p.inbound = o.inbound /\ p.inb = o.inb /\ p.outbound = Append(o.outbound, barrier) /\ p.pump = o.pump
        /\ p.csend = o.csend
    BY DEF StreamObjects, enqueued
  <2>3. Opened(s, c) /\ hpc'[s] \notin {"none", "running"}
    BY DEF FlushEnqueue, Opened, Typed, ServeType
  <2> HIDE DEF p
  <2>4. obj'[s][c] = p
    BY <2>1 DEF ObjType
  <2>5. SenderCalm(s, c)
    BY <1>2, <2>2, <2>3, <2>4 DEF SenderCalm
  <2> QED
    BY <2>1, <2>2, <2>5, MarkKeeps
<1> QED
  BY <1>3, <1>4, <1>5, <1>6 DEF CloseSendStep

\* An empty wire continues whatever has been had.
LEMMA NothingNumbered ==
    ASSUME NEW s \in Streams, NEW next \in Nat, NEW end
    PROVE  Numbered(<<>>, s, next, next, end)
  BY NoElements, WireEmpty

\* Only the sending end of a stream moves, and what that is to another direction.
SenderOnly(s, c, p) ==
    /\ obj' = [obj EXCEPT ![s][c] = p] /\ p.inbound = obj[s][c].inbound /\ p.inb = obj[s][c].inb
    /\ UNCHANGED <<delivering, streams, received, rend>>
Elsewhere(s, c, r, e, d) ==
    /\ RecvCalm(r, e) /\ Delivers(r, e)' = Delivers(r, e)
    /\ (r # s \/ d # c) /\ sent'[r][d] = sent[r][d] /\ WireCalm(r, d) /\ Flow(r, e) => Flow(r, e)'

\* What the sending end of a stream does is nothing to the other directions.
LEMMA SenderElse ==
    ASSUME Typed, Opening, [Next]_vars, NEW s \in Streams, NEW c \in Endpoints, NEW p, SenderOnly(s, c, p),
           NEW r \in Streams, NEW e \in Endpoints, NEW d \in Endpoints, d = Other(e)
    PROVE  Elsewhere(s, c, r, e, d)
<1> /\ obj' = [obj EXCEPT ![s][c] = p] /\ p.inbound = obj[s][c].inbound /\ p.inb = obj[s][c].inb
    /\ UNCHANGED <<delivering, streams, received, rend>>
  BY DEF SenderOnly
<1>1. ObjType
  BY DEF Typed
<1>2. /\ obj'[s][c] = p
      /\ \A q \in Streams, b \in Endpoints : q # s \/ b # c => obj'[q][b] = obj[q][b]
  BY <1>1, OtherObjects
<1>3. RecvCalm(r, e)
  <2>1. obj'[r][e].inbound = obj[r][e].inbound /\ obj'[r][e].inb = obj[r][e].inb
    BY <1>2
  <2> QED
    BY <2>1 DEF RecvCalm
<1>4. Delivers(r, e)' = Delivers(r, e)
  BY DEF Delivers
<1>5. ASSUME r # s \/ d # c, sent'[r][d] = sent[r][d], WireCalm(r, d), Flow(r, e)
      PROVE  Flow(r, e)'
  <2> USE <1>5
  <2>1. SenderCalm(r, d)
    BY <1>2, SenderSame
  <2>2. SendingOf(r, d) /\ ReceivingOf(r, e)
    BY DEF Flow
  <2>3. SendingOf(r, d)' /\ ReceivingOf(r, e)'
    BY <1>3, <1>4, <2>1, <2>2, ReceivingKept DEF SendCalm
  <2> QED
    BY <2>3 DEF Flow
<1> QED
  BY <1>3, <1>4, <1>5 DEF Elsewhere

\* Send queues a message.
LEMMA SendKeeps ==
    ASSUME Typed, Opening, [Next]_vars, Flowing, NEW s \in Streams, NEW c \in Endpoints, Send(s, c)
    PROVE  Flowing'
<1> SUFFICES ASSUME NEW r \in Streams, NEW e \in Endpoints PROVE Flow(r, e)'
  BY DEF Flowing
<1> DEFINE o == obj[s][c]
           d == Other(e)
           p == [o EXCEPT !.outbound = Append(o.outbound, [kind |-> "data", n |-> sent[s][c] + 1])]
<1> /\ ObjType /\ o \in StreamObjects /\ sent \in [Streams -> [Endpoints -> Nat]]
    /\ d \in Endpoints /\ Flow(r, e) /\ SendingOf(r, d) /\ ReceivingOf(r, e)
  BY Places DEF Typed, ObjType, BoundedObjects, AppType, Flowing, Flow
<1>1. obj' = [obj EXCEPT ![s][c] = p]
  BY DEF Send
<1>2. /\ p.inbound = o.inbound /\ p.inb = o.inb /\ p.pump = o.pump /\ p.csend = o.csend
      /\ p.outbound = Append(o.outbound, [kind |-> "data", n |-> sent[s][c] + 1])
  BY DEF StreamObjects
<1> HIDE DEF p
<1>3. obj'[s][c] = p
  BY <1>1 DEF ObjType
<1> UNCHANGED <<delivering, streams, received, rend, wire>>
  BY DEF Send, engineVars, readVars, sessionVars, connVars
<1>4. sent'[s][c] = sent[s][c] + 1 /\ \A q \in Streams, b \in Endpoints : q # s \/ b # c => sent'[q][b] = sent[q][b]
  BY DEF Send
<1>5. WireCalm(r, d)
  BY DEF WireCalm
<1> HIDE DEF d
<1>6. /\ RecvCalm(r, e) /\ Delivers(r, e)' = Delivers(r, e)
      /\ (r # s \/ d # c) /\ sent'[r][d] = sent[r][d] /\ WireCalm(r, d) /\ Flow(r, e) => Flow(r, e)'
  BY <1>1, <1>2, SenderElse DEF d, SenderOnly, Elsewhere
<1>7. CASE r # s \/ d # c
  BY <1>4, <1>5, <1>6, <1>7
<1>8. CASE r = s /\ d = c
  <2>1. Opened(s, c) /\ (c = "server" => hpc[s] = "running") /\ o.csend = "no"
    BY DEF Send, Holds, Opened
  <2>2. SendingOf(s, c)' /\ ReceivingOf(s, e)'
    BY <1>2, <1>3, <1>4, <1>6, <1>8, <2>1, SendMove DEF d
  <2> QED
    BY <1>8, <2>2 DEF Flow, d
<1> QED
  BY <1>7, <1>8, SMTT(200)

\* Recv takes a message.
LEMMA RecvKeeps ==
    ASSUME Typed, Opening, [Next]_vars, Flowing, NEW s \in Streams, NEW c \in Endpoints, RecvMessage(s, c)
    PROVE  Flowing'
<1> SUFFICES ASSUME NEW r \in Streams, NEW e \in Endpoints PROVE Flow(r, e)'
  BY DEF Flowing
<1> DEFINE o == obj[s][c]
           p == [o EXCEPT !.inbound = Tail(o.inbound)]
<1> /\ ObjType /\ o \in StreamObjects /\ received \in [Streams -> [Endpoints -> Seq(Nat)]]
    /\ Other(e) \in Endpoints /\ SendingOf(r, Other(e)) /\ ReceivingOf(r, e)
  BY Places DEF Typed, ObjType, BoundedObjects, AppType, Flowing, Flow
<1>1. obj' = [obj EXCEPT ![s][c] = p] /\ o.inbound # <<>>
  BY DEF RecvMessage
<1>2. /\ p.inb = o.inb /\ p.pump = o.pump /\ p.csend = o.csend /\ p.outbound = o.outbound
      /\ p.inbound = Tail(o.inbound)
  BY DEF StreamObjects
<1> HIDE DEF p
<1> obj'[s][c] = p /\ \A q \in Streams, b \in Endpoints : q # s \/ b # c => obj'[q][b] = obj[q][b]
  BY <1>1 DEF ObjType
<1> UNCHANGED <<delivering, streams, sent, rend, wire>>
  BY DEF RecvMessage, engineVars, readVars, sessionVars, connVars
<1>3. /\ received'[s][c] = Append(received[s][c], Head(o.inbound))
      /\ \A q \in Streams, b \in Endpoints : q # s \/ b # c => received'[q][b] = received[q][b]
  BY DEF RecvMessage
<1>4. SendCalm(r, Other(e))
  <2>1. WireCalm(r, Other(e))
    BY DEF WireCalm
  <2>2. SenderCalm(r, Other(e))
    <3>1. CASE r = s /\ Other(e) = c
      BY <1>2, <3>1 DEF SenderCalm
    <3>2. CASE r # s \/ Other(e) # c
      BY <3>2, SenderSame
    <3> QED
      BY <3>1, <3>2
  <2> QED
    BY <2>1, <2>2 DEF SendCalm
<1>5. CASE r # s \/ e # c
  <2>1. RecvCalm(r, e) /\ Delivers(r, e)' = Delivers(r, e)
    BY <1>3, <1>5 DEF RecvCalm, Delivers
  <2> QED
    BY <1>4, <2>1, ReceivingKept DEF Flow
<1>6. CASE r = s /\ e = c
  <2>1. SendingOf(s, Other(c))' /\ ReceivingOf(s, c)'
    BY <1>1, <1>2, <1>3, <1>4, <1>6, RecvMove
  <2> QED
    BY <1>6, <2>1 DEF Flow
<1> QED
  BY <1>5, <1>6, SMTT(200)

\* A frame that is written is on the wire just when it will be read.
LEMMA WriteLive ==
    ASSUME Typed, NEW t \in Threads, NEW f, WriteOK(wire, t, f)
    PROVE  /\ wire'[Home(t)] = IF Live(Home(t)) THEN Append(wire[Home(t)], f) ELSE wire[Home(t)]
           /\ \A d \in Endpoints : d # Home(t) => wire'[d] = wire[d]
<1>1. Home(t) \in Endpoints /\ wire \in [Endpoints -> Seq(Frames)]
  BY Places DEF Typed, ConnType
<1> QED
  BY <1>1, SMTT(200) DEF WriteOK, Transmit, Live

\* The pump writes a message or a CloseSend.
LEMMA PumpKeeps ==
    ASSUME Typed, Opening, [Next]_vars, Flowing, NEW s \in Streams, NEW c \in Endpoints, PumpItem(s, c)
    PROVE  Flowing'
<1> DEFINE o == obj[s][c]
<1> /\ ObjType /\ Pump(s, c) \in Threads /\ Home(Pump(s, c)) = c /\ wire \in [Endpoints -> Seq(Frames)]
    /\ o.outbound \in Seq(Items) /\ sent[s][c] \in Nat
  BY Places, DirectionTypes DEF Typed, ConnType
<1> UNCHANGED <<delivering, streams, received, rend, sent, linkUp, open, reader>>
  BY DEF PumpItem, readVars, appVars
<1>1. PICK p : PumpTakes(s, c, p)
  BY PumpEffect
<1>     /\ obj' = [obj EXCEPT ![s][c] = p]
        /\ p.inbound = o.inbound /\ p.inb = o.inb
        /\ o.outbound # <<>> /\ p.outbound = Tail(o.outbound) /\ o.pump = "running"
        /\ \/ /\ Head(o.outbound).kind = "data" /\ p.csend = o.csend /\ UNCHANGED hpc
              /\ \/ WriteOK(wire, Pump(s, c), Data(s, Head(o.outbound).n)) /\ p.pump = "running"
                 \/ WriteFails(wire, Pump(s, c)) /\ p.pump = "stopped"
           \/ /\ Head(o.outbound).kind = "close" /\ UNCHANGED hpc /\ p.pump # "running"
              /\ WriteOK(wire, Pump(s, c), CloseSendFrame(s)) \/ WriteFails(wire, Pump(s, c))
              /\ p.csend = "no" <=> o.csend = "no"
           \/ /\ Head(o.outbound).kind = "barrier" /\ p.csend = o.csend /\ p.pump = "running"
              /\ UNCHANGED wire
  BY <1>1 DEF PumpTakes
<1>2. obj'[s][c] = p
  BY DEF ObjType
<1>3. CASE Head(o.outbound).kind = "barrier"
  <2>1. p.csend = o.csend /\ p.pump = "running" /\ UNCHANGED wire
    BY <1>3
  <2>2. SenderCalm(s, c)
    BY <1>2, <1>3, <2>1 DEF SenderCalm
  <2> QED
    BY <2>1, <2>2, MarkKeeps DEF OnlyObject
<1>4. CASE Head(o.outbound).kind # "barrier"
  <2>1. Head(o.outbound) \in Items
    BY SMTT(200)
  <2> DEFINE item == Head(o.outbound)
             f == IF item.kind = "data" THEN Data(s, item.n) ELSE CloseSendFrame(s)
  <2> item.kind \in {"data", "close"} /\ item.n \in Nat
    BY <1>4, <2>1 DEF Items
  <2> /\ f \in Frames /\ Carries(f, s) /\ \A r \in Streams : r # s => f \in NotCarries(r)
      /\ (f.type = "CloseSend" <=> item.kind # "data") /\ (item.kind = "data" => f.type = "Data" /\ f.n = item.n)
    <3>1. /\ Data(s, item.n) \in Frames /\ CloseSendFrame(s) \in Frames
          /\ \A r \in Streams : r # s => Data(s, item.n) \in NotCarries(r) /\ CloseSendFrame(s) \in NotCarries(r)
      BY FrameTypes, PlainFrames
    <3>2. /\ Data(s, item.n).type = "Data" /\ Data(s, item.n).s = s /\ Data(s, item.n).n = item.n
          /\ CloseSendFrame(s).type = "CloseSend" /\ CloseSendFrame(s).s = s
      BY SMTT(200) DEF Data, CloseSendFrame
    <3> QED
      BY <3>1, <3>2 DEF Carries
  <2>2. Number(f, sent[s][c] + 1) = NextOut(o.outbound, sent[s][c])
    BY DEF Number, NextOut
  <2>3. WriteOK(wire, Pump(s, c), f) \/ (WriteFails(wire, Pump(s, c)) /\ p.pump # "running")
    OBVIOUS
  <2>4. /\ UNCHANGED hpc /\ (p.csend = "no" <=> o.csend = "no")
        /\ f.type = "CloseSend" => p.pump # "running"
    OBVIOUS
  <2> HIDE DEF f
  <2>5. /\ wire'[c] = (IF Live(c) THEN Append(wire[c], f) ELSE wire[c]) \/ (wire'[c] = wire[c] /\ p.pump # "running")
        /\ \A d \in Endpoints : d # c => wire'[d] = wire[d]
    <3>1. CASE WriteOK(wire, Pump(s, c), f)
      BY <3>1, WriteLive
    <3>2. CASE WriteFails(wire, Pump(s, c)) /\ p.pump # "running"
      BY <3>2 DEF WriteFails
    <3> QED
      BY <2>3, <3>1, <3>2, SMTT(200)
  <2>6. Live(c)' = Live(c)
    BY DEF Live
  <2> SUFFICES ASSUME NEW r \in Streams, NEW e \in Endpoints PROVE Flow(r, e)'
    BY DEF Flowing
  <2> PICK d \in Endpoints : d = Other(e)
    BY Places
  <2>7. /\ RecvCalm(r, e) /\ Delivers(r, e)' = Delivers(r, e)
        /\ (r # s \/ d # c) /\ sent'[r][d] = sent[r][d] /\ WireCalm(r, d) /\ Flow(r, e) => Flow(r, e)'
    <3>1. UNCHANGED <<delivering, streams, received, rend>> /\ obj' = [obj EXCEPT ![s][c] = p]
      OBVIOUS
    <3>2. p.inbound = obj[s][c].inbound /\ p.inb = obj[s][c].inb
      OBVIOUS
    <3>3. SenderOnly(s, c, p)
      BY <3>1, <3>2 DEF SenderOnly
    <3>4. Elsewhere(s, c, r, e, d)
      BY <3>3, SenderElse
    <3> QED
      BY <3>4 DEF Elsewhere
  <2> Flow(r, e) /\ SendingOf(r, d) /\ ReceivingOf(r, e)
    BY DEF Flowing, Flow
  <2>8. CASE r # s \/ d # c
    <3>1. WireCalm(r, d)
      BY <2>5, <2>8 DEF WireCalm
    <3> QED
      BY <2>7, <2>8, <3>1
  <2>9. CASE r = s /\ d = c
    <3> USE <2>9
    <3>1. f.type = "CloseSend" => o.csend # "no"
      <4>1. ASSUME f.type = "CloseSend", o.csend = "no" PROVE FALSE
        <5>1. o.outbound \in Seq(OpenItems)
          BY <4>1 DEF SendingOf
        <5>2. item \in OpenItems
          BY <5>1, SMTT(200)
        <5> QED
          BY <4>1, <5>2 DEF OpenItems
      <4> QED
        BY <4>1, SMTT(200)
    <3>2. /\ wire'[c] \in {wire[c], Append(wire[c], f)}
          /\ wire'[c] = Append(wire[c], f) => Live(c)
          /\ Live(c)' /\ p.pump = "running" => wire'[c] = Append(wire[c], f)
      <4>1. wire[c] # Append(wire[c], f)
        <5>1. wire[c] \in Seq(Frames)
          BY SMTT(200)
        <5> QED
          BY <5>1, SMTT(200)
      <4> QED
        BY <2>5, <2>6, <4>1
    <3>3. SendingOf(s, c)' /\ ReceivingOf(s, e)'
      BY <1>2, <2>2, <2>4, <2>7, <3>1, <3>2, PumpMove
    <3> QED
      BY <3>3 DEF Flow
  <2> QED
    BY <2>8, <2>9, SMTT(200)
<1> QED
  BY <1>3, <1>4, SMTT(200)

\* The read loop stops: what it held and what is on its wire is lost.
LEMMA StopKeeps ==
    ASSUME Typed, Opening, [Next]_vars, Flowing, NEW c \in Endpoints, NEW cause, StopReading(c, cause),
           \A r \in Streams, d \in Endpoints : Settles(obj[r][d], obj'[r][d])
    PROVE  Flowing'
<1> SUFFICES ASSUME NEW r \in Streams, NEW e \in Endpoints PROVE Flow(r, e)'
  BY DEF Flowing
<1> PICK d \in Endpoints : d = Other(e)
  BY Places
<1> /\ Other(d) = e /\ SendingOf(r, d) /\ ReceivingOf(r, e) /\ Other(c) \in Endpoints /\ Other(c) # c
    /\ e # c => d = c /\ c # Other(c)
    /\ e = c => d = Other(c)
  BY Places, TwoEnds DEF Flowing, Flow
<1> UNCHANGED <<sent, received, rend, streams>>
  BY DEF StopReading, appVars
<1> /\ wire'[Other(c)] = <<>> /\ \A b \in Endpoints : b # Other(c) => wire'[b] = wire[b]
    /\ delivering'[c] = <<>> /\ \A b \in Endpoints : b # c => delivering'[b] = delivering[b]
    /\ reader'[c] = "stopped"
  BY DEF StopReading, Typed, ConnType, ReadType
<1> SenderCalm(r, d)
  BY DEF SenderCalm, Settles
<1> RecvCalm(r, e)
  BY DEF RecvCalm, Settles, Delivers
<1>1. CASE e # c
  <2>1. WireCalm(r, d) /\ Delivers(r, e)' = Delivers(r, e)
    BY <1>1 DEF WireCalm, Delivers
  <2>2. SendingOf(r, d)' /\ ReceivingOf(r, e)'
    BY <2>1, ReceivingKept DEF SendCalm
  <2> QED
    BY <2>2 DEF Flow
<1>2. CASE e = c
  <2> wire'[d] = <<>> /\ ~Delivers(r, e)' /\ ~Live(d)'
    BY <1>2 DEF Delivers, Live
  <2>1. SendingOf(r, d)'
    BY SendingKept DEF Keeps
  <2>2. Continues(r, e)'
    <3>1. PICK h \in Nat : h = Had(r, e)
      BY DirectionTypes
    <3>2. Expected(r, e)' = h + 1
      BY <3>1 DEF RecvCalm, Expected, Had
    <3>3. h + 1 \in Nat
      BY <3>1, SMTT(200)
    <3>4. Numbered(<<>>, r, h + 1, h + 1, sent'[r][d] + 1)
      BY <3>3, NothingNumbered
    <3> QED
      BY <3>2, <3>3, <3>4 DEF Continues
  <2>3. obj[r][e].inb = "half" => sent'[r][d] = sent[r][d] /\ obj'[r][d].csend # "no"
    BY DEF ReceivingOf, Settles
  <2>4. ReceivingOf(r, e)'
    BY <2>2, <2>3, ReceivingCalm
  <2> QED
    BY <2>1, <2>4 DEF Flow
<1> QED
  BY <1>1, <1>2, SMTT(200)

\* A message is taken from the wire, or one of a stream that is forgotten.
LEMMA DataKeeps ==
    ASSUME Typed, Locks, Opening, [Next]_vars, Flowing, NEW c \in Endpoints, ReadData(c)
    PROVE  Flowing'
<1> /\ ConnType /\ ReadType /\ Other(c) \in Endpoints /\ Other(c) # c /\ Other(Other(c)) = c
    /\ delivering[c] = <<>>
  BY Places DEF Typed, ReadData, ArrivesAt, Reading, Locks, Delivery
<1> PICK f : f = Head(wire[Other(c)])
  BY SMTT(200)
<1> f.s \in Streams /\ f.type = "Data" /\ wire[Other(c)] # <<>> /\ f \in Frames
  <2>1. ArrivesAt(c, "Data")
    BY DEF ReadData
  <2>2. f = Arriving(c) /\ f.s \in Streams /\ f.type = "Data" /\ wire[Other(c)] # <<>> /\ wire[Other(c)] \in Seq(Frames)
    BY <2>1, ArrivalType, SMTT(200) DEF Arriving
  <2> QED
    BY <2>2, SMTT(200)
<1> UNCHANGED <<sent, received, rend, streams, obj>>
  BY DEF ReadData, appVars
<1>1. wire'[Other(c)] = Tail(wire[Other(c)]) /\ \A b \in Endpoints : b # Other(c) => wire'[b] = wire[b]
  BY Consuming DEF ReadData
<1> /\ \A b \in Endpoints : b # c => delivering'[b] = delivering[b]
    /\ f.s \in streams[c] => delivering'[c] = <<f.s, f.n>>
    /\ f.s \notin streams[c] => delivering'[c] = delivering[c]
  BY DEF ReadData, Arriving, ReadType, readVars
<1> SUFFICES ASSUME NEW r \in Streams, NEW e \in Endpoints PROVE Flow(r, e)'
  BY DEF Flowing
<1> PICK d \in Endpoints : d = Other(e)
  BY Places
<1> SendingOf(r, d) /\ ReceivingOf(r, e) /\ Other(d) = e /\ (d = Other(c) <=> e = c)
  BY FlowAt
<1>2. SenderCalm(r, d)
  BY SenderSame
<1>3. CASE e = c /\ r = f.s /\ f.s \in streams[c]
  <2>1. SendingOf(r, d)' /\ ReceivingOf(r, e)'
    BY <1>1, <1>2, <1>3, TakeMove DEF Delivers
  <2> QED
    BY <2>1 DEF Flow
<1>4. CASE ~(e = c /\ r = f.s /\ f.s \in streams[c])
  <2>1. WireCalm(r, d)
    <3>1. r # f.s => f \in NotCarries(r)
      BY DEF NotCarries, Carries
    <3> QED
      BY <1>1, <1>4, <3>1 DEF WireCalm
  <2>2. Delivers(r, e)' = Delivers(r, e) /\ (delivering'[e] = delivering[e] \/ ~Delivers(r, e)')
    <3>1. CASE e # c \/ f.s \notin streams[c]
      BY <3>1 DEF Delivers
    <3>2. CASE e = c /\ f.s \in streams[c]
      <4>1. delivering'[e][1] = f.s /\ r # f.s /\ delivering[e] = <<>>
        BY <1>4, <3>2, SMTT(200)
      <4> QED
        BY <4>1 DEF Delivers
    <3> QED
      BY <3>1, <3>2, SMTT(200)
  <2>3. RecvCalm(r, e)
    BY <2>2 DEF RecvCalm
  <2>4. SendingOf(r, d)' /\ ReceivingOf(r, e)'
    BY <1>2, <2>1, <2>2, <2>3, ReceivingKept DEF SendCalm
  <2> QED
    BY <2>4 DEF Flow
<1> QED
  BY <1>3, <1>4, SMTT(200)

\* A CloseSend ends the messages of a stream, if the stream still takes any.
LEMMA CloseKeeps ==
    ASSUME Typed, Locks, Opening, [Next]_vars, Flowing, NEW c \in Endpoints, ReadCloseSend(c)
    PROVE  Flowing'
<1> /\ ConnType /\ ObjType /\ Other(c) \in Endpoints /\ Other(c) # c /\ Other(Other(c)) = c
    /\ delivering[c] = <<>>
  BY Places DEF Typed, ReadCloseSend, ArrivesAt, Reading, Locks, Delivery
<1> PICK f : f = Head(wire[Other(c)])
  BY SMTT(200)
<1> f.s \in Streams /\ f.type = "CloseSend" /\ wire[Other(c)] # <<>> /\ f \in Frames
  <2>1. ArrivesAt(c, "CloseSend")
    BY DEF ReadCloseSend
  <2>2. f = Arriving(c) /\ f.s \in Streams /\ f.type = "CloseSend" /\ wire[Other(c)] # <<>> /\ wire[Other(c)] \in Seq(Frames)
    BY <2>1, ArrivalType, SMTT(200) DEF Arriving
  <2> QED
    BY <2>2, SMTT(200)
<1> UNCHANGED <<sent, received, rend, streams, delivering>>
  BY DEF ReadCloseSend, appVars, readVars
<1> wire'[Other(c)] = Tail(wire[Other(c)]) /\ \A b \in Endpoints : b # Other(c) => wire'[b] = wire[b]
  BY Consuming DEF ReadCloseSend
<1> DEFINE o == obj[f.s][c]
           p == closeInboundHalf(o)
<1> /\ p.inbound = o.inbound /\ p.outbound = o.outbound /\ p.csend = o.csend /\ p.pump = o.pump
    /\ o.inb = "open" => p.inb = "half"
    /\ o.inb # "open" => p.inb = o.inb
  <2>1. o \in StreamObjects
    BY DEF ObjType, BoundedObjects
  <2> QED
    BY <2>1 DEF closeInboundHalf, StreamObjects
<1>1. obj' = IF f.s \in streams[c] THEN [obj EXCEPT ![f.s][c] = p] ELSE obj
  BY DEF ReadCloseSend, Arriving
<1> HIDE DEF p
<1> /\ \A r \in Streams, b \in Endpoints : r # f.s \/ b # c \/ r \notin streams[c] => obj'[r][b] = obj[r][b]
    /\ f.s \in streams[c] => obj'[f.s][c] = p
  BY <1>1 DEF ObjType
<1> SUFFICES ASSUME NEW r \in Streams, NEW e \in Endpoints PROVE Flow(r, e)'
  BY DEF Flowing
<1> PICK d \in Endpoints : d = Other(e)
  BY Places
<1> SendingOf(r, d) /\ ReceivingOf(r, e) /\ Other(d) = e /\ (d = Other(c) <=> e = c)
  BY FlowAt
<1> SenderCalm(r, d)
  <2>1. CASE obj'[r][d] = obj[r][d]
    BY <2>1, SenderSame
  <2>2. CASE r = f.s /\ d = c /\ obj'[f.s][c] = p
    BY <2>2 DEF SenderCalm
  <2> QED
    BY <2>1, <2>2
<1>2. Delivers(r, e)' = Delivers(r, e) /\ (e = c => ~Delivers(r, e))
  BY DEF Delivers
<1>3. CASE e = c /\ r = f.s /\ Takes(r, c)
  <2>1. obj'[r][e].inb = "half" /\ obj'[r][e].inbound = obj[r][e].inbound
    BY <1>3 DEF Takes
  <2>2. SendingOf(r, d)' /\ ReceivingOf(r, e)'
    BY <1>2, <1>3, <2>1, CloseMove
  <2> QED
    BY <2>2 DEF Flow
<1>4. CASE ~(e = c /\ r = f.s /\ Takes(r, c))
  <2>1. RecvCalm(r, e)
    <3>1. obj'[r][e].inb = obj[r][e].inb /\ obj'[r][e].inbound = obj[r][e].inbound
      BY <1>4 DEF Takes
    <3> QED
      BY <3>1 DEF RecvCalm
  <2>2. CASE e # c \/ r # f.s \/ r \notin streams[c]
    <3>1. WireCalm(r, d)
      <4>1. r # f.s => f \in NotCarries(r)
        BY DEF NotCarries, Carries
      <4> QED
        BY <2>2, <4>1 DEF WireCalm
    <3>2. SendingOf(r, d)' /\ ReceivingOf(r, e)'
      BY <1>2, <2>1, <3>1, ReceivingKept DEF SendCalm
    <3> QED
      BY <3>2 DEF Flow
  <2>3. CASE e = c /\ r = f.s /\ r \in streams[c]
    <3>1. ~Takes(r, e)
      BY <1>4, <2>3
    <3>2. SendingOf(r, d)'
      BY <2>3, SendingKept DEF Keeps
    <3>3. obj[r][e].inb = "half" => sent'[r][d] = sent[r][d] /\ obj'[r][d].csend # "no"
      BY DEF ReceivingOf, SenderCalm
    <3>4. ReceivingOf(r, e)'
      BY <2>1, <3>1, <3>3, ReceivingCalm
    <3> QED
      BY <3>2, <3>4 DEF Flow
  <2> QED
    BY <2>2, <2>3
<1> QED
  BY <1>3, <1>4

\* The message in hand goes into the queue.
LEMMA HandKeeps ==
    ASSUME Typed, Locks, Opening, [Next]_vars, Flowing, NEW c \in Endpoints, HandOver(c), delivering[c] # <<>>,
           obj[delivering[c][1]][c].inb = "open"
    PROVE  Flowing'
<1> /\ ObjType /\ Other(c) \in Endpoints /\ Other(c) # c /\ Other(Other(c)) = c
    /\ delivering \in [Endpoints -> {<<>>} \cup (Streams \X Nat)]
  BY Places DEF Typed, ReadType
<1> PICK s \in Streams, n \in Nat : delivering[c][1] = s /\ delivering[c][2] = n
  BY SMTT(200)
<1> DEFINE o == obj[s][c]
           q == [o EXCEPT !.inbound = Append(o.inbound, n)]
           p == Unlocked(q)
<1>1. /\ p.inbound = Append(o.inbound, n) /\ p.outbound = o.outbound /\ p.csend = o.csend /\ p.pump = o.pump
      /\ p.inb \in {"open", "final"} /\ o.inb = "open"
  <2> o \in BoundedObjects /\ o \in StreamObjects /\ o.inb = "open" /\ Len(o.inbound) < MaxStreamQueueDepth
    BY DEF ObjType, BoundedObjects, HandOver
  <2>1. q \in BoundedObjects
    BY ObjectUpdates
  <2>2. /\ q.inbound = Append(o.inbound, n) /\ q.outbound = o.outbound /\ q.csend = o.csend /\ q.pump = o.pump
        /\ q.inb = o.inb
    BY DEF StreamObjects
  <2> HIDE DEF q
  <2>3. Settles(q, Unlocked(q))
    BY <2>1, UnlockedSettles
  <2> QED
    BY <2>2, <2>3 DEF Settles
<1>2. obj' = [obj EXCEPT ![s][c] = p]
  BY DEF HandOver
<1> HIDE DEF p
<1> obj'[s][c] = p /\ \A r \in Streams, b \in Endpoints : r # s \/ b # c => obj'[r][b] = obj[r][b]
  BY <1>2 DEF ObjType
<1> /\ UNCHANGED <<sent, received, rend, streams, wire>>
    /\ delivering'[c] = <<>> /\ \A b \in Endpoints : b # c => delivering'[b] = delivering[b]
  BY DEF HandOver, appVars, connVars, sessionVars
<1> SUFFICES ASSUME NEW r \in Streams, NEW e \in Endpoints PROVE Flow(r, e)'
  BY DEF Flowing
<1> PICK d \in Endpoints : d = Other(e)
  BY Places
<1> SendingOf(r, d) /\ ReceivingOf(r, e) /\ WireCalm(r, d)
  BY DEF Flowing, Flow, WireCalm
<1>3. SendCalm(r, d)
  <2>1. CASE obj'[r][d] = obj[r][d]
    BY <2>1, SenderSame DEF SendCalm
  <2>2. CASE r = s /\ d = c
    BY <1>1, <2>2 DEF SenderCalm, SendCalm
  <2> QED
    BY <2>1, <2>2
<1>4. CASE e = c /\ r = s
  <2>1. Delivers(s, c) /\ ~Delivers(s, c)'
    BY DEF Delivers
  <2>2. SendingOf(s, d)' /\ ReceivingOf(s, c)'
    BY <1>1, <1>3, <1>4, <2>1, HandMove
  <2> QED
    BY <1>4, <2>2 DEF Flow
<1>5. CASE e # c \/ r # s
  <2>1. Delivers(r, e)' = Delivers(r, e) /\ (delivering'[e] = delivering[e] \/ ~Delivers(r, e)')
    BY <1>5 DEF Delivers
  <2>2. RecvCalm(r, e)
    BY <1>5, <2>1 DEF RecvCalm
  <2>3. SendingOf(r, d)' /\ ReceivingOf(r, e)'
    BY <1>3, <2>1, <2>2, ReceivingKept
  <2> QED
    BY <2>3 DEF Flow
<1> QED
  BY <1>4, <1>5, SMTT(200)

\* Peace in every direction.
LEMMA PeaceFlows ==
    ASSUME Typed, Opening, [Next]_vars, Flowing, AtPeace
    PROVE  Flowing'
<1> SUFFICES ASSUME NEW r \in Streams, NEW e \in Endpoints PROVE Flow(r, e)'
  BY DEF Flowing
<1>1. PICK d \in Endpoints : d = Other(e)
  BY Places
<1>2. SendingOf(r, d) /\ ReceivingOf(r, e)
  BY <1>1 DEF Flowing, Flow
<1> QED
  BY <1>1, <1>2, PeaceKeeps DEF Flow

\* The message in hand is refused, and with it the stream.
LEMMA RefuseKeeps ==
    ASSUME Typed, Opening, [Next]_vars, Flowing, NEW c \in Endpoints,
           NEW s \in Streams, s = delivering[c][1],
           \A r \in Streams, d \in Endpoints : Settles(obj[r][d], obj'[r][d]), obj'[s][c].inb # "open",
           sendFrame(wire, Reader(c), StreamEnd(s, "tooLarge")), delivering' = [delivering EXCEPT ![c] = <<>>],
           UNCHANGED <<streams, appVars>>
    PROVE  Flowing'
<1> /\ "tooLarge" \in Statuses /\ Reader(c) \in Threads
    /\ wire \in [Endpoints -> Seq(Frames)] /\ delivering \in [Endpoints -> {<<>>} \cup (Streams \X Nat)]
  BY Places, ErrorTypes DEF Typed, ReadType, ConnType
<1>1. UNCHANGED <<streams, sent, received, rend>>
  BY DEF appVars
<1>2. delivering'[c] = <<>> /\ \A b \in Endpoints : b # c => delivering'[b] = delivering[b]
  OBVIOUS
<1> SUFFICES ASSUME NEW r \in Streams, NEW e \in Endpoints PROVE Flow(r, e)'
  BY DEF Flowing
<1> PICK d \in Endpoints : d = Other(e)
  BY Places
<1>3. WireCalm(r, d)
  <2>1. StreamEnd(s, "tooLarge") \in NotCarries(r)
    BY PlainFrames
  <2> QED
    BY <2>1, WriteCalm DEF sendFrame
<1>4. SendCalm(r, d)
  BY <1>1, <1>3, SenderSettled DEF SendCalm
<1>5. RecvCalm(r, e)
  BY <1>1, <1>2 DEF RecvCalm, Settles, Delivers
<1>6. Delivers(r, e)' = Delivers(r, e) \/ obj'[r][e].inb # "open"
  BY <1>2 DEF Delivers
<1>7. SendingOf(r, d) /\ ReceivingOf(r, e)
  BY DEF Flowing, Flow
<1> QED
  BY <1>4, <1>5, <1>6, <1>7, ReceivingKept DEF Flow

\* The message in hand is delivered, or found to have no room.
LEMMA DeliverKeeps ==
    ASSUME Typed, Locks, Opening, [Next]_vars, Flowing, NEW c \in Endpoints, Deliver(c) \/ DeliverBlocked(c)
    PROVE  Flowing'
<1> ObjType /\ delivering \in [Endpoints -> {<<>>} \cup (Streams \X Nat)] /\ delivering[c] # <<>>
  BY DEF Typed, ReadType, Locks, Delivery, Deliver, DeliverBlocked
<1> PICK s \in Streams : s = delivering[c][1]
  BY SMTT(200)
<1>1. CASE HandOverFails(c)
  <2>1. obj[s][c] \in BoundedObjects
    BY DEF ObjType
  <2>2. Settles(obj[s][c], Unlocked(obj[s][c]))
    BY <2>1, UnlockedSettles
  <2>3. obj' = [obj EXCEPT ![s][c] = Unlocked(obj[s][c])] /\ StopReading(c, "canceled")
    BY <1>1 DEF HandOverFails
  <2>4. \A r \in Streams, d \in Endpoints : Settles(obj[r][d], obj'[r][d])
    <3>1. /\ obj'[s][c] = Unlocked(obj[s][c])
          /\ \A r \in Streams, d \in Endpoints : r # s \/ d # c => obj'[r][d] = obj[r][d]
      BY <2>3 DEF ObjType
    <3> QED
      BY <2>2, <3>1, SettlesSame
  <2> QED
    BY <2>3, <2>4, StopKeeps, SMTT(200)
<1>2. CASE HandOver(c) /\ obj[s][c].inb = "open"
  BY <1>2, HandKeeps
<1>3. CASE StopReading(c, "violation") /\ UNCHANGED obj
  <2>1. \A r \in Streams, d \in Endpoints : Settles(obj[r][d], obj'[r][d])
    BY <1>3, SettlesSame
  <2> QED
    BY <1>3, <2>1, StopKeeps, SMTT(200)
<1>4. CASE UNCHANGED <<connVars, sessionVars, delivering, obj, openVars, serveVars, appVars>>
  <2>1. UNCHANGED <<wire, streams, sent, received, rend, delivering, obj>>
    BY <1>4 DEF connVars, sessionVars, appVars
  <2>2. AtPeace
    BY <2>1, SettlesSame DEF AtPeace, Settling, WireCalm
  <2> QED
    BY <2>2, PeaceFlows
<1>5. CASE /\ reader[c] = "deliver" /\ obj' = [obj EXCEPT ![s][c] = finishStream(s, c, "tooLarge")]
           /\ sendFrame(wire, Reader(c), StreamEnd(s, "tooLarge")) /\ delivering' = [delivering EXCEPT ![c] = <<>>]
           /\ UNCHANGED <<streams, appVars>>
  <2> USE <1>5
  <2>1. "tooLarge" \in Errors
    BY ErrorTypes
  <2>2. \A r \in Streams, d \in Endpoints : Settles(obj[r][d], obj'[r][d])
    BY <2>1, FinishedSettles
  <2>3. /\ finishStream(s, c, "tooLarge").inb = "open" => obj[s][c].fin # "none" \/ InboundLocked(s, c)
        /\ ~InboundLocked(s, c) /\ obj'[s][c] = finishStream(s, c, "tooLarge")
    BY <2>1, FinishSettles DEF InboundLocked, ObjType
  <2>4. obj[s][c].fin # "none" => obj[s][c].inb # "open" /\ finishStream(s, c, "tooLarge") = obj[s][c]
    BY <2>3 DEF Locks, Finished, finishStream
  <2>5. obj'[s][c].inb # "open"
    BY <2>3, <2>4
  <2> QED
    BY <2>2, <2>5, RefuseKeeps
<1>6. CASE Deliver(c)
  BY <1>1, <1>2, <1>3, <1>4, <1>5, <1>6 DEF Deliver
<1>7. CASE DeliverBlocked(c)
  <2>1. obj[s][c].inb = "open"
    BY <1>7 DEF DeliverBlocked, Locks, DeliverOnOpenQueue
  <2> QED
    BY <1>1, <1>2, <1>7, <2>1 DEF DeliverBlocked
<1> QED
  BY <1>6, <1>7, SMTT(200)

\* A stream begins at one end, and nothing was sent on it in either direction.
LEMMA FreshKeeps ==
    ASSUME Typed, Typed', Opening, [Next]_vars, Flowing, NEW s \in Streams, \A d \in Endpoints : ~Opened(s, d),
           \A r \in Streams, d \in Endpoints : r # s => obj'[r][d] = obj[r][d] /\ (r \in streams'[d] => r \in streams[d]),
           \A d \in Endpoints : /\ obj'[s][d].inbound = obj[s][d].inbound /\ obj'[s][d].outbound = obj[s][d].outbound
                                /\ obj'[s][d].csend = obj[s][d].csend
                                /\ obj'[s][d].inb = "half" => obj[s][d].inb = "half",
           \A r \in Streams, d \in Endpoints : WireCalm(r, d),
           UNCHANGED <<sent, received, rend, delivering>>
    PROVE  Flowing'
<1> SUFFICES ASSUME NEW r \in Streams, NEW e \in Endpoints PROVE Flow(r, e)'
  BY DEF Flowing
<1> PICK d \in Endpoints : d = Other(e)
  BY Places
<1> SendingOf(r, d) /\ ReceivingOf(r, e) /\ Delivers(r, e)' = Delivers(r, e)
  BY DEF Flowing, Flow, Delivers
<1>1. CASE r = s
  <2>1. ~Delivers(r, e)' /\ Keeps(d, NotCarries(r))
    <3>1. ~Opened(r, d) /\ WireCalm(r, d)
      BY <1>1
    <3>2. Keeps(d, NotCarries(r))
      BY <3>1 DEF WireCalm, Keeps
    <3>3. ~Delivers(r, e)
      BY <3>1 DEF ReceivingOf
    <3> QED
      BY <3>2, <3>3
  <2>2. SendingOf(r, d)' /\ ReceivingOf(r, e)'
    BY <1>1, <2>1, FreshMove
  <2> QED
    BY <2>2 DEF Flow
<1>2. CASE r # s
  <2>1. SendCalm(r, d)
    BY <1>2, SenderSame DEF SendCalm
  <2>2. RecvCalm(r, e)
    BY <1>2 DEF RecvCalm
  <2>3. SendingOf(r, d)' /\ ReceivingOf(r, e)'
    BY <2>1, <2>2, ReceivingKept
  <2> QED
    BY <2>3 DEF Flow
<1> QED
  BY <1>1, <1>2, SMTT(200)

\* What the beginning of a stream does to its object.
Begins(o, p) ==
    /\ p.inbound = o.inbound /\ p.outbound = o.outbound /\ p.csend = o.csend
    /\ p.inb = "half" => o.inb = "half"

\* The pump of an object starts, which may have been finished before.
LEMMA BeginsAs ==
    ASSUME NEW o, NEW q \in StreamObjects, Settles(o, q)
    PROVE  Begins(o, [q EXCEPT !.pump = "running"])
<1> DEFINE p == [q EXCEPT !.pump = "running"]
<1>1. p.inbound = q.inbound /\ p.outbound = q.outbound /\ p.csend = q.csend /\ p.inb = q.inb
  BY DEF StreamObjects
<1> HIDE DEF p
<1>2. Begins(o, p)
  BY <1>1 DEF Begins, Settles
<1> QED
  BY <1>2 DEF p

\* The object of one end begins: all others stay as they are.
LEMMA BegunAs ==
    ASSUME ObjType, NEW s \in Streams, NEW c \in Endpoints, NEW p, Begins(obj[s][c], p),
           obj' = [obj EXCEPT ![s][c] = p]
    PROVE  /\ \A r \in Streams, d \in Endpoints : r # s => obj'[r][d] = obj[r][d]
           /\ \A d \in Endpoints : Begins(obj[s][d], obj'[s][d])
<1>1. obj'[s][c] = p /\ \A r \in Streams, d \in Endpoints : r # s \/ d # c => obj'[r][d] = obj[r][d]
  BY DEF ObjType
<1> QED
  BY <1>1 DEF Begins

\* The stream begins at one end.
LEMMA Begun ==
    ASSUME ObjType, NEW s \in Streams, NEW c \in Endpoints,
           \/ obj' = [obj EXCEPT ![s][c].pump = "running"]
           \/ obj' = [obj EXCEPT ![s][c] = [finishStream(s, c, "broken") EXCEPT !.pump = "running"]]
    PROVE  /\ \A r \in Streams, d \in Endpoints : r # s => obj'[r][d] = obj[r][d]
           /\ \A d \in Endpoints : Begins(obj[s][d], obj'[s][d])
<1>1. obj[s][c] \in StreamObjects /\ "broken" \in Errors
  BY ErrorTypes DEF ObjType, BoundedObjects
<1>2. /\ finishStream(s, c, "broken") \in StreamObjects /\ Settles(obj[s][c], finishStream(s, c, "broken"))
      /\ Settles(obj[s][c], obj[s][c])
  BY <1>1, FinishSettles, SettlesSame DEF BoundedObjects
<1>3. CASE obj' = [obj EXCEPT ![s][c].pump = "running"]
  BY <1>1, <1>2, <1>3, BeginsAs, BegunAs
<1>4. CASE obj' = [obj EXCEPT ![s][c] = [finishStream(s, c, "broken") EXCEPT !.pump = "running"]]
  BY <1>2, <1>4, BeginsAs, BegunAs
<1> QED
  BY <1>3, <1>4

\* The opener writes its OpenStream and starts the stream.
LEMMA OpenKeeps ==
    ASSUME Typed, Typed', Opening, [Next]_vars, Flowing, NEW s \in Streams, OpenWrite(s)
    PROVE  Flowing'
<1> /\ ObjType /\ "client" \in Endpoints /\ streams \in [Endpoints -> SUBSET Streams]
    /\ wire \in [Endpoints -> Seq(Frames)] /\ Opener(s) \in Threads
  BY Places DEF Typed, SessType, ConnType
<1>1. \A d \in Endpoints : ~Opened(s, d)
  <2>1. opc[s] = "usable"
    BY DEF OpenWrite
  <2>2. hpc[s] = "none"
    BY <2>1 DEF Opening, OpeningOf
  <2> QED
    BY <2>1, <2>2, SMTT(200) DEF Opened
<1>2. /\ \A r \in Streams, d \in Endpoints : r # s => obj'[r][d] = obj[r][d]
      /\ \A d \in Endpoints : /\ obj'[s][d].inbound = obj[s][d].inbound /\ obj'[s][d].outbound = obj[s][d].outbound
                              /\ obj'[s][d].csend = obj[s][d].csend
                              /\ obj'[s][d].inb = "half" => obj[s][d].inb = "half"
  <2>1. \/ obj' = [obj EXCEPT ![s]["client"].pump = "running"]
        \/ obj' = [obj EXCEPT ![s]["client"] = [finishStream(s, "client", "broken") EXCEPT !.pump = "running"]]
    BY DEF OpenWrite
  <2> QED
    BY <2>1, Begun DEF Begins
<1>3. \A r \in Streams, d \in Endpoints : r # s => (r \in streams'[d] => r \in streams[d])
  BY SMTT(200) DEF OpenWrite
<1>4. \A r \in Streams, d \in Endpoints : WireCalm(r, d)
  <2>1. UNCHANGED wire \/ WriteOK(wire, Opener(s), OpenStream(s))
    BY DEF OpenWrite
  <2> QED
    BY <2>1, PlainFrames, WriteCalm
<1>5. UNCHANGED <<sent, received, rend, delivering>>
  BY DEF OpenWrite, appVars, readVars
<1> QED
  BY <1>1, <1>2, <1>3, <1>4, <1>5, FreshKeeps

\* The server accepts or refuses a stream.
LEMMA AcceptKeeps ==
    ASSUME Typed, Typed', Opening, [Next]_vars, Flowing, ReadOpenStream
    PROVE  Flowing'
<1> /\ ObjType /\ ConnType /\ "server" \in Endpoints /\ Other("server") = "client"
    /\ streams \in [Endpoints -> SUBSET Streams] /\ wire \in [Endpoints -> Seq(Frames)]
    /\ Reader("server") \in Threads /\ Home(Reader("server")) = "server"
    /\ ArrivesAt("server", "OpenStream")
  BY Places DEF Typed, SessType, ConnType, Other, ReadOpenStream
<1>1. CASE UNCHANGED <<obj, streams>>
  BY <1>1, ReadPeace, PeaceFlows
<1>2. CASE ~UNCHANGED <<obj, streams>>
  <2>1. PICK s \in Streams : s = Arriving("server").s
    BY NotServed
  <2>2. \A d \in Endpoints : ~Opened(s, d)
    <3>1. hpc[s] = "none"
      BY <2>1, NotServed
    <3>2. opc[s] # "established"
      BY <3>1 DEF Opening, OpeningOf
    <3> QED
      BY <3>1, <3>2, SMTT(200) DEF Opened
  <2> /\ \/ obj' = [obj EXCEPT ![s]["server"].pump = "running"]
         \/ obj' = [obj EXCEPT ![s]["server"] = [finishStream(s, "server", "broken") EXCEPT !.pump = "running"]]
      /\ UNCHANGED streams \/ streams' = [streams EXCEPT !["server"] = @ \cup {s}]
      /\ WriteOK(Consumed("server"), Reader("server"), Ack(s)) \/ WriteFails(Consumed("server"), Reader("server"))
    BY <1>2, <2>1 DEF ReadOpenStream, acknowledge
  <2>3. /\ \A r \in Streams, d \in Endpoints : r # s => obj'[r][d] = obj[r][d]
        /\ \A d \in Endpoints : /\ obj'[s][d].inbound = obj[s][d].inbound /\ obj'[s][d].outbound = obj[s][d].outbound
                                /\ obj'[s][d].csend = obj[s][d].csend
                                /\ obj'[s][d].inb = "half" => obj[s][d].inb = "half"
    BY Begun DEF Begins
  <2>4. \A r \in Streams, d \in Endpoints : r # s => (r \in streams'[d] => r \in streams[d])
    <3>1. UNCHANGED streams \/ streams' = [streams EXCEPT !["server"] = @ \cup {s}]
      OBVIOUS
    <3> QED
      BY <3>1
  <2>5. \A r \in Streams, d \in Endpoints : WireCalm(r, d)
    <3>1. /\ wire'["client"] = Tail(wire["client"])
          /\ wire'["server"] = wire["server"] \/ wire'["server"] = Append(wire["server"], Ack(s))
      <4>1. /\ Consumed("server") \in [Endpoints -> Seq(Frames)]
            /\ Consumed("server")["client"] = Tail(wire["client"]) /\ Consumed("server")["server"] = wire["server"]
        BY ArrivalType, Consuming, Places DEF Other
      <4>2. PICK w \in [Endpoints -> Seq(Frames)] : w = Consumed("server")
        BY <4>1, SMTT(200)
      <4>3. /\ wire'["server"] = w["server"] \/ wire'["server"] = Append(w["server"], Ack(s))
            /\ wire'["client"] = w["client"]
        BY <4>2, Places, SMTT(200) DEF WriteOK, WriteFails, Transmit, Other
      <4> QED
        BY <4>1, <4>2, <4>3
    <3>2. \A r \in Streams : Head(wire["client"]) \in NotCarries(r) /\ wire["client"] # <<>>
      BY ReadCalm
    <3>3. \A r \in Streams : WireCalm(r, "client") /\ WireCalm(r, "server")
      BY <3>1, <3>2, PlainFrames DEF WireCalm
    <3> QED
      BY <3>3 DEF Endpoints
  <2>6. UNCHANGED <<sent, received, rend, delivering>>
    BY DEF ReadOpenStream, appVars, readVars
  <2> QED
    BY <2>2, <2>3, <2>4, <2>5, <2>6, FreshKeeps
<1> QED
  BY <1>1, <1>2, SMTT(200)

\* Every step keeps what holds of the directions.
LEMMA FlowNext == Base /\ Typed' /\ Flowing /\ [Next]_vars => Flowing'
<1> SUFFICES ASSUME Typed, Locks, Opening, Typed', Flowing, [Next]_vars PROVE Flowing'
  BY DEF Base
<1>1. ASSUME NEW s \in Streams, OpenCheck(s) \/ CancelCaller(s) \/ OpenStep(s) \/ FollowStep(s)
      PROVE  Flowing'
  BY <1>1, ClientPeace, PeaceFlows, OpenKeeps
<1>2. ASSUME NEW s \in Streams, HandlerReturn(s) \/ ServeStep(s)
      PROVE  Flowing'
  BY <1>2, ServerPeace, PeaceFlows, MarkSteps, Places DEF ServeStep
<1>3. ASSUME NEW s \in Streams, NEW e \in Endpoints,
             Send(s, e) \/ CloseSendBegin(s, e) \/ CloseSendStep(s, e) \/ RecvStep(s, e) \/ PumpItem(s, e)
      PROVE  Flowing'
  BY <1>3, SendKeeps, MarkSteps, RecvKeeps, RecvPeace, PeaceFlows, PumpKeeps DEF RecvStep
<1>4. ASSUME NEW e \in Endpoints, ReadStep(e)
      PROVE  Flowing'
  <2>1. ASSUME NEW cause, StopReading(e, cause), UNCHANGED obj PROVE Flowing'
    <3>1. \A r \in Streams, d \in Endpoints : Settles(obj[r][d], obj'[r][d])
      BY <2>1, SettlesSame
    <3> QED
      BY <2>1, <3>1, StopKeeps, SMTT(200)
  <2>2. CASE ReadClose(e) \/ ReadEOF(e) \/ ReadError(e)
    BY <2>1, <2>2 DEF ReadClose, ReadEOF, ReadError
  <2>3. CASE (e = "client" /\ ReadAck) \/ ReadStreamEnd(e)
    BY <2>3, ReadPeace, PeaceFlows
  <2> QED
    BY <1>4, <2>2, <2>3, AcceptKeeps, DataKeeps, DeliverKeeps, CloseKeeps DEF ReadStep
<1>5. CASE (\E e \in Endpoints : Close(e)) \/ (\E t \in Threads : EndRelease(t)) \/ LoseLink \/ UNCHANGED vars
  BY <1>5, EndPeace, PeaceFlows
<1> QED
  BY <1>1, <1>2, <1>3, <1>4, <1>5 DEF Next

\* No direction has anything on its way at first.
LEMMA FlowInit == Init => Flowing
<1> SUFFICES ASSUME Init, NEW s \in Streams, NEW e \in Endpoints PROVE Flow(s, e)
  BY DEF Flowing
<1> PICK d \in Endpoints : d = Other(e)
  BY Places
<1>1. /\ obj[s][d] = newStream /\ obj[s][e] = newStream /\ sent[s][d] = 0 /\ received[s][e] = <<>>
      /\ rend[s][e] = "none" /\ delivering[e] = <<>> /\ wire[d] = <<>> /\ streams[e] = {}
      /\ opc[s] = "idle" /\ hpc[s] = "none"
  BY SMTT(200) DEF Init
<1>2. /\ newStream.inbound = <<>> /\ newStream.outbound = <<>> /\ newStream.csend = "no" /\ newStream.inb = "open"
  BY SMTT(200) DEF newStream
<1>3. Queued(<<>>, 0)
  <2>1. DataFirst(<<>>, 0, 0) /\ 0 \in Nat
    BY SMTT(200) DEF DataFirst
  <2> QED
    BY <2>1 DEF Queued
<1>4. \A S : <<>> \in Seq(S)
  BY SMTT(200)
<1>5. SendingOf(s, d)
  BY <1>1, <1>2, <1>3, <1>4 DEF SendingOf
<1>6. ReceivingOf(s, e)
  BY <1>1, <1>2, SMTT(200) DEF ReceivingOf, Delivers, Takes
<1> QED
  BY <1>5, <1>6 DEF Flow

\* What holds of the directions holds in every reachable state.
LEMMA FlowInvariant == Spec => []Flowing
<1>1. Base => Typed
  BY DEF Base
<1> QED
  BY <1>1, FlowInit, FlowNext, BaseInvariant, PTL DEF Spec

\* Recv returns the messages of a stream in the order in which the peer sent
\* them, none twice and none left out in between.
THEOREM OrderSafety == Spec => []InOrder
<1>1. Flowing => InOrder
  BY DEF Flowing, Flow, ReceivingOf, InOrder
<1> QED
  BY <1>1, FlowInvariant, PTL

\* Recv reports the end of a stream only after every message the peer sent on it.
THEOREM EndSafety == Spec => []EOFAfterEverything
<1>1. Typed /\ Flowing => EOFAfterEverything
  <2> SUFFICES ASSUME Typed, Flowing, NEW s \in Streams, NEW e \in Endpoints, rend[s][e] = "eof"
               PROVE  Len(received[s][e]) = sent[s][Other(e)]
    BY DEF EOFAfterEverything
  <2>1. ReceivingOf(s, e)
    BY DEF Flowing, Flow
  <2>2. obj[s][e].inbound = <<>> /\ Had(s, e) = sent[s][Other(e)]
    BY <2>1 DEF ReceivingOf
  <2>3. Had(s, e) = Len(received[s][e]) + Len(<<>>) /\ received[s][e] \in Seq(Nat)
    BY <2>2, DirectionTypes DEF Had
  <2>4. Had(s, e) = Len(received[s][e])
    BY <2>3, SMTT(200)
  <2> QED
    BY <2>2, <2>4
<1>2. Base => Typed
  BY DEF Base
<1> QED
  BY <1>1, <1>2, FlowInvariant, BaseInvariant, PTL
=============================================================================
