-------------------------- MODULE StreamEndProofs ---------------------------
(***************************************************************************)
(* Machine-checked proofs about Streams, continued: how a stream ends at   *)
(* the client, and what the client has of it by then.                      *)
(***************************************************************************)
EXTENDS StreamsProofs

USE ZenonT(200)

-----------------------------------------------------------------------------
(* How a stream ends at the client.                                          *)

\* The stream that a frame is for.
LEMMA ArrivingStream ==
    ASSUME Typed, NEW e \in Endpoints, NEW type \in {"OpenStream", "Ack", "Data", "CloseSend", "StreamEnd"},
           ArrivesAt(e, type)
    PROVE  Arriving(e).s \in Streams
<1>1. ConnType /\ type # "Close"
  BY DEF Typed
<1> QED
  BY <1>1, ArrivalType

\* A closed queue stays closed, and the first end is final.
EndsOnce(o, p) ==
    /\ p.inb = "final" => o.inb = "final" \/ p.fin # "none"
    /\ o.fin # "none" => p.fin = o.fin
    /\ o.inb # "open" => p.inb = o.inb
\* What is queued stays so.
Held(o, p) == p.inbound = o.inbound
\* An object is not ended by a failure.
EndsWell(o, p) == EndsOnce(o, p) /\ Held(o, p) /\ (p.fin = "failed" => o.fin = "failed")
AllEndWell == \A s \in Streams : EndsWell(obj[s]["client"], obj'[s]["client"])

\* The updates of an object.
LEMMA EndingWell ==
    ASSUME ObjType, NEW s \in Streams, NEW e \in Endpoints
    PROVE  /\ EndsWell(obj[s][e], obj[s][e])
           /\ \A err \in Errors : /\ EndsOnce(obj[s][e], finishStream(s, e, err)) /\ Held(obj[s][e], finishStream(s, e, err))
                                  /\ err # "failed" => EndsWell(obj[s][e], finishStream(s, e, err))
           /\ \A o \in BoundedObjects : EndsWell(obj[s][e], o) => EndsWell(obj[s][e], Unlocked(o))
           /\ EndsWell(obj[s][e], closeInboundHalf(obj[s][e]))
<1> USE DEF EndsWell, EndsOnce, Held
<1> obj[s][e] \in StreamObjects
  BY DEF ObjType, BoundedObjects
<1> ASSUME NEW err \in Errors
    PROVE  /\ EndsOnce(obj[s][e], finishStream(s, e, err)) /\ Held(obj[s][e], finishStream(s, e, err))
           /\ err # "failed" => EndsWell(obj[s][e], finishStream(s, e, err))
  BY FinishSettles DEF Settles
<1> ASSUME NEW o \in BoundedObjects, EndsWell(obj[s][e], o) PROVE EndsWell(obj[s][e], Unlocked(o))
  <2>1. o \in StreamObjects
    BY DEF BoundedObjects
  <2>2. /\ Unlocked(o).fin = o.fin /\ Unlocked(o).inbound = o.inbound
        /\ Unlocked(o).inb = o.inb \/ (o.fin # "none" /\ o.inb = "open")
    BY <2>1 DEF Unlocked, closeInboundFinal, StreamObjects
  <2> QED
    BY <2>2
<1>1. EndsWell(obj[s][e], closeInboundHalf(obj[s][e]))
  <2>1. /\ closeInboundHalf(obj[s][e]).fin = obj[s][e].fin /\ closeInboundHalf(obj[s][e]).inbound = obj[s][e].inbound
        /\ \/ closeInboundHalf(obj[s][e]).inb = obj[s][e].inb
           \/ obj[s][e].inb = "open" /\ closeInboundHalf(obj[s][e]).inb = "half"
    BY DEF closeInboundHalf, StreamObjects
  <2> QED
    BY <2>1
<1> QED
  BY <1>1

\* One object is replaced.
LEMMA EndsOne ==
    ASSUME ObjType, NEW r \in Streams, NEW e \in Endpoints, NEW p, obj' = [obj EXCEPT ![r][e] = p],
           e # "client" \/ EndsWell(obj[r][e], p)
    PROVE  AllEndWell
<1> SUFFICES ASSUME NEW s \in Streams PROVE EndsWell(obj[s]["client"], obj'[s]["client"])
  BY DEF AllEndWell
<1> obj'[r][e] = p /\ (s # r \/ e # "client" => obj'[s]["client"] = obj[s]["client"])
  BY Places DEF ObjType
<1> CASE s # r \/ e # "client"
  BY EndingWell, Places
<1> CASE s = r /\ e = "client"
  OBVIOUS
<1> QED
  OBVIOUS

\* No object changes.
LEMMA EndsNone == ObjType /\ UNCHANGED obj => AllEndWell
  BY EndingWell, Places DEF AllEndWell

\* Steps of OpenStream and of the goroutine that follows the caller's context.
LEMMA EndsClient ==
    ASSUME Typed, NEW r \in Streams,
           OpenCheck(r) \/ CancelCaller(r) \/ (OpenStep(r) /\ ~OpenSettled(r)) \/ FollowStep(r)
    PROVE  AllEndWell
<1> ObjType /\ "client" \in Endpoints /\ "canceled" \in Errors /\ "broken" \in Errors
  BY Places, ErrorTypes DEF Typed
<1> CASE UNCHANGED obj
  BY EndsNone
<1> CASE OpenCancelled(r) \/ Follow(r)
  <2>1. obj' = [obj EXCEPT ![r]["client"] = finishStream(r, "client", "canceled")]
    BY DEF OpenCancelled, Follow
  <2>2. EndsWell(obj[r]["client"], finishStream(r, "client", "canceled"))
    BY EndingWell
  <2> QED
    BY <2>1, <2>2, EndsOne
<1> CASE OpenWrite(r)
  <2> PICK q \in {obj[r]["client"], finishStream(r, "client", "broken")} :
          obj' = [obj EXCEPT ![r]["client"] = [q EXCEPT !.pump = "running"]]
    BY DEF OpenWrite
  <2> EndsWell(obj[r]["client"], q) /\ q \in StreamObjects
    <3>1. EndsWell(obj[r]["client"], obj[r]["client"]) /\ obj[r]["client"] \in StreamObjects
      BY EndingWell DEF ObjType, BoundedObjects
    <3>2. EndsWell(obj[r]["client"], finishStream(r, "client", "broken"))
      BY EndingWell
    <3>3. finishStream(r, "client", "broken") \in StreamObjects
      BY FinishSettles DEF BoundedObjects
    <3> QED
      BY <3>1, <3>2, <3>3
  <2> DEFINE p == [q EXCEPT !.pump = "running"]
  <2>1. p.inb = q.inb /\ p.fin = q.fin /\ p.inbound = q.inbound
    BY DEF StreamObjects
  <2>2. obj' = [obj EXCEPT ![r]["client"] = p]
    OBVIOUS
  <2> HIDE DEF p
  <2>3. EndsWell(obj[r]["client"], p)
    BY <2>1 DEF EndsWell, EndsOnce, Held
  <2> QED
    BY <2>2, <2>3, EndsOne
<1> QED
  BY DEF OpenCheck, CancelCaller, OpenStep, OpenNotify, OpenReturn, FollowStep, FollowFind, FollowNotify

\* Steps of a serving goroutine.
LEMMA EndsServer ==
    ASSUME Typed, NEW r \in Streams, HandlerReturn(r) \/ (ServeStep(r) /\ ~CloseSendBegin(r, "server"))
    PROVE  AllEndWell
<1> ObjType /\ "server" \in Endpoints /\ "server" # "client"
  BY Places DEF Typed
<1>1. UNCHANGED obj \/ \E p : obj' = [obj EXCEPT ![r]["server"] = p]
  BY DEF HandlerReturn, ServeStep, FlushEnqueue, HandlerClosed, HandlerFlushed, HandlerFlushCancelled, HandlerFinish,
         HandlerEnd, HandlerRelease
<1> QED
  BY <1>1, EndsOne, EndsNone

\* Steps at an end of a stream.
LEMMA EndsOwn ==
    ASSUME Typed, terminal["client"] # "failed", NEW r \in Streams, NEW e \in Endpoints,
           \/ Send(r, e) \/ CloseSendBegin(r, e) \/ CloseSendStep(r, e) \/ RecvEnd(r, e) \/ RecvCancelled(r, e)
           \/ PumpItem(r, e)
    PROVE  AllEndWell
<1> DEFINE o == obj[r][e]
<1> ObjType /\ o \in StreamObjects
  BY DEF Typed, ObjType, BoundedObjects
<1>1. ASSUME NEW p, obj' = [obj EXCEPT ![r][e] = p], p.inb = o.inb, p.fin = o.fin, p.inbound = o.inbound PROVE AllEndWell
  <2> USE <1>1
  <2>1. EndsWell(o, p)
    BY DEF EndsWell, EndsOnce, Held
  <2> QED
    BY <2>1, EndsOne
<1> CASE PumpItem(r, e)
  <2>1. PICK p : PumpTakes(r, e, p)
    BY PumpEffect
  <2>2. obj' = [obj EXCEPT ![r][e] = p] /\ p.inb = o.inb /\ p.fin = o.fin /\ p.inbound = o.inbound
    BY <2>1 DEF PumpTakes
  <2> QED
    BY <1>1, <2>2
<1> CASE RecvEnd(r, e)
  BY EndsNone DEF RecvEnd
<1> CASE RecvCancelled(r, e)
  <2> PICK err : /\ err = IF ended[e] THEN terminal[e] ELSE "canceled"
                 /\ obj' = [obj EXCEPT ![r][e] = finishStream(r, e, err)]
    BY DEF RecvCancelled, settleCancelled
  <2> err \in Errors
    BY ErrorTypes DEF Typed, SessType
  <2>1. e = "client" => err # "failed"
    OBVIOUS
  <2>2. e # "client" \/ EndsWell(obj[r][e], finishStream(r, e, err))
    BY <2>1, EndingWell
  <2> QED
    BY <2>2, EndsOne
<1> CASE CloseSendBegin(r, e) \/ CloseSendWritten(r, e) \/ CloseSendCancelled(r, e)
  <2>1. PICK v : obj' = [obj EXCEPT ![r][e] = [o EXCEPT !.csend = v]]
    BY DEF CloseSendBegin, CloseSendWritten, CloseSendCancelled
  <2> DEFINE p == [o EXCEPT !.csend = v]
  <2>2. p.inb = o.inb /\ p.fin = o.fin /\ p.inbound = o.inbound
    BY DEF StreamObjects
  <2>3. obj' = [obj EXCEPT ![r][e] = p]
    BY <2>1
  <2> HIDE DEF p
  <2> QED
    BY <1>1, <2>2, <2>3
<1> CASE Send(r, e)
  <2>1. PICK q : obj' = [obj EXCEPT ![r][e] = [o EXCEPT !.outbound = q]]
    BY DEF Send
  <2> DEFINE p == [o EXCEPT !.outbound = q]
  <2>2. p.inb = o.inb /\ p.fin = o.fin /\ p.inbound = o.inbound
    BY DEF StreamObjects
  <2>3. obj' = [obj EXCEPT ![r][e] = p]
    BY <2>1
  <2> HIDE DEF p
  <2> QED
    BY <1>1, <2>2, <2>3
<1> CASE CloseSendEnqueue(r, e)
  <2> DEFINE p == [enqueued(o, "close") EXCEPT !.csend = "await"]
  <2>1. obj' = [obj EXCEPT ![r][e] = p]
    BY DEF CloseSendEnqueue
  <2>2. p.inb = o.inb /\ p.fin = o.fin /\ p.inbound = o.inbound
    BY DEF StreamObjects, enqueued
  <2> HIDE DEF p
  <2> QED
    BY <1>1, <2>1, <2>2
<1> QED
  BY DEF CloseSendStep

\* Recv takes a message.
LEMMA EndsTaken ==
    ASSUME Typed, NEW r \in Streams, NEW e \in Endpoints, RecvMessage(r, e), NEW s \in Streams
    PROVE  LET o == obj[s]["client"]
               p == obj'[s]["client"]
           IN EndsWell(o, p) \/ (EndsOnce(o, p) /\ p.fin = o.fin /\ RecvMessage(s, "client"))
<1> DEFINE o == obj[r][e]
           p == [o EXCEPT !.inbound = Tail(o.inbound)]
<1> ObjType /\ o \in StreamObjects
  BY DEF Typed, ObjType, BoundedObjects
<1>1. obj' = [obj EXCEPT ![r][e] = p]
  BY DEF RecvMessage
<1>2. p.inb = o.inb /\ p.fin = o.fin
  BY DEF StreamObjects
<1> HIDE DEF p
<1> obj'[r][e] = p /\ (s # r \/ e # "client" => obj'[s]["client"] = obj[s]["client"])
  BY <1>1, Places DEF ObjType
<1> CASE s # r \/ e # "client"
  BY EndingWell, Places
<1> CASE s = r /\ e = "client"
  BY <1>2 DEF EndsOnce
<1> QED
  OBVIOUS

\* Steps of a read loop.
LEMMA EndsRead ==
    ASSUME Typed, Locks, NEW e \in Endpoints, ReadStep(e), ~ReadStreamEnd("client"),
           ~Deliver("client"), ~DeliverBlocked("client")
    PROVE  AllEndWell
<1> ObjType
  BY DEF Typed
<1>1. CASE UNCHANGED obj
  BY <1>1, EndsNone
<1> CASE e = "server"
  <2>1. ASSUME NEW s \in Streams, NEW p, obj' = [obj EXCEPT ![s]["server"] = p] PROVE AllEndWell
    BY <2>1, EndsOne
  <2> CASE ReadStreamEnd("server") \/ ReadCloseSend("server") \/ ReadOpenStream
    <3>1. PICK type \in {"OpenStream", "CloseSend", "StreamEnd"} : ArrivesAt("server", type)
      BY DEF ReadStreamEnd, ReadCloseSend, ReadOpenStream
    <3> PICK s \in Streams : s = Arriving("server").s
      BY <3>1, ArrivingStream
    <3> CASE ReadStreamEnd("server")
      BY <1>1, <2>1 DEF ReadStreamEnd
    <3> CASE ReadCloseSend("server")
      BY <1>1, <2>1 DEF ReadCloseSend
    <3> CASE ReadOpenStream
      BY <1>1, <2>1 DEF ReadOpenStream
    <3> QED
      OBVIOUS
  <2> CASE Deliver("server") \/ DeliverBlocked("server")
    <3>1. delivering \in [Endpoints -> {<<>>} \cup (Streams \X Nat)] /\ delivering["server"] # <<>>
      BY DEF Typed, ReadType, Locks, Delivery, Deliver, DeliverBlocked
    <3> PICK s \in Streams : s = delivering["server"][1]
      BY <3>1, SMTT(200)
    <3> CASE HandOver("server") \/ HandOverFails("server")
      BY <2>1 DEF HandOver, HandOverFails
    <3> QED
      BY <1>1, <2>1 DEF Deliver, DeliverBlocked
  <2> QED
    BY <1>1 DEF ReadStep, ReadData, ReadClose, ReadEOF, ReadError
<1> CASE ReadCloseSend("client") /\ ~UNCHANGED obj
  <2> ArrivesAt("client", "CloseSend") /\ "client" \in Endpoints
    BY Places DEF ReadCloseSend
  <2>1. PICK s \in Streams : s = Arriving("client").s
    BY ArrivingStream
  <2>2. obj' = [obj EXCEPT ![s]["client"] = closeInboundHalf(obj[s]["client"])]
    BY <2>1 DEF ReadCloseSend
  <2>3. EndsWell(obj[s]["client"], closeInboundHalf(obj[s]["client"]))
    BY EndingWell
  <2> QED
    BY <2>2, <2>3, EndsOne
<1> QED
  BY <1>1 DEF ReadStep, ReadData, ReadAck, ReadClose, ReadEOF, ReadError, Endpoints

\* Nothing but end() sets the error of a session.
LEMMA Terminals == [Next]_vars => UNCHANGED terminal \/ \E t \in Threads : EndRelease(t)
<1> SUFFICES ASSUME [Next]_vars PROVE UNCHANGED terminal \/ \E t \in Threads : EndRelease(t)
  OBVIOUS
<1> ASSUME NEW s \in Streams, OpenCheck(s) \/ CancelCaller(s) \/ OpenStep(s) \/ FollowStep(s)
    PROVE  UNCHANGED terminal
  BY DEF OpenCheck, CancelCaller, OpenStep, OpenWrite, OpenSettled, OpenCancelled, OpenNotify, OpenReturn, FollowStep,
         FollowFind, Follow, FollowNotify, engineVars, sessionVars, sessVars
<1> ASSUME NEW s \in Streams, NEW e \in Endpoints,
           Send(s, e) \/ CloseSendBegin(s, e) \/ CloseSendStep(s, e) \/ RecvStep(s, e) \/ PumpItem(s, e)
    PROVE  UNCHANGED terminal
  BY DEF Send, CloseSendBegin, CloseSendStep, CloseSendEnqueue, CloseSendWritten, CloseSendCancelled, objOnly,
         RecvStep, RecvMessage, RecvEnd, RecvCancelled, PumpItem, engineVars, sessionVars, sessVars
<1> ASSUME NEW s \in Streams, HandlerReturn(s) \/ ServeStep(s)
    PROVE  UNCHANGED terminal
  BY DEF HandlerReturn, ServeStep, CloseSendBegin, objOnly, FlushEnqueue, HandlerClosed, HandlerFlushed,
         HandlerFlushCancelled, HandlerFinish, HandlerEnd, HandlerRelease, engineVars, sessionVars, sessVars
<1> ASSUME NEW e \in Endpoints, ReadStep(e) \/ Close(e)
    PROVE  UNCHANGED terminal
  BY DEF ReadStep, ReadOpenStream, ReadAck, ReadData, Deliver, DeliverBlocked, HandOver, HandOverFails, ReadCloseSend,
         ReadStreamEnd, ReadClose, ReadEOF, ReadError, StopReading, Close, sessionVars, sessVars
<1> QED
  BY DEF Next, LoseLink, vars, engineVars, sessionVars, sessVars

\* The read loop hands a message over.
Handed(s) ==
    LET o == obj[s]["client"]
        p == obj'[s]["client"]
    IN /\ Delivers(s, "client") /\ delivering'["client"] = <<>> /\ UNCHANGED <<wire, received>>
       /\ o.inb = "open" /\ p.inbound = Append(o.inbound, delivering["client"][2])

\* deliver puts the message in hand on an open queue.
LEMMA EndsHanded ==
    ASSUME Typed, delivering["client"] # <<>>, HandOver("client"),
           obj[delivering["client"][1]]["client"].inb = "open", NEW s \in Streams
    PROVE  LET o == obj[s]["client"]
               p == obj'[s]["client"]
           IN IF s = delivering["client"][1] THEN EndsOnce(o, p) /\ p.fin = o.fin /\ Handed(s) ELSE EndsWell(o, p)
<1>1. ObjType /\ "client" \in Endpoints /\ delivering \in [Endpoints -> {<<>>} \cup (Streams \X Nat)]
  BY Places DEF Typed, ReadType
<1>2. PICK r \in Streams : r = delivering["client"][1]
  BY <1>1, SMTT(200)
<1>3. PICK n \in Nat : n = delivering["client"][2]
  BY <1>1, SMTT(200)
<1> DEFINE o == obj[r]["client"]
           q == [o EXCEPT !.inbound = Append(o.inbound, n)]
<1>4. obj' = [obj EXCEPT ![r]["client"] = Unlocked(q)] /\ o.inb = "open" /\ UNCHANGED <<wire, received>>
  BY <1>2, <1>3 DEF HandOver, connVars, appVars
<1>5. delivering'["client"] = <<>>
  BY <1>1 DEF HandOver
<1>6. o \in BoundedObjects /\ o \in StreamObjects /\ Len(o.inbound) < MaxStreamQueueDepth
  BY <1>1, <1>2 DEF ObjType, BoundedObjects, HandOver
<1>7. q \in BoundedObjects /\ q.inb = o.inb /\ q.fin = o.fin /\ q.inbound = Append(o.inbound, n)
  BY <1>6, ObjectUpdates DEF StreamObjects
<1> HIDE DEF q
<1>8. /\ Unlocked(q).fin = o.fin /\ Unlocked(q).inbound = Append(o.inbound, n)
      /\ Unlocked(q).inb = o.inb \/ o.fin # "none"
  <2>1. q \in StreamObjects
    BY <1>7 DEF BoundedObjects
  <2> QED
    BY <1>7, <2>1 DEF Unlocked, closeInboundFinal, StreamObjects
<1>9. obj'[r]["client"] = Unlocked(q) /\ (s # r => obj'[s]["client"] = obj[s]["client"])
  BY <1>1, <1>4 DEF ObjType
<1>10. CASE s # r
  BY <1>1, <1>2, <1>9, <1>10, EndingWell
<1>11. CASE s = r
  <2>1. EndsOnce(o, Unlocked(q))
    BY <1>4, <1>8 DEF EndsOnce
  <2>2. Handed(s)
    BY <1>1, <1>2, <1>3, <1>4, <1>5, <1>8, <1>9, <1>11 DEF Handed, Delivers
  <2> QED
    BY <1>2, <1>8, <1>9, <1>11, <2>1, <2>2
<1> QED
  BY <1>10, <1>11

\* Steps of deliver.
LEMMA EndsDelivered ==
    ASSUME Typed, Locks, Deliver("client") \/ DeliverBlocked("client"), NEW s \in Streams
    PROVE  LET o == obj[s]["client"]
               p == obj'[s]["client"]
           IN EndsWell(o, p) \/ (EndsOnce(o, p) /\ p.fin = o.fin /\ Handed(s))
<1> /\ ObjType /\ "client" \in Endpoints /\ delivering["client"] # <<>>
    /\ delivering \in [Endpoints -> {<<>>} \cup (Streams \X Nat)]
  BY Places DEF Typed, ReadType, Locks, Delivery, Deliver, DeliverBlocked
<1> PICK r \in Streams : r = delivering["client"][1]
  BY SMTT(200)
<1> DEFINE o == obj[r]["client"]
<1> o \in BoundedObjects /\ o \in StreamObjects /\ "tooLarge" \in Errors
  BY ErrorTypes DEF ObjType, BoundedObjects
<1> CASE UNCHANGED obj
  BY EndsNone DEF AllEndWell
<1> CASE obj' = [obj EXCEPT ![r]["client"] = finishStream(r, "client", "tooLarge")]
  <2>1. EndsWell(o, finishStream(r, "client", "tooLarge"))
    BY EndingWell
  <2> QED
    BY <2>1, EndsOne DEF AllEndWell
<1> CASE HandOverFails("client")
  <2>1. obj' = [obj EXCEPT ![r]["client"] = Unlocked(o)]
    BY DEF HandOverFails
  <2>2. EndsWell(o, Unlocked(o))
    BY EndingWell
  <2> QED
    BY <2>1, <2>2, EndsOne DEF AllEndWell
<1> CASE HandOver("client") /\ o.inb = "open"
  BY EndsHanded
<1>1. reader["client"] = "blocked" => o.inb = "open"
  BY DEF Locks, DeliverOnOpenQueue
<1> QED
  BY <1>1 DEF Deliver, DeliverBlocked

\* The peer's report of a failure ends the stream.
Reports(s) ==
    /\ ReadStreamEnd("client") /\ Arriving("client").s = s /\ Arriving("client").status = "failed"
    /\ s \in streams["client"] /\ obj' = [obj EXCEPT ![s]["client"] = finishStream(s, "client", "failed")]

\* end() reports no failure of a handler.
LEMMA EndsAll ==
    ASSUME Typed, terminal["client"] # "failed", NEW t \in Threads, EndRelease(t)
    PROVE  AllEndWell /\ terminal'["client"] # "failed"
<1> ObjType /\ Home(t) \in Endpoints /\ "client" \in Endpoints
  BY Places DEF Typed
<1> PICK cause \in Causes : cause = ending[t]
  BY DEF EndRelease, Ready, Typed, EndType
<1> /\ streamCause(cause) \in Errors /\ streamCause(cause) # "failed" /\ terminalOf(cause) # "failed"
  <2>1. streamCause(cause) \in Errors
    BY ErrorTypes
  <2>2. streamCause(cause) # "failed" /\ terminalOf(cause) # "failed"
    BY SMTT(200) DEF streamCause, terminalOf, Causes
  <2> QED
    BY <2>1, <2>2
<1>1. terminal' = [terminal EXCEPT ![Home(t)] = IF ended[Home(t)] THEN terminal[Home(t)] ELSE terminalOf(cause)]
  BY DEF EndRelease
<1>2. terminal'["client"] # "failed"
  BY <1>1 DEF Typed, SessType
<1>3. obj' = finishStreams(Home(t), streamCause(cause))
  BY DEF EndRelease
<1> ASSUME NEW s \in Streams PROVE EndsWell(obj[s]["client"], obj'[s]["client"])
  <2> DEFINE p == finishStream(s, Home(t), streamCause(cause))
  <2>1. /\ EndsWell(obj[s]["client"], obj[s]["client"])
        /\ Home(t) = "client" => EndsWell(obj[s]["client"], p)
    BY EndingWell
  <2>2. obj'[s]["client"] = obj[s]["client"] \/ (Home(t) = "client" /\ obj'[s]["client"] = p)
    <3>1. obj'[s] = IF s \in streams[Home(t)] THEN [obj[s] EXCEPT ![Home(t)] = p] ELSE obj[s]
      BY <1>3 DEF finishStreams
    <3> HIDE DEF p
    <3> QED
      BY <3>1 DEF ObjType
  <2> HIDE DEF p
  <2> QED
    BY <2>1, <2>2
<1> QED
  BY <1>2 DEF AllEndWell

\* The answer to a pending OpenStream.
LEMMA EndsSettled ==
    ASSUME Base, NEW r \in Streams, OpenSettled(r), NEW s \in Streams
    PROVE  LET o == obj[s]["client"]
               p == obj'[s]["client"]
           IN EndsWell(o, p) \/ (opc'[s] = "failed" /\ EndsOnce(o, p) /\ Held(o, p))
<1> Typed /\ ObjType /\ Opening /\ "client" \in Endpoints
  BY Places DEF Base, Typed
<1> CASE UNCHANGED obj
  BY EndsNone DEF AllEndWell
<1> CASE ~UNCHANGED obj
  <2> PICK err : /\ err = Head(accepted[r]) /\ err # "ok" /\ accepted[r] # <<>>
                 /\ opc' = [opc EXCEPT ![r] = "failed"]
                 /\ obj' = [obj EXCEPT ![r]["client"] = finishStream(r, "client", err)]
    BY DEF OpenSettled
  <2>1. accepted[r] \in Seq(Errors \cup {"ok"})
    BY DEF Typed, OpenType
  <2>2. err \in Errors
    <3>1. err \in Errors \cup {"ok"}
      BY <2>1, FirstIn
    <3> QED
      BY <3>1
  <2>3. opc'[r] = "failed" /\ obj'[r]["client"] = finishStream(r, "client", err)
    BY DEF Typed, OpenType, ObjType
  <2>4. EndsOnce(obj[r]["client"], finishStream(r, "client", err)) /\ Held(obj[r]["client"], finishStream(r, "client", err))
    BY <2>2, EndingWell
  <2> CASE s = r
    BY <2>3, <2>4
  <2> CASE s # r
    <3>1. obj'[s]["client"] = obj[s]["client"]
      BY DEF ObjType
    <3> QED
      BY <3>1, EndingWell
  <2> QED
    OBVIOUS
<1> QED
  OBVIOUS

\* A terminal frame for the client.
LEMMA EndsReported ==
    ASSUME Typed, ReadStreamEnd("client"), NEW s \in Streams
    PROVE  LET o == obj[s]["client"]
               p == obj'[s]["client"]
           IN EndsWell(o, p) \/ (Reports(s) /\ EndsOnce(o, p) /\ Held(o, p))
<1> ObjType /\ "client" \in Endpoints /\ ConnType
  BY Places DEF Typed
<1> CASE UNCHANGED obj
  BY EndsNone DEF AllEndWell
<1> CASE ~UNCHANGED obj
  <2> ArrivesAt("client", "StreamEnd")
    BY DEF ReadStreamEnd
  <2> PICK r \in Streams : r = Arriving("client").s
    BY ArrivingStream
  <2> PICK status \in Statuses : status = Arriving("client").status
    <3>1. PICK type : type = "StreamEnd" /\ type # "Close" /\ ArrivesAt("client", type)
      OBVIOUS
    <3> QED
      BY <3>1, ArrivalType
  <2> PICK err : /\ err = IF status = "ok" THEN "closed" ELSE status
                 /\ r \in streams["client"] /\ obj' = [obj EXCEPT ![r]["client"] = finishStream(r, "client", err)]
    BY DEF ReadStreamEnd
  <2> err \in Errors /\ (err = "failed" => status = "failed")
    BY ErrorTypes
  <2> CASE s # r
    <3>1. obj'[s]["client"] = obj[s]["client"]
      BY DEF ObjType
    <3> QED
      BY <3>1, EndingWell
  <2> CASE s = r /\ err = "failed"
    <3>1. Reports(s)
      BY DEF Reports
    <3>2. obj'[s]["client"] = finishStream(s, "client", err)
      BY DEF ObjType
    <3>3. EndsOnce(obj[s]["client"], finishStream(s, "client", err)) /\ Held(obj[s]["client"], finishStream(s, "client", err))
      BY EndingWell
    <3> QED
      BY <3>1, <3>2, <3>3
  <2> CASE err # "failed"
    <3>1. EndsWell(obj[r]["client"], finishStream(r, "client", err))
      BY EndingWell
    <3> QED
      BY <3>1, EndsOne DEF AllEndWell
  <2> QED
    OBVIOUS
<1> QED
  OBVIOUS

\* How a stream comes to its end at the client.
LEMMA EndsHow ==
    ASSUME Base, terminal["client"] # "failed", [Next]_vars, NEW s \in Streams
    PROVE  LET o == obj[s]["client"]
               p == obj'[s]["client"]
           IN /\ EndsOnce(o, p)
              /\ p.fin = "failed" => o.fin = "failed" \/ opc'[s] = "failed" \/ Reports(s)
              /\ Held(o, p) \/ RecvMessage(s, "client") \/ Handed(s)
              /\ terminal'["client"] # "failed"
<1> DEFINE o == obj[s]["client"]
           p == obj'[s]["client"]
<1> Typed /\ Locks /\ ObjType
  BY DEF Base, Typed
<1> CASE \E t \in Threads : EndRelease(t)
  BY EndsAll DEF AllEndWell, EndsWell
<1> CASE ~\E t \in Threads : EndRelease(t)
  <2>1. terminal' = terminal
    <3>1. ~UNCHANGED terminal => \E t \in Threads : EndRelease(t)
      BY Terminals
    <3> QED
      BY <3>1
  <2>2. \/ EndsWell(o, p)
        \/ EndsOnce(o, p) /\ Held(o, p) /\ (opc'[s] = "failed" \/ Reports(s))
        \/ EndsOnce(o, p) /\ p.fin = o.fin /\ (RecvMessage(s, "client") \/ Handed(s))
    <3>1. CASE AllEndWell
      BY <3>1 DEF AllEndWell
    <3> CASE \E r \in Streams : OpenSettled(r)
      BY EndsSettled
    <3>2. CASE ReadStreamEnd("client")
      BY <3>2, EndsReported
    <3> CASE \E r \in Streams : OpenCheck(r) \/ CancelCaller(r) \/ (OpenStep(r) /\ ~OpenSettled(r)) \/ FollowStep(r)
      BY <3>1, EndsClient
    <3> CASE \E r \in Streams : HandlerReturn(r) \/ ServeStep(r)
      BY <3>1, EndsServer, EndsOwn, Places
    <3> CASE \E r \in Streams, e \in Endpoints :
                 Send(r, e) \/ CloseSendBegin(r, e) \/ CloseSendStep(r, e) \/ RecvStep(r, e) \/ PumpItem(r, e)
      BY <3>1, EndsOwn, EndsTaken DEF RecvStep
    <3> CASE \E e \in Endpoints : ReadStep(e)
      <4> PICK e \in Endpoints : ReadStep(e)
        OBVIOUS
      <4> CASE Deliver("client") \/ DeliverBlocked("client")
        BY EndsDelivered
      <4> CASE ~ReadStreamEnd("client") /\ ~Deliver("client") /\ ~DeliverBlocked("client")
        BY <3>1, EndsRead
      <4> QED
        BY <3>2
    <3> CASE (\E e \in Endpoints : Close(e)) \/ LoseLink \/ UNCHANGED vars
      <4>1. UNCHANGED obj
        BY DEF Close, LoseLink, vars
      <4> QED
        BY <3>1, <4>1, EndsNone
    <3> QED
      BY DEF Next
  <2> QED
    BY <2>1, <2>2 DEF EndsWell
<1> QED
  OBVIOUS

\* The steps of the applications, and those of OpenStream.
LEMMA AppSteps ==
    ASSUME [Next]_vars
    PROVE  /\ UNCHANGED sent \/ \E r \in Streams, e \in Endpoints : Send(r, e)
           /\ UNCHANGED received \/ \E r \in Streams, e \in Endpoints : RecvMessage(r, e)
           /\ UNCHANGED rend \/ \E r \in Streams, e \in Endpoints : RecvEnd(r, e) \/ RecvCancelled(r, e)
           /\ UNCHANGED opc \/ \E r \in Streams : OpenCheck(r) \/ OpenStep(r)
<1>1. ASSUME NEW s \in Streams, OpenCheck(s) \/ CancelCaller(s) \/ OpenStep(s) \/ FollowStep(s)
      PROVE  UNCHANGED appVars /\ (UNCHANGED opc \/ OpenCheck(s) \/ OpenStep(s))
  BY <1>1 DEF OpenCheck, CancelCaller, OpenStep, OpenWrite, OpenSettled, OpenCancelled, OpenNotify, OpenReturn,
              FollowStep, FollowFind, Follow, FollowNotify
<1> ASSUME NEW s \in Streams, NEW e \in Endpoints, CloseSendBegin(s, e) \/ CloseSendStep(s, e) \/ PumpItem(s, e)
    PROVE  UNCHANGED <<appVars, opc>>
  BY DEF CloseSendBegin, CloseSendStep, CloseSendEnqueue, CloseSendWritten, CloseSendCancelled, objOnly, PumpItem,
         openVars
<1> ASSUME NEW s \in Streams, HandlerReturn(s) \/ ServeStep(s)
    PROVE  UNCHANGED <<appVars, opc>>
  BY DEF HandlerReturn, ServeStep, CloseSendBegin, objOnly, FlushEnqueue, HandlerClosed, HandlerFlushed,
         HandlerFlushCancelled, HandlerFinish, HandlerEnd, HandlerRelease, openVars
<1> ASSUME NEW e \in Endpoints, ReadStep(e) \/ Close(e)
    PROVE  UNCHANGED <<appVars, opc>>
  BY DEF ReadStep, ReadOpenStream, ReadAck, ReadData, Deliver, DeliverBlocked, HandOver, HandOverFails, ReadCloseSend,
         ReadStreamEnd, ReadClose, ReadEOF, ReadError, StopReading, Close, openVars
<1> CASE (\E t \in Threads : EndRelease(t)) \/ LoseLink \/ UNCHANGED vars
  BY DEF EndRelease, LoseLink, vars, appVars, openVars
<1>2. ASSUME NEW s \in Streams, NEW e \in Endpoints, Send(s, e) \/ RecvStep(s, e)
      PROVE  /\ UNCHANGED opc
             /\ UNCHANGED sent \/ Send(s, e)
             /\ UNCHANGED received \/ RecvMessage(s, e)
             /\ UNCHANGED rend \/ RecvEnd(s, e) \/ RecvCancelled(s, e)
  BY <1>2 DEF Send, RecvStep, RecvMessage, RecvEnd, RecvCancelled, openVars
<1> UNCHANGED appVars => UNCHANGED <<sent, received, rend>>
  BY DEF appVars
<1> CASE \E s \in Streams, e \in Endpoints : Send(s, e) \/ RecvStep(s, e)
  BY <1>2
<1> CASE \E s \in Streams : OpenCheck(s) \/ CancelCaller(s) \/ OpenStep(s) \/ FollowStep(s)
  BY <1>1
<1> CASE UNCHANGED <<appVars, opc>>
  OBVIOUS
<1> QED
  BY DEF Next

\* A failed OpenStream is over, and a handler sends only while it runs.
LEMMA OverForGood ==
    ASSUME Typed, Opening, [Next]_vars, NEW s \in Streams
    PROVE  /\ opc[s] = "failed" => opc'[s] = "failed"
           /\ hpc[s] \notin {"none", "running"} => hpc'[s] \notin {"none", "running"} /\ sent'[s]["server"] = sent[s]["server"]
<1>1. opc[s] = "failed" => opc'[s] = "failed"
  <2> ASSUME NEW r \in Streams, OpenCheck(r) \/ OpenStep(r) PROVE opc[s] = "failed" => opc'[s] = "failed"
    <3>1. PICK to : opc[r] # "failed" /\ opc' = [opc EXCEPT ![r] = to]
      BY DEF OpenCheck, OpenStep, OpenWrite, OpenSettled, OpenCancelled, OpenNotify, OpenReturn
    <3> QED
      BY <3>1 DEF Typed, OpenType
  <2> QED
    BY AppSteps
<1> ASSUME hpc[s] # "running" PROVE sent'[s]["server"] = sent[s]["server"]
  <2> ASSUME NEW r \in Streams, NEW e \in Endpoints, Send(r, e) PROVE sent'[s]["server"] = sent[s]["server"]
    <3> sent' = [sent EXCEPT ![r][e] = @ + 1] /\ Holds(r, e)
      BY DEF Send
    <3>1. r # s \/ e # "server"
      BY Places DEF Holds
    <3> QED
      BY <3>1, Places DEF Typed, AppType
  <2> QED
    BY AppSteps
<1> QED
  BY <1>1, OpenedForGood

\* Recv reports the end that the stream came to.
LEMMA ReportHow ==
    ASSUME Base, terminal["client"] # "failed", [Next]_vars, NEW s \in Streams,
           rend'[s]["client"] = "failed", rend[s]["client"] # "failed"
    PROVE  obj[s]["client"].fin = "failed" /\ obj[s]["client"].inbound = <<>> /\ opc[s] = "established"
<1> Typed /\ ObjType /\ "client" \in Endpoints /\ rend \in [Streams -> [Endpoints -> Errors \cup {"none", "eof"}]]
  BY Places DEF Base, Typed, AppType
<1> PICK r \in Streams, e \in Endpoints : RecvEnd(r, e) \/ RecvCancelled(r, e)
  BY AppSteps
<1>1. \E v : rend' = [rend EXCEPT ![r][e] = v]
  BY DEF RecvEnd, RecvCancelled
<1> r = s /\ e = "client"
  BY <1>1
<1> opc[s] = "established" /\ obj[s]["client"].inbound = <<>>
  BY DEF RecvEnd, RecvCancelled, Holds
<1> CASE RecvEnd(s, "client")
  <2>1. rend' = [rend EXCEPT ![s]["client"] = IF obj[s]["client"].inb = "half" THEN "eof" ELSE obj[s]["client"].fin]
    BY DEF RecvEnd
  <2>2. rend'[s]["client"] = IF obj[s]["client"].inb = "half" THEN "eof" ELSE obj[s]["client"].fin
    BY <2>1
  <2> QED
    BY <2>2
<1> CASE RecvCancelled(s, "client")
  <2> PICK err : /\ err = IF ended["client"] THEN terminal["client"] ELSE "canceled"
                 /\ settleCancelled(s, "client") = finishStream(s, "client", err)
    BY DEF settleCancelled
  <2>1. err \in Errors /\ err # "failed"
    BY ErrorTypes DEF Typed, SessType
  <2>2. rend' = [rend EXCEPT ![s]["client"] = finishStream(s, "client", err).fin]
    BY DEF RecvCancelled
  <2>3. rend'[s]["client"] = finishStream(s, "client", err).fin
    BY <2>2
  <2>4. obj[s]["client"].fin = "failed"
    BY <2>1, <2>3, FinishSettles
  <2> QED
    BY <2>4
<1> QED
  OBVIOUS

-----------------------------------------------------------------------------
(* What the client has of a stream.                                          *)

\* What a stream has had changes only as a message is handed over.
LEMMA HadKept ==
    ASSUME Typed, [Next]_vars, NEW s \in Streams,
           LET o == obj[s]["client"]
               p == obj'[s]["client"]
           IN p.inbound = o.inbound \/ RecvMessage(s, "client")
    PROVE  Had(s, "client")' = Had(s, "client")
<1> DEFINE o == obj[s]["client"]
<1> /\ ObjType /\ "client" \in Endpoints /\ received \in [Streams -> [Endpoints -> Seq(Nat)]] /\ o \in StreamObjects
    /\ o.inbound \in Seq(Nat) /\ received[s]["client"] \in Seq(Nat)
  BY Places DEF Typed, AppType, ObjType, BoundedObjects, StreamObjects
<1> CASE RecvMessage(s, "client")
  <2> /\ received' = [received EXCEPT ![s]["client"] = Append(@, Head(o.inbound))]
      /\ obj' = [obj EXCEPT ![s]["client"] = [o EXCEPT !.inbound = Tail(o.inbound)]]
      /\ o.inbound # <<>>
    BY DEF RecvMessage
  <2>1. received'[s]["client"] = Append(received[s]["client"], Head(o.inbound))
    OBVIOUS
  <2>2. obj'[s]["client"] = [o EXCEPT !.inbound = Tail(o.inbound)]
    BY DEF ObjType
  <2>3. obj'[s]["client"].inbound = Tail(o.inbound)
    BY <2>2 DEF StreamObjects
  <2>4. \A g, q \in Seq(Nat) : q # <<>> => Len(Append(g, Head(q))) + Len(Tail(q)) = Len(g) + Len(q)
    BY SMTT(200)
  <2> QED
    BY <2>1, <2>3, <2>4 DEF Had
<1> CASE ~RecvMessage(s, "client")
  <2>1. received'[s]["client"] = received[s]["client"]
    <3> ASSUME NEW r \in Streams, NEW e \in Endpoints, RecvMessage(r, e)
        PROVE  received'[s]["client"] = received[s]["client"]
      <4>1. r # s \/ e # "client"
        OBVIOUS
      <4>2. PICK v : received' = [received EXCEPT ![r][e] = v]
        BY DEF RecvMessage
      <4> QED
        BY <4>1, <4>2
    <3> QED
      BY AppSteps
  <2> QED
    BY <2>1 DEF Had
<1> QED
  OBVIOUS

\* A wire that carries nothing of a stream leaves nothing out.
LEMMA WireClear ==
    ASSUME NEW s \in Streams, NEW w, NEW n \in Nat, NEW k \in Nat, Numbered(w, s, n + 1, k + 1, k + 1),
           \A i \in DOMAIN w : ~Carries(w[i], s)
    PROVE  n = k
<1>1. n + 1 <= k + 1
  BY DEF Numbered
<1>2. \A m : m \notin n + 1 .. (k + 1) - 1
  <2>1. \A m \in n + 1 .. (k + 1) - 1 : \E i \in DOMAIN w : Carries(w[i], s) /\ Number(w[i], k + 1) = m
    BY DEF Numbered
  <2> QED
    BY <2>1
<1>3. n < k => n + 1 \in n + 1 .. (k + 1) - 1
  BY SMTT(200)
<1> QED
  BY <1>1, <1>2, <1>3, SMTT(200)

\* A message is in hand from its read to its hand-over.
LEMMA DeliversHow ==
    ASSUME Typed, Locks, [Next]_vars, NEW s \in Streams, wire'["server"] # <<>>, obj'[s]["client"].inb = "open",
           ~ReadData("client")
    PROVE  Handed(s) \/ (Delivers(s, "client")' <=> Delivers(s, "client"))
<1> /\ ObjType /\ "client" \in Endpoints /\ Other("client") = "server" /\ "tooLarge" \in Errors
    /\ delivering \in [Endpoints -> {<<>>} \cup (Streams \X Nat)] /\ wire \in [Endpoints -> Seq(Frames)]
    /\ "server" \in Endpoints
  BY Places, ErrorTypes DEF Typed, ConnType, ReadType, Other
<1>1. CASE delivering'["client"] = delivering["client"]
  BY <1>1 DEF Delivers
<1>2. ASSUME NEW cause, StopReading("client", cause) PROVE FALSE
  <2>1. wire' = [wire EXCEPT !["server"] = <<>>]
    BY <1>2 DEF StopReading
  <2> QED
    BY <2>1
<1>3. CASE (Deliver("client") \/ DeliverBlocked("client")) /\ ~UNCHANGED delivering
  <2> USE <1>3
  <2> delivering["client"] # <<>>
    BY DEF Locks, Delivery, Deliver, DeliverBlocked
  <2> PICK r \in Streams : r = delivering["client"][1]
    BY SMTT(200)
  <2>1. delivering' = [delivering EXCEPT !["client"] = <<>>]
    <3> CASE HandOver("client")
      BY DEF HandOver
    <3> CASE HandOverFails("client")
      BY <1>2 DEF HandOverFails
    <3> QED
      BY <1>2 DEF Deliver, DeliverBlocked, readVars
  <2>2. delivering'["client"] = <<>>
    BY <2>1
  <2> CASE r # s
    BY <2>2 DEF Delivers
  <2> CASE r = s
    <3>1. CASE HandOver("client") /\ obj[s]["client"].inb = "open"
      BY <3>1, EndsHanded
    <3>2. CASE obj' = [obj EXCEPT ![s]["client"] = finishStream(s, "client", "tooLarge")] /\ reader["client"] = "deliver"
      <4> obj'[s]["client"] = finishStream(s, "client", "tooLarge") /\ ~InboundLocked(s, "client")
        BY <3>2 DEF ObjType, InboundLocked
      <4>1. obj[s]["client"].fin # "none"
        BY FinishSettles
      <4>2. Settles(obj[s]["client"], obj'[s]["client"])
        BY FinishSettles
      <4>3. obj[s]["client"].inb = "open"
        BY <4>2 DEF Settles
      <4> QED
        BY <4>1, <4>3 DEF Locks, Finished
    <3>3. reader["client"] = "blocked" => obj[s]["client"].inb = "open"
      BY DEF Locks, DeliverOnOpenQueue
    <3> ~HandOverFails("client") /\ delivering["client"][1] = s
      BY <1>2 DEF HandOverFails
    <3> CASE Deliver("client")
      BY <1>2, <3>1, <3>2 DEF Deliver
    <3> QED
      BY <3>1, <3>3 DEF DeliverBlocked
  <2> QED
    OBVIOUS
<1> ASSUME NEW e \in Endpoints, ReadStep(e) PROVE Handed(s) \/ (Delivers(s, "client")' <=> Delivers(s, "client"))
  <2> CASE e = "client"
    BY <1>1, <1>2, <1>3 DEF ReadStep, ReadAck, ReadCloseSend, ReadStreamEnd, ReadClose, ReadEOF, ReadError, readVars
  <2> CASE e # "client"
    <3>1. UNCHANGED delivering \/ \E v : delivering' = [delivering EXCEPT ![e] = v]
      BY DEF ReadStep, ReadOpenStream, ReadData, Deliver, DeliverBlocked, HandOver, HandOverFails, ReadCloseSend,
             ReadStreamEnd, ReadClose, ReadEOF, ReadError, StopReading, readVars
    <3> QED
      BY <1>1, <3>1
  <2> QED
    OBVIOUS
<1> CASE ~ \E e \in Endpoints : ReadStep(e)
  <2>1. UNCHANGED readVars
    BY OthersEnds DEF Next, LoseLink, vars, engineVars
  <2> QED
    BY <1>1, <2>1 DEF readVars
<1> QED
  OBVIOUS

\* What the client's read loop is to see next does not change.
LEMMA ExpectedKept ==
    ASSUME Base, terminal["client"] # "failed", [Next]_vars, NEW s \in Streams, wire'["server"] # <<>>,
           obj'[s]["client"].inb = "open", ~ReadData("client")
    PROVE  Expected(s, "client")' = Expected(s, "client")
<1> Typed /\ Locks /\ "client" \in Endpoints
  BY Places DEF Base
<1> CASE Handed(s)
  <2> /\ Delivers(s, "client") /\ delivering'["client"] = <<>> /\ received'[s]["client"] = received[s]["client"]
      /\ obj'[s]["client"].inbound = Append(obj[s]["client"].inbound, delivering["client"][2])
    BY DEF Handed
  <2>1. ~Delivers(s, "client")'
    BY DEF Delivers
  <2>2. obj[s]["client"].inbound \in Seq(Nat) /\ received[s]["client"] \in Seq(Nat)
    BY DirectionTypes
  <2>3. PICK n \in Nat : n = delivering["client"][2]
    <3>1. delivering["client"] \in {<<>>} \cup (Streams \X Nat) /\ delivering["client"] # <<>>
      BY DEF Typed, ReadType, Delivers
    <3> QED
      BY <3>1, SMTT(200)
  <2>4. \A g, q \in Seq(Nat) : Len(g) + Len(Append(q, n)) + 1 = Len(g) + Len(q) + 2
    BY SMTT(200)
  <2>5. Len(received[s]["client"]) + Len(Append(obj[s]["client"].inbound, n)) + 1 = Had(s, "client") + 2
    BY <2>2, <2>4 DEF Had
  <2>6. Had(s, "client")' + 1 = Had(s, "client") + 2
    BY <2>3, <2>5 DEF Had
  <2> QED
    BY <2>1, <2>6 DEF Expected
<1> CASE ~Handed(s)
  <2>1. Delivers(s, "client")' <=> Delivers(s, "client")
    BY DeliversHow
  <2>2. Had(s, "client")' = Had(s, "client")
    BY EndsHow, HadKept DEF Held
  <2> QED
    BY <2>1, <2>2 DEF Expected
<1> QED
  OBVIOUS
=============================================================================
