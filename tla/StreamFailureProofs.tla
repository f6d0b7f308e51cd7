------------------------ MODULE StreamFailureProofs ------------------------
(***************************************************************************)
(* Machine-checked proofs about Streams, continued: the client of a stream *)
(* learns that the handler failed only after everything the handler sent.  *)
(***************************************************************************)
EXTENDS StreamOrderProofs, StreamEndProofs

USE ZenonT(200)

-----------------------------------------------------------------------------
(* A failure of the handler is reported after everything it sent.            *)

\* CloseSend is not under way.
Settled == {"no", "nil", "canceled", "broken"}
\* No barrier is queued, or none but as the last item.
NoBarrier(q) == \A i \in DOMAIN q : q[i].kind # "barrier"
BarrierLast(q) == \A i \in DOMAIN q : q[i].kind = "barrier" => i = Len(q)

\* The handler that failed has had its queue written: behind the barrier nothing
\* is queued, and only a dead connection makes an error of CloseSend a failure.
FlushingOf(s) ==
    LET o == obj[s]["server"] IN
    /\ hpc[s] \in {"none", "running", "closing", "flushing"} => NoBarrier(o.outbound)
    /\ hpc[s] = "barrier" => BarrierLast(o.outbound)
    /\ hpc[s] \in {"flushing", "barrier", "flushed"} \/ herr[s] = "failed" => o.csend \in Settled
    /\ hpc[s] = "flushed" \/ herr[s] = "failed" => o.outbound = <<>> /\ o.pump = "running"
    /\ herr[s] # "none" => hpc[s] \in {"finishing", "releasing", "done"}
    /\ hpc[s] = "finishing" => herr[s] # "none"
    /\ herr[s] \in {"none", "closed", "canceled", "broken", "failed"}
    /\ o.csend \in {"failed", "broken"} \/ herr[s] = "broken" => ~Live("server")
Flushing == \A s \in Streams : FlushingOf(s)

\* What a step does to the queue of a served stream, its CloseSend and the
\* goroutine that serves it.
SameQueue(s) ==
    LET o == obj[s]["server"]
        p == obj'[s]["server"]
    IN p.outbound = o.outbound /\ p.csend = o.csend /\ (p.pump = o.pump \/ hpc[s] = "none")
Still(s) == hpc'[s] = hpc[s] /\ herr'[s] = herr[s]
\* The serving goroutine moves on.
Proceeds(s) ==
    /\ SameQueue(s)
    /\ \/ Still(s)
       \/ hpc[s] = "none" /\ hpc'[s] = "running" /\ herr'[s] = herr[s]
       \/ /\ hpc[s] = "running" /\ hpc'[s] \in {"closing", "flushing", "releasing"} /\ herr'[s] = herr[s]
          /\ obj[s]["server"].csend \in Settled
       \/ /\ hpc[s] = "closing" /\ hpc'[s] = "finishing"
          /\ herr'[s] \in {"closed", "canceled"} \/ (herr'[s] = "broken" /\ obj[s]["server"].csend = "broken")
       \/ hpc[s] = "flushed" /\ hpc'[s] = "finishing" /\ herr'[s] = "failed"
       \/ hpc[s] \in {"flushing", "barrier", "flushed"} /\ hpc'[s] = "finishing" /\ herr'[s] = "canceled"
       \/ hpc[s] = "finishing" /\ hpc'[s] = "releasing" /\ herr'[s] = herr[s]
       \/ hpc[s] = "releasing" /\ hpc'[s] = "done" /\ herr'[s] = herr[s]
\* CloseSend moves on.
ClosesSend(s) ==
    LET o == obj[s]["server"]
        p == obj'[s]["server"]
    IN /\ Still(s) /\ p.outbound = o.outbound /\ p.pump = o.pump
       /\ \/ o.csend = "no" /\ p.csend = "enqueue" /\ hpc[s] \in {"running", "closing"}
          \/ o.csend \in {"enqueue", "await", "written", "failed"} /\ p.csend \in {"nil", "canceled"}
          \/ o.csend = "failed" /\ p.csend = "broken"
\* An item is queued.
Queues(s) ==
    LET o == obj[s]["server"]
        p == obj'[s]["server"]
    IN \E item \in Items :
          /\ p.outbound = Append(o.outbound, item) /\ p.pump = o.pump /\ herr'[s] = herr[s]
          /\ \/ item.kind = "data" /\ hpc[s] = "running" /\ hpc'[s] = hpc[s] /\ p.csend = o.csend
             \/ item.kind = "close" /\ o.csend = "enqueue" /\ p.csend = "await" /\ hpc'[s] = hpc[s]
             \/ item.kind = "barrier" /\ hpc[s] = "flushing" /\ hpc'[s] = "barrier" /\ p.csend = o.csend
\* The pump takes an item.
Pumps(s) ==
    LET o == obj[s]["server"]
        p == obj'[s]["server"]
    IN /\ o.outbound # <<>> /\ p.outbound = Tail(o.outbound) /\ herr'[s] = herr[s]
       /\ \/ /\ Head(o.outbound).kind = "barrier" /\ p.csend = o.csend /\ p.pump = "running"
             /\ hpc'[s] = IF hpc[s] = "barrier" THEN "flushed" ELSE hpc[s]
          \/ /\ hpc'[s] = hpc[s]
             /\ \/ p.csend = o.csend
                \/ o.csend = "await" /\ p.csend = "written"
                \/ o.csend = "await" /\ p.csend = "failed" /\ ~Live("server")
ServerMoves(s) == Proceeds(s) \/ ClosesSend(s) \/ Queues(s) \/ Pumps(s)

\* Barriers in a queue that grows or shrinks.
LEMMA BarrierQueue ==
    ASSUME NEW q \in Seq(Items), NEW item \in Items
    PROVE  /\ NoBarrier(q) /\ item.kind # "barrier" => NoBarrier(Append(q, item))
           /\ NoBarrier(q) => BarrierLast(Append(q, item))
           /\ q # <<>> /\ NoBarrier(q) => NoBarrier(Tail(q)) /\ Head(q).kind # "barrier"
           /\ q # <<>> /\ BarrierLast(q) => BarrierLast(Tail(q)) /\ (Head(q).kind = "barrier" => Tail(q) = <<>>)
<1> USE SMTT(200)
<1> /\ \A i \in DOMAIN Append(q, item) : \/ i \in DOMAIN q /\ Append(q, item)[i] = q[i]
                                         \/ i = Len(Append(q, item)) /\ Append(q, item)[i] = item
    /\ Len(q) \in Nat
  OBVIOUS
<1> q # <<>> => /\ Head(q) = q[1] /\ 1 \in DOMAIN q /\ Len(Tail(q)) = Len(q) - 1
                /\ \A i \in DOMAIN Tail(q) : i \in Nat /\ i + 1 \in DOMAIN q /\ Tail(q)[i] = q[i + 1]
  OBVIOUS
<1>1. q # <<>> /\ 1 = Len(q) => Tail(q) = <<>>
  <2>1. 1 <= 1
    OBVIOUS
  <2> QED
    BY <2>1, OneElement
<1>2. q # <<>> /\ BarrierLast(q) => BarrierLast(Tail(q))
  BY DEF BarrierLast
<1> QED
  BY <1>1, <1>2 DEF NoBarrier, BarrierLast

\* The serving goroutine moves on.
LEMMA ProceedsKeeps ==
    ASSUME Typed, [Next]_vars, NEW s \in Streams, FlushingOf(s), Proceeds(s)
    PROVE  FlushingOf(s)'
<1> Live("server")' => Live("server")
  BY LiveForGood, Places
<1> /\ obj'[s]["server"].outbound = obj[s]["server"].outbound /\ obj'[s]["server"].csend = obj[s]["server"].csend
    /\ obj'[s]["server"].pump = obj[s]["server"].pump \/ hpc[s] = "none"
  BY DEF Proceeds, SameQueue
<1> CASE Still(s)
  BY DEF FlushingOf, Still
<1> CASE hpc[s] \in {"none", "running"} /\ hpc'[s] \in {"running", "closing", "flushing", "releasing"}
         /\ herr'[s] = herr[s] /\ (hpc'[s] # "running" => obj[s]["server"].csend \in Settled)
  BY DEF FlushingOf
<1> CASE hpc[s] = "closing" /\ hpc'[s] = "finishing"
         /\ (herr'[s] \in {"closed", "canceled"} \/ (herr'[s] = "broken" /\ obj[s]["server"].csend = "broken"))
  BY DEF FlushingOf
<1> CASE hpc[s] = "flushed" /\ hpc'[s] = "finishing" /\ herr'[s] = "failed"
  BY DEF FlushingOf
<1> CASE hpc[s] \in {"flushing", "barrier", "flushed"} /\ hpc'[s] = "finishing" /\ herr'[s] = "canceled"
  BY DEF FlushingOf
<1> CASE hpc[s] \in {"finishing", "releasing"} /\ hpc'[s] \in {"releasing", "done"} /\ herr'[s] = herr[s]
  BY DEF FlushingOf
<1> QED
  BY DEF Proceeds

\* CloseSend moves on.
LEMMA ClosesSendKeeps ==
    ASSUME Typed, [Next]_vars, NEW s \in Streams, FlushingOf(s), ClosesSend(s)
    PROVE  FlushingOf(s)'
<1> Live("server")' => Live("server")
  BY LiveForGood, Places
<1> DEFINE o == obj[s]["server"]
           p == obj'[s]["server"]
<1> hpc'[s] = hpc[s] /\ herr'[s] = herr[s] /\ p.outbound = o.outbound /\ p.pump = o.pump
  BY DEF ClosesSend, Still
<1> CASE o.csend = "no" /\ p.csend = "enqueue" /\ hpc[s] \in {"running", "closing"}
  BY DEF FlushingOf
<1> CASE o.csend \in {"enqueue", "await", "written", "failed"} /\ p.csend \in {"nil", "canceled"}
  BY DEF FlushingOf, Settled
<1> CASE o.csend = "failed" /\ p.csend = "broken"
  BY DEF FlushingOf, Settled
<1> QED
  BY DEF ClosesSend

\* An item is queued.
LEMMA QueuesKeeps ==
    ASSUME Typed, [Next]_vars, NEW s \in Streams, FlushingOf(s), Queues(s)
    PROVE  FlushingOf(s)'
<1> Live("server")' => Live("server")
  BY LiveForGood, Places
<1> DEFINE o == obj[s]["server"]
           p == obj'[s]["server"]
<1> PICK item \in Items :
        /\ p.outbound = Append(o.outbound, item) /\ p.pump = o.pump /\ herr'[s] = herr[s]
        /\ \/ item.kind = "data" /\ hpc[s] = "running" /\ hpc'[s] = hpc[s] /\ p.csend = o.csend
           \/ item.kind = "close" /\ o.csend = "enqueue" /\ p.csend = "await" /\ hpc'[s] = hpc[s]
           \/ item.kind = "barrier" /\ hpc[s] = "flushing" /\ hpc'[s] = "barrier" /\ p.csend = o.csend
  BY DEF Queues
<1> PICK q \in Seq(Items) : q = o.outbound
  BY DirectionTypes, Places
<1> /\ NoBarrier(q) /\ item.kind # "barrier" => NoBarrier(p.outbound)
    /\ NoBarrier(q) => BarrierLast(p.outbound)
  BY BarrierQueue
<1> CASE item.kind = "data" /\ hpc[s] = "running" /\ hpc'[s] = hpc[s] /\ p.csend = o.csend
  BY DEF FlushingOf
<1> CASE item.kind = "close" /\ o.csend = "enqueue" /\ p.csend = "await" /\ hpc'[s] = hpc[s]
  BY DEF FlushingOf, Settled
<1> CASE item.kind = "barrier" /\ hpc[s] = "flushing" /\ hpc'[s] = "barrier" /\ p.csend = o.csend
  BY DEF FlushingOf
<1> QED
  OBVIOUS

\* The pump takes an item.
LEMMA PumpsKeeps ==
    ASSUME Typed, [Next]_vars, NEW s \in Streams, FlushingOf(s), Pumps(s)
    PROVE  FlushingOf(s)'
<1> Live("server")' => Live("server")
  BY LiveForGood, Places
<1> DEFINE o == obj[s]["server"]
           p == obj'[s]["server"]
<1> PICK q \in Seq(Items) : q = o.outbound
  BY DirectionTypes, Places
<1> PICK item \in Items : item = Head(q)
  BY FirstIn DEF Pumps
<1> /\ NoBarrier(q) => NoBarrier(p.outbound) /\ item.kind # "barrier"
    /\ BarrierLast(q) => BarrierLast(p.outbound) /\ (item.kind = "barrier" => p.outbound = <<>>)
  BY BarrierQueue DEF Pumps
<1> q # <<>> /\ herr'[s] = herr[s]
  BY DEF Pumps
<1> hpc[s] # "flushed" /\ herr[s] # "failed"
  BY DEF FlushingOf
<1> CASE item.kind = "barrier" /\ p.csend = o.csend /\ p.pump = "running"
         /\ hpc'[s] = IF hpc[s] = "barrier" THEN "flushed" ELSE hpc[s]
  <2> CASE hpc[s] = "barrier"
    BY DEF FlushingOf
  <2> CASE hpc[s] # "barrier"
    BY DEF FlushingOf
  <2> QED
    OBVIOUS
<1> CASE hpc'[s] = hpc[s] /\ (\/ p.csend = o.csend
                              \/ o.csend = "await" /\ p.csend = "written"
                              \/ o.csend = "await" /\ p.csend = "failed" /\ ~Live("server"))
  BY DEF FlushingOf, Settled
<1> QED
  BY DEF Pumps

\* Nothing happens to the serving end of a stream.
LEMMA ServerStill ==
    ASSUME NEW s \in Streams, obj'[s]["server"] = obj[s]["server"] \/ Settles(obj[s]["server"], obj'[s]["server"]),
           hpc'[s] = hpc[s], herr'[s] = herr[s]
    PROVE  ServerMoves(s)
  BY DEF ServerMoves, Proceeds, SameQueue, Still, Settles

\* The steps that are not a server's.
LEMMA ServerIdle ==
    ASSUME UNCHANGED <<hpc, herr>>, NEW s \in Streams,
           AtPeace \/ \A r \in Streams, d \in Endpoints : Settles(obj[r][d], obj'[r][d])
    PROVE  ServerMoves(s)
  BY ServerStill, Places DEF AtPeace, Settling

\* Steps of a serving goroutine that queue nothing.
LEMMA ServerGoes ==
    ASSUME Typed, NEW r \in Streams, NEW s \in Streams,
           \/ HandlerReturn(r) \/ HandlerClosed(r) \/ HandlerFlushed(r) \/ HandlerFlushCancelled(r)
           \/ HandlerEnd(r) \/ HandlerRelease(r)
    PROVE  ServerMoves(s)
<1>1. Settles(obj[s]["server"], obj'[s]["server"])
  BY ServerPeace, Places DEF AtPeace, Settling
<1> SameQueue(s)
  BY <1>1 DEF SameQueue, Settles
<1> PICK to, err : /\ hpc' = [hpc EXCEPT ![r] = to] /\ herr' = [herr EXCEPT ![r] = err]
                   /\ \/ /\ hpc[r] = "running" /\ to \in {"closing", "flushing", "releasing"} /\ err = herr[r]
                         /\ obj[r]["server"].csend \in Settled
                      \/ /\ hpc[r] = "closing" /\ to = "finishing"
                         /\ err \in {"closed", "canceled"} \/ (err = "broken" /\ obj[r]["server"].csend = "broken")
                      \/ hpc[r] = "flushed" /\ to = "finishing" /\ err = "failed"
                      \/ hpc[r] \in {"flushing", "barrier", "flushed"} /\ to = "finishing" /\ err = "canceled"
                      \/ hpc[r] = "finishing" /\ to = "releasing" /\ err = herr[r]
                      \/ hpc[r] = "releasing" /\ to = "done" /\ err = herr[r]
  <2> UNCHANGED herr => herr' = [herr EXCEPT ![r] = herr[r]]
    BY DEF Typed, ServeType
  <2> CASE HandlerReturn(r)
    BY DEF HandlerReturn, Settled
  <2> CASE HandlerClosed(r)
    BY DEF HandlerClosed, HandlerFinish
  <2> CASE HandlerFlushed(r) \/ HandlerFlushCancelled(r)
    BY DEF HandlerFlushed, HandlerFlushCancelled, HandlerFinish
  <2> CASE HandlerEnd(r) \/ HandlerRelease(r)
    BY DEF HandlerEnd, HandlerRelease
  <2> QED
    OBVIOUS
<1> /\ hpc'[r] = to /\ herr'[r] = err
    /\ s # r => hpc'[s] = hpc[s] /\ herr'[s] = herr[s]
  BY DEF Typed, ServeType
<1> CASE s = r
  BY DEF ServerMoves, Proceeds
<1> CASE s # r
  BY DEF ServerMoves, Proceeds, Still
<1> QED
  OBVIOUS

\* Steps at an end of a stream that leave the goroutines alone.
LEMMA ServerCloses ==
    ASSUME Typed, NEW r \in Streams, NEW c \in Endpoints, NEW s \in Streams,
           CloseSendBegin(r, c) \/ CloseSendStep(r, c) \/ Send(r, c) \/ RecvMessage(r, c)
    PROVE  ServerMoves(s)
<1> DEFINE o == obj[r][c]
<1> ObjType /\ o \in StreamObjects /\ sent[r][c] \in Nat
  BY DEF Typed, ObjType, BoundedObjects, AppType
<1> UNCHANGED <<hpc, herr>>
  BY DEF CloseSendBegin, CloseSendStep, CloseSendEnqueue, CloseSendWritten, CloseSendCancelled, Send, RecvMessage,
         objOnly, serveVars
<1>1. ASSUME NEW p, obj' = [obj EXCEPT ![r][c] = p]
      PROVE  obj'[r][c] = p /\ (r # s \/ c # "server" => ServerMoves(s))
  <2> obj'[r][c] = p /\ \A q \in Streams, d \in Endpoints : q # r \/ d # c => obj'[q][d] = obj[q][d]
    BY <1>1 DEF ObjType
  <2> ASSUME r # s \/ c # "server" PROVE ServerMoves(s)
    <3>1. obj'[s]["server"] = obj[s]["server"]
      BY Places
    <3> QED
      BY <3>1, ServerStill
  <2> QED
    OBVIOUS
<1> CASE CloseSendBegin(r, c)
  <2> DEFINE p == [o EXCEPT !.csend = "enqueue"]
  <2> obj' = [obj EXCEPT ![r][c] = p]
    BY DEF CloseSendBegin
  <2>1. p.outbound = o.outbound /\ p.pump = o.pump /\ p.csend = "enqueue"
    BY DEF StreamObjects
  <2> HIDE DEF p
  <2> CASE r = s /\ c = "server"
    <3>1. o.csend = "no" /\ hpc[s] \in {"running", "closing"}
      BY DEF CloseSendBegin, Holds
    <3>2. obj'[s]["server"] = p
      BY <1>1
    <3> QED
      BY <2>1, <3>1, <3>2 DEF ServerMoves, ClosesSend, Still
  <2> QED
    BY <1>1
<1> CASE CloseSendEnqueue(r, c)
  <2> DEFINE item == [kind |-> "close", n |-> 0]
             p == [enqueued(o, "close") EXCEPT !.csend = "await"]
  <2> obj' = [obj EXCEPT ![r][c] = p] /\ o.csend = "enqueue"
    BY DEF CloseSendEnqueue
  <2>1. p.outbound = Append(o.outbound, item) /\ p.pump = o.pump /\ p.csend = "await"
    BY DEF StreamObjects, enqueued
  <2>2. item \in Items /\ item.kind = "close"
    BY SMTT(200) DEF Items
  <2> HIDE DEF p, item
  <2> CASE r = s /\ c = "server"
    <3>1. obj'[s]["server"] = p
      BY <1>1
    <3> QED
      BY <2>1, <2>2, <3>1 DEF ServerMoves, Queues
  <2> QED
    BY <1>1
<1> CASE CloseSendWritten(r, c) \/ CloseSendCancelled(r, c)
  <2> PICK v : /\ obj' = [obj EXCEPT ![r][c] = [o EXCEPT !.csend = v]]
               /\ \/ o.csend \in {"enqueue", "await", "written", "failed"} /\ v \in {"nil", "canceled"}
                  \/ o.csend = "failed" /\ v = "broken"
    <3> CASE CloseSendCancelled(r, c)
      BY DEF CloseSendCancelled, closeSendAfterTerminal
    <3> CASE CloseSendWritten(r, c)
      BY DEF CloseSendWritten
    <3> QED
      OBVIOUS
  <2> DEFINE p == [o EXCEPT !.csend = v]
  <2>1. p.outbound = o.outbound /\ p.pump = o.pump /\ p.csend = v
    BY DEF StreamObjects
  <2> obj' = [obj EXCEPT ![r][c] = p]
    OBVIOUS
  <2> HIDE DEF p
  <2> CASE r = s /\ c = "server"
    BY <1>1, <2>1 DEF ServerMoves, ClosesSend, Still
  <2> QED
    BY <1>1
<1> CASE Send(r, c)
  <2> DEFINE item == [kind |-> "data", n |-> sent[r][c] + 1]
             p == [o EXCEPT !.outbound = Append(o.outbound, item)]
  <2> obj' = [obj EXCEPT ![r][c] = p] /\ Holds(r, c)
    BY DEF Send
  <2>1. p.outbound = Append(o.outbound, item) /\ p.pump = o.pump /\ p.csend = o.csend
    BY DEF StreamObjects
  <2>2. item \in Items /\ item.kind = "data"
    BY SMTT(200) DEF Items
  <2> HIDE DEF p, item
  <2> CASE r = s /\ c = "server"
    <3>1. hpc[s] = "running"
      BY DEF Holds
    <3>2. obj'[s]["server"] = p
      BY <1>1
    <3> QED
      BY <2>1, <2>2, <3>1, <3>2 DEF ServerMoves, Queues
  <2> QED
    BY <1>1
<1> CASE RecvMessage(r, c)
  <2> DEFINE p == [o EXCEPT !.inbound = Tail(o.inbound)]
  <2> obj' = [obj EXCEPT ![r][c] = p]
    BY DEF RecvMessage
  <2>1. p.outbound = o.outbound /\ p.pump = o.pump /\ p.csend = o.csend
    BY DEF StreamObjects
  <2> HIDE DEF p
  <2> CASE r = s /\ c = "server"
    <3>1. obj'[s]["server"] = p
      BY <1>1
    <3> QED
      BY <2>1, <3>1 DEF ServerMoves, Proceeds, SameQueue, Still
  <2> QED
    BY <1>1
<1> QED
  BY DEF CloseSendStep

\* flushOutbound queues its barrier.
LEMMA ServerFlushes ==
    ASSUME Typed, NEW r \in Streams, NEW s \in Streams, FlushEnqueue(r)
    PROVE  ServerMoves(s)
<1> DEFINE o == obj[r]["server"]
           item == [kind |-> "barrier", n |-> 0]
           p == enqueued(o, "barrier")
<1> ObjType /\ o \in StreamObjects /\ "server" \in Endpoints
  BY Places DEF Typed, ObjType, BoundedObjects
<1> /\ obj' = [obj EXCEPT ![r]["server"] = p] /\ hpc[r] = "flushing" /\ hpc' = [hpc EXCEPT ![r] = "barrier"]
    /\ UNCHANGED herr
  BY DEF FlushEnqueue
<1>1. p.outbound = Append(o.outbound, item) /\ p.pump = o.pump /\ p.csend = o.csend
  BY DEF StreamObjects, enqueued
<1>2. item \in Items /\ item.kind = "barrier"
  BY SMTT(200) DEF Items
<1> HIDE DEF p, item
<1> /\ obj'[r]["server"] = p /\ (s # r => obj'[s]["server"] = obj[s]["server"])
    /\ hpc'[r] = "barrier" /\ (s # r => hpc'[s] = hpc[s])
  BY DEF ObjType, Typed, ServeType
<1> CASE s = r
  BY <1>1, <1>2 DEF ServerMoves, Queues
<1> CASE s # r
  BY ServerStill
<1> QED
  OBVIOUS

\* The first item of a queue without barriers.
LEMMA BarrierHead ==
    ASSUME NEW q \in Seq(Items), NoBarrier(q), q # <<>>
    PROVE  Head(q).kind # "barrier" /\ NoBarrier(Tail(q))
<1>1. PICK item : item = Head(q)
  BY SMTT(200)
<1>2. item \in Items
  BY <1>1, FirstIn
<1> QED
  BY <1>2, BarrierQueue

\* A pump takes an item.
LEMMA ServerPumps ==
    ASSUME Typed, NEW r \in Streams, NEW c \in Endpoints, NEW s \in Streams, PumpItem(r, c),
           NoBarrier(obj[r]["client"].outbound)
    PROVE  ServerMoves(s)
<1> ObjType /\ Pump(r, c) \in Threads /\ Home(Pump(r, c)) = c /\ UNCHANGED herr
  BY Places DEF Typed, PumpItem
<1> PICK p : PumpTakes(r, c, p)
  BY PumpEffect
<1> /\ obj'[r][c] = p /\ (s # r \/ c # "server" => obj'[s]["server"] = obj[s]["server"])
  BY Places DEF ObjType, PumpTakes
<1>1. s # r => hpc'[s] = hpc[s]
  BY DEF PumpTakes, Typed, ServeType
<1> CASE s = r /\ c = "server"
  <2> DEFINE o == obj[s]["server"]
  <2> o.outbound # <<>> /\ p.outbound = Tail(o.outbound) /\ obj'[s]["server"] = p /\ herr'[s] = herr[s]
    BY DEF PumpTakes
  <2> CASE Head(o.outbound).kind = "data" /\ p.csend = o.csend /\ UNCHANGED hpc
    BY DEF ServerMoves, Pumps
  <2> CASE Head(o.outbound).kind = "barrier"
    <3> /\ p.csend = o.csend /\ p.pump = "running"
        /\ hpc' = [hpc EXCEPT ![s] = IF @ = "barrier" THEN "flushed" ELSE @]
      BY DEF PumpTakes
    <3>1. hpc'[s] = IF hpc[s] = "barrier" THEN "flushed" ELSE hpc[s]
      BY DEF Typed, ServeType
    <3> QED
      BY <3>1 DEF ServerMoves, Pumps
  <2> CASE /\ WriteOK(wire, Pump(r, c), CloseSendFrame(r)) /\ UNCHANGED hpc
           /\ p.csend = IF o.csend = "await" THEN "written" ELSE o.csend
    BY DEF ServerMoves, Pumps
  <2> CASE /\ WriteFails(wire, Pump(r, c)) /\ UNCHANGED hpc
           /\ p.csend = IF o.csend = "await" THEN "failed" ELSE o.csend
    <3>1. ~Live("server")
      BY DEF WriteFails, WriteCanFail, Live
    <3> QED
      BY <3>1 DEF ServerMoves, Pumps
  <2> QED
    BY DEF PumpTakes
<1> CASE s # r \/ c # "server"
  <2> obj'[s]["server"] = obj[s]["server"] /\ herr'[s] = herr[s]
    OBVIOUS
  <2> CASE s # r
    BY <1>1, ServerStill
  <2>1. CASE UNCHANGED hpc
    BY <2>1, ServerStill
  <2> CASE s = r /\ c = "client"
    <3>1. Head(obj[r]["client"].outbound).kind # "barrier"
      <4>1. obj[r]["client"].outbound \in Seq(Items) /\ obj[r]["client"].outbound # <<>>
        BY Places DEF PumpTakes, ObjType, BoundedObjects, StreamObjects
      <4> QED
        BY <4>1, BarrierHead
    <3>2. UNCHANGED hpc
      BY <3>1 DEF PumpTakes
    <3> QED
      BY <2>1, <3>2
  <2> QED
    BY Places DEF Endpoints
<1> QED
  OBVIOUS

\* What an object sends is left alone.
Quiet(o, p) == p.outbound = o.outbound /\ p.csend = o.csend /\ p.pump = o.pump

\* A read loop leaves alone what its own end sends.
LEMMA ReadQuiet ==
    ASSUME Typed, Locks, NEW c \in Endpoints,
           \/ ReadData(c) \/ Deliver(c) \/ DeliverBlocked(c) \/ ReadCloseSend(c)
           \/ ReadClose(c) \/ ReadEOF(c) \/ ReadError(c)
    PROVE  /\ UNCHANGED <<hpc, herr>>
           /\ \A r \in Streams, d \in Endpoints : Quiet(obj[r][d], obj'[r][d])
<1> ObjType
  BY DEF Typed
<1>1. UNCHANGED <<hpc, herr>>
  BY DEF ReadData, Deliver, DeliverBlocked, HandOver, HandOverFails, ReadCloseSend, ReadClose, ReadEOF, ReadError,
         StopReading, serveVars
<1>2. CASE UNCHANGED obj
  BY <1>1, <1>2 DEF Quiet
<1>3. ASSUME NEW s \in Streams, NEW p, obj' = [obj EXCEPT ![s][c] = p], Quiet(obj[s][c], p)
      PROVE  \A r \in Streams, d \in Endpoints : Quiet(obj[r][d], obj'[r][d])
  <2>1. obj'[s][c] = p /\ \A r \in Streams, d \in Endpoints : r # s \/ d # c => obj'[r][d] = obj[r][d]
    BY <1>3 DEF ObjType
  <2> QED
    BY <1>3, <2>1 DEF Quiet
<1>4. CASE ReadCloseSend(c) /\ ~UNCHANGED obj
  <2>1. PICK s \in Streams : s = Arriving(c).s /\ obj' = [obj EXCEPT ![s][c] = closeInboundHalf(obj[s][c])]
    <3>1. ArrivesAt(c, "CloseSend")
      BY <1>4 DEF ReadCloseSend
    <3>2. Arriving(c).s \in Streams
      BY <3>1, ArrivingStream
    <3>3. obj' = [obj EXCEPT ![Arriving(c).s][c] = closeInboundHalf(@)]
      BY <1>4 DEF ReadCloseSend
    <3> QED
      BY <3>2, <3>3
  <2>2. obj[s][c] \in StreamObjects
    BY DEF ObjType, BoundedObjects
  <2>3. Quiet(obj[s][c], closeInboundHalf(obj[s][c]))
    BY <2>2 DEF Quiet, closeInboundHalf, StreamObjects
  <2> QED
    BY <1>1, <1>3, <2>1, <2>3
<1>5. CASE (Deliver(c) \/ DeliverBlocked(c)) /\ ~UNCHANGED obj
  <2>1. delivering \in [Endpoints -> {<<>>} \cup (Streams \X Nat)] /\ delivering[c] # <<>>
    BY <1>5 DEF Typed, ReadType, Locks, Delivery, Deliver, DeliverBlocked
  <2>2. PICK s \in Streams : s = delivering[c][1]
    BY <2>1, SMTT(200)
  <2>3. PICK n \in Nat : n = delivering[c][2]
    BY <2>1, SMTT(200)
  <2> DEFINE o == obj[s][c]
             q == [o EXCEPT !.inbound = Append(o.inbound, n)]
  <2>4. o \in BoundedObjects /\ o \in StreamObjects /\ "tooLarge" \in Errors
    BY ErrorTypes DEF ObjType, BoundedObjects
  <2>5. CASE obj' = [obj EXCEPT ![s][c] = finishStream(s, c, "tooLarge")]
    <3>1. Quiet(o, finishStream(s, c, "tooLarge"))
      BY <2>4, FinishSettles DEF Settles, Quiet
    <3> QED
      BY <1>1, <1>3, <2>5, <3>1
  <2>6. CASE obj' = [obj EXCEPT ![s][c] = Unlocked(o)]
    BY <1>1, <1>3, <2>4, <2>6, UnlockedSettles DEF Settles, Quiet
  <2>7. CASE obj' = [obj EXCEPT ![s][c] = Unlocked(q)] /\ HandOver(c)
    <3>1. q \in BoundedObjects /\ Quiet(o, q)
      BY <2>2, <2>3, <2>4, <2>7, ObjectUpdates DEF Quiet, StreamObjects, HandOver
    <3> HIDE DEF q
    <3> QED
      BY <1>1, <1>3, <2>7, <3>1, UnlockedSettles DEF Settles, Quiet
  <2> QED
    BY <1>5, <2>2, <2>3, <2>5, <2>6, <2>7 DEF Deliver, DeliverBlocked, HandOver, HandOverFails
<1> QED
  BY <1>2, <1>4, <1>5 DEF ReadData, ReadClose, ReadEOF, ReadError

\* Nothing but a message or a close marker is queued at the client.
ClientQueues(s) ==
    LET o == obj[s]["client"]
        p == obj'[s]["client"]
    IN \/ p.outbound = o.outbound
       \/ \E item \in Items : item.kind # "barrier" /\ p.outbound = Append(o.outbound, item)
       \/ o.outbound # <<>> /\ p.outbound = Tail(o.outbound)
Moves(s) == ServerMoves(s) /\ ClientQueues(s)

\* The steps that queue and take nothing, with the serving goroutines at rest.
LEMMA QuietMoves ==
    ASSUME NEW s \in Streams, UNCHANGED <<hpc, herr>>, \A r \in Streams, d \in Endpoints : Quiet(obj[r][d], obj'[r][d])
    PROVE  Moves(s)
  BY Places DEF Moves, ServerMoves, Proceeds, SameQueue, Still, ClientQueues, Quiet

\* The client queues its messages and its close marker.
LEMMA ClientQueuesOwn ==
    ASSUME Typed, NEW r \in Streams, NEW c \in Endpoints, NEW s \in Streams,
           CloseSendBegin(r, c) \/ CloseSendStep(r, c) \/ Send(r, c) \/ RecvMessage(r, c) \/ PumpItem(r, c)
    PROVE  ClientQueues(s)
<1> DEFINE o == obj[r][c]
<1> ObjType /\ o \in StreamObjects /\ sent[r][c] \in Nat
  BY DEF Typed, ObjType, BoundedObjects, AppType
<1>1. ASSUME NEW p, obj' = [obj EXCEPT ![r][c] = p],
             \/ p.outbound = o.outbound
             \/ \E item \in Items : item.kind # "barrier" /\ p.outbound = Append(o.outbound, item)
             \/ o.outbound # <<>> /\ p.outbound = Tail(o.outbound)
      PROVE  ClientQueues(s)
  <2> USE <1>1
  <2> obj'[r][c] = p /\ (r # s \/ c # "client" => obj'[s]["client"] = obj[s]["client"])
    BY Places DEF ObjType
  <2> CASE r # s \/ c # "client"
    BY DEF ClientQueues
  <2> CASE r = s /\ c = "client"
    BY DEF ClientQueues
  <2> QED
    OBVIOUS
<1> CASE PumpItem(r, c)
  <2>1. PICK p : PumpTakes(r, c, p)
    BY PumpEffect
  <2>2. obj' = [obj EXCEPT ![r][c] = p] /\ o.outbound # <<>> /\ p.outbound = Tail(o.outbound)
    BY <2>1 DEF PumpTakes
  <2> QED
    BY <1>1, <2>2
<1> CASE CloseSendEnqueue(r, c)
  <2> DEFINE item == [kind |-> "close", n |-> 0]
             p == [enqueued(o, "close") EXCEPT !.csend = "await"]
  <2>1. obj' = [obj EXCEPT ![r][c] = p]
    BY DEF CloseSendEnqueue
  <2>2. p.outbound = Append(o.outbound, item)
    BY DEF StreamObjects, enqueued
  <2>3. item \in Items /\ item.kind # "barrier"
    BY SMTT(200) DEF Items
  <2> HIDE DEF p, item
  <2> QED
    BY <1>1, <2>1, <2>2, <2>3
<1> CASE Send(r, c)
  <2> DEFINE item == [kind |-> "data", n |-> sent[r][c] + 1]
             p == [o EXCEPT !.outbound = Append(o.outbound, item)]
  <2>1. obj' = [obj EXCEPT ![r][c] = p]
    BY DEF Send
  <2>2. p.outbound = Append(o.outbound, item)
    BY DEF StreamObjects
  <2>3. item \in Items /\ item.kind # "barrier"
    BY SMTT(200) DEF Items
  <2> HIDE DEF p, item
  <2> QED
    BY <1>1, <2>1, <2>2, <2>3
<1> CASE CloseSendBegin(r, c) \/ CloseSendWritten(r, c) \/ CloseSendCancelled(r, c)
  <2>1. PICK v : obj' = [obj EXCEPT ![r][c] = [o EXCEPT !.csend = v]]
    BY DEF CloseSendBegin, CloseSendWritten, CloseSendCancelled
  <2> DEFINE p == [o EXCEPT !.csend = v]
  <2>2. p.outbound = o.outbound
    BY DEF StreamObjects
  <2>3. obj' = [obj EXCEPT ![r][c] = p]
    BY <2>1
  <2> HIDE DEF p
  <2> QED
    BY <1>1, <2>2, <2>3
<1> CASE RecvMessage(r, c)
  <2> DEFINE p == [o EXCEPT !.inbound = Tail(o.inbound)]
  <2>1. obj' = [obj EXCEPT ![r][c] = p]
    BY DEF RecvMessage
  <2>2. p.outbound = o.outbound
    BY DEF StreamObjects
  <2> HIDE DEF p
  <2> QED
    BY <1>1, <2>1, <2>2
<1> QED
  BY DEF CloseSendStep

\* The start of a stream.
LEMMA StartMoves ==
    ASSUME Typed, Opening, NEW s \in Streams, ReadOpenStream \/ \E r \in Streams : OpenWrite(r)
    PROVE  Moves(s)
<1> ObjType /\ "client" \in Endpoints /\ "server" \in Endpoints
  BY Places DEF Typed
<1>1. CASE \E r \in Streams : OpenWrite(r)
  <2>1. PICK r \in Streams : OpenWrite(r)
    BY <1>1
  <2>2. PICK p : obj' = [obj EXCEPT ![r]["client"] = p]
    BY <2>1 DEF OpenWrite
  <2>3. obj'[s]["server"] = obj[s]["server"] /\ UNCHANGED <<hpc, herr>>
    BY <2>1, <2>2 DEF ObjType, OpenWrite, serveVars
  <2>4. obj'[s]["client"].outbound = obj[s]["client"].outbound
    <3>1. /\ \A q \in Streams, d \in Endpoints : q # r => obj'[q][d] = obj[q][d]
          /\ \A d \in Endpoints : Begins(obj[r][d], obj'[r][d])
      BY <2>1, Begun DEF OpenWrite
    <3> QED
      BY <3>1 DEF Begins
  <2> QED
    BY <2>3, <2>4, ServerStill DEF Moves, ClientQueues
<1>2. CASE ReadOpenStream
  <2>1. PICK r \in Streams : r = Arriving("server").s /\ hpc[r] = "none"
    BY <1>2, NotServed DEF ReadOpenStream
  <2>2. UNCHANGED herr /\ (UNCHANGED hpc \/ hpc' = [hpc EXCEPT ![r] = "running"])
    BY <1>2, <2>1 DEF ReadOpenStream
  <2>3. \/ UNCHANGED obj
        \/ obj' = [obj EXCEPT ![r]["server"].pump = "running"]
        \/ obj' = [obj EXCEPT ![r]["server"] = [finishStream(r, "server", "broken") EXCEPT !.pump = "running"]]
    BY <1>2, <2>1 DEF ReadOpenStream
  <2>4. /\ \A q \in Streams, d \in Endpoints : q # r => obj'[q][d] = obj[q][d]
        /\ \A d \in Endpoints : obj'[r][d].outbound = obj[r][d].outbound /\ obj'[r][d].csend = obj[r][d].csend
    BY <2>3, Begun DEF Begins
  <2>5. s # r => hpc'[s] = hpc[s]
    BY <2>2 DEF Typed, ServeType
  <2>6. ClientQueues(s)
    BY <2>4 DEF ClientQueues
  <2>7. CASE s # r
    BY <2>2, <2>4, <2>5, <2>6, <2>7, ServerStill DEF Moves
  <2>8. CASE s = r
    <3>1. SameQueue(s)
      BY <2>1, <2>4, <2>8 DEF SameQueue
    <3>2. hpc'[s] = hpc[s] \/ hpc'[s] = "running"
      BY <2>2, <2>8 DEF Typed, ServeType
    <3> QED
      BY <2>1, <2>2, <2>6, <2>8, <3>1, <3>2 DEF Moves, ServerMoves, Proceeds, Still
  <2> QED
    BY <2>7, <2>8
<1> QED
  BY <1>1, <1>2

\* The client queues no barrier.
Unbarred == \A s \in Streams : NoBarrier(obj[s]["client"].outbound)

\* What a step does to a served stream.
LEMMA StepMoves ==
    ASSUME Base, Unbarred, [Next]_vars, NEW s \in Streams
    PROVE  Moves(s)
<1> Typed /\ Locks /\ Opening /\ "client" \in Endpoints /\ "server" \in Endpoints
  BY Places DEF Base
<1>1. ASSUME AtPeace PROVE ClientQueues(s) /\ (UNCHANGED <<hpc, herr>> => Moves(s))
  <2> USE <1>1
  <2>1. ClientQueues(s)
    BY DEF AtPeace, Settling, Settles, ClientQueues
  <2> QED
    BY <2>1, ServerIdle DEF Moves
<1> ASSUME NEW r \in Streams, OpenCheck(r) \/ CancelCaller(r) \/ OpenStep(r) \/ FollowStep(r)
    PROVE  Moves(s)
  <2> CASE OpenWrite(r)
    BY StartMoves
  <2> CASE OpenCheck(r) \/ CancelCaller(r) \/ (OpenStep(r) /\ ~OpenWrite(r)) \/ FollowStep(r)
    <3>1. UNCHANGED <<hpc, herr>>
      BY DEF OpenCheck, CancelCaller, OpenStep, OpenSettled, OpenCancelled, OpenNotify, OpenReturn, FollowStep,
             FollowFind, Follow, FollowNotify, serveVars
    <3> QED
      BY <1>1, <3>1, ClientPeace
  <2> QED
    OBVIOUS
<1>2. ASSUME NEW r \in Streams, NEW e \in Endpoints,
             Send(r, e) \/ CloseSendBegin(r, e) \/ CloseSendStep(r, e) \/ RecvStep(r, e) \/ PumpItem(r, e)
      PROVE  Moves(s)
  <2> CASE Send(r, e) \/ CloseSendBegin(r, e) \/ CloseSendStep(r, e) \/ RecvMessage(r, e)
    BY ServerCloses, ClientQueuesOwn DEF Moves
  <2> CASE PumpItem(r, e)
    BY ServerPumps, ClientQueuesOwn DEF Moves, Unbarred
  <2> CASE RecvEnd(r, e) \/ RecvCancelled(r, e)
    <3>1. UNCHANGED <<hpc, herr>>
      BY DEF RecvEnd, RecvCancelled, serveVars
    <3> QED
      BY <1>1, <3>1, RecvPeace
  <2> QED
    BY <1>2 DEF RecvStep
<1> ASSUME NEW r \in Streams, HandlerReturn(r) \/ ServeStep(r)
    PROVE  Moves(s)
  <2> CASE CloseSendBegin(r, "server")
    BY <1>2
  <2> CASE FlushEnqueue(r)
    <3>1. obj'[s]["client"] = obj[s]["client"]
      BY DEF FlushEnqueue, Typed, ObjType
    <3> QED
      BY <3>1, ServerFlushes DEF Moves, ClientQueues
  <2> CASE \/ HandlerReturn(r) \/ HandlerClosed(r) \/ HandlerFlushed(r) \/ HandlerFlushCancelled(r)
           \/ HandlerEnd(r) \/ HandlerRelease(r)
    BY <1>1, ServerGoes, ServerPeace DEF Moves
  <2> QED
    BY DEF ServeStep
<1> ASSUME NEW e \in Endpoints, ReadStep(e)
    PROVE  Moves(s)
  <2> CASE ReadOpenStream
    BY StartMoves
  <2> CASE (e = "client" /\ ReadAck) \/ ReadStreamEnd(e)
    <3>1. UNCHANGED <<hpc, herr>>
      BY DEF ReadAck, ReadStreamEnd, serveVars
    <3> QED
      BY <1>1, <3>1, ReadPeace
  <2> CASE \/ ReadData(e) \/ Deliver(e) \/ DeliverBlocked(e) \/ ReadCloseSend(e)
           \/ ReadClose(e) \/ ReadEOF(e) \/ ReadError(e)
    BY ReadQuiet, QuietMoves
  <2> QED
    BY DEF ReadStep
<1> CASE (\E e \in Endpoints : Close(e)) \/ (\E t \in Threads : EndRelease(t)) \/ LoseLink \/ UNCHANGED vars
  <2>1. UNCHANGED <<hpc, herr>>
    BY DEF Close, EndRelease, LoseLink, vars, serveVars
  <2> QED
    BY <1>1, <2>1, EndPeace
<1> QED
  BY <1>2 DEF Next

\* The client queues no barrier, and a handler that fails flushes its queue.
LEMMA FlushingNext == Base /\ Unbarred /\ Flushing /\ [Next]_vars => Unbarred' /\ Flushing'
<1> SUFFICES ASSUME Base, Unbarred, Flushing, [Next]_vars, NEW s \in Streams
             PROVE  NoBarrier(obj[s]["client"].outbound)' /\ FlushingOf(s)'
  BY DEF Unbarred, Flushing
<1> Typed /\ FlushingOf(s) /\ Moves(s) /\ NoBarrier(obj[s]["client"].outbound)
  BY StepMoves DEF Base, Flushing, Unbarred
<1>1. FlushingOf(s)'
  BY ProceedsKeeps, ClosesSendKeeps, QueuesKeeps, PumpsKeeps DEF Moves, ServerMoves
<1> obj[s]["client"].outbound \in Seq(Items)
  BY Places DEF Typed, ObjType, BoundedObjects, StreamObjects
<1>2. NoBarrier(obj'[s]["client"].outbound)
  <2> DEFINE q == obj[s]["client"].outbound
             p == obj'[s]["client"].outbound
  <2>1. ClientQueues(s)
    BY DEF Moves
  <2> CASE p = q
    OBVIOUS
  <2> CASE q # <<>> /\ p = Tail(q)
    BY BarrierHead
  <2> CASE \E item \in Items : item.kind # "barrier" /\ p = Append(q, item)
    BY BarrierQueue
  <2> QED
    BY <2>1 DEF ClientQueues
<1> QED
  BY <1>1, <1>2

\* Nothing is queued at first.
LEMMA FlushingInit == Init => Unbarred /\ Flushing
<1> SUFFICES ASSUME Init, NEW s \in Streams
             PROVE  NoBarrier(obj[s]["client"].outbound) /\ FlushingOf(s)
  BY DEF Unbarred, Flushing
<1>1. obj[s]["client"] = newStream /\ obj[s]["server"] = newStream /\ hpc[s] = "none" /\ herr[s] = "none"
  BY Places DEF Init
<1>2. newStream.outbound = <<>> /\ newStream.csend = "no"
  BY SMTT(200) DEF newStream
<1>3. NoBarrier(<<>>)
  BY SMTT(200) DEF NoBarrier
<1> QED
  BY <1>1, <1>2, <1>3 DEF FlushingOf, Settled

-----------------------------------------------------------------------------
(* A failure is announced behind everything that was sent, and learnt after  *)
(* everything was received.                                                  *)

\* The peer's report of a failure.
FailedEnd(f, s) == f.type = "StreamEnd" /\ f.s = s /\ f.status = "failed"
\* Whatever the handler sent and has not arrived is on its way.
Complete(s) == Numbered(wire["server"], s, Expected(s, "client"), sent[s]["server"] + 1, sent[s]["server"] + 1)
\* The handler has failed and has had its queue flushed.
Failed(s) == herr[s] = "failed" /\ hpc[s] \in {"releasing", "done"}
AnnouncedOf(s) ==
    LET w == wire["server"] IN
    \A i \in DOMAIN w : FailedEnd(w[i], s) =>
        /\ Failed(s)
        /\ \A j \in DOMAIN w : Carries(w[j], s) => j < i
        /\ Takes(s, "client") => Complete(s)
Announced == \A s \in Streams : AnnouncedOf(s)
LearntOf(s) ==
    LET o == obj[s]["client"] IN
    /\ o.inb = "final" => o.fin # "none"
    /\ o.fin = "failed" /\ opc[s] # "failed" =>
          o.inb # "open" /\ Had(s, "client") = sent[s]["server"] /\ hpc[s] \notin {"none", "running"}
    /\ rend[s]["client"] = "failed" => o.fin = "failed" /\ o.inbound = <<>> /\ opc[s] = "established"
Learnt == \A s \in Streams : terminal["client"] # "failed" /\ LearntOf(s)

\* What holds when the report of a failure is read.
LEMMA Told ==
    ASSUME Base, Flowing, [Next]_vars, NEW s \in Streams, AnnouncedOf(s), LearntOf(s), Reports(s),
           obj[s]["client"].fin = "none"
    PROVE  /\ obj'[s]["client"].inb # "open" /\ hpc[s] \notin {"none", "running"}
           /\ Had(s, "client")' = sent[s]["server"]
<1> DEFINE w == wire["server"]
           o == obj[s]["client"]
<1> Typed /\ Locks /\ ObjType /\ ConnType /\ "client" \in Endpoints /\ Other("client") = "server" /\ "failed" \in Errors
  BY Places, ErrorTypes DEF Base, Typed, Other
<1> ArrivesAt("client", "StreamEnd")
  BY DEF Reports, ReadStreamEnd
<1> w # <<>> /\ Arriving("client") = w[1] /\ w \in Seq(Frames) /\ Arriving("client").type = "StreamEnd"
  BY ArrivalType
<1>1. 1 \in DOMAIN w
  BY SMTT(200)
<1>2. FailedEnd(w[1], s)
  BY DEF FailedEnd, Reports
<1> Failed(s) /\ (\A j \in DOMAIN w : Carries(w[j], s) => j < 1) /\ (Takes(s, "client") => Complete(s))
  BY <1>1, <1>2 DEF AnnouncedOf
<1>3. \A j \in DOMAIN w : ~Carries(w[j], s)
  <2>1. \A j \in DOMAIN w : ~(j < 1)
    BY SMTT(200)
  <2> QED
    BY <2>1
<1> reader["client"] = "read" /\ delivering["client"] = <<>>
  BY DEF ArrivesAt, Reading, Locks, Delivery
<1>4. Had(s, "client") = sent[s]["server"]
  <2> CASE o.inb = "open"
    <3>1. Numbered(w, s, Had(s, "client") + 1, sent[s]["server"] + 1, sent[s]["server"] + 1)
      BY DEF Takes, Reports, Complete, Expected, Delivers
    <3>2. Had(s, "client") \in Nat /\ sent[s]["server"] \in Nat
      BY DirectionTypes, Places
    <3> QED
      BY <1>3, <3>1, <3>2, WireClear
  <2> CASE o.inb = "half"
    <3>1. ReceivingOf(s, "client")
      BY DEF Flowing, Flow
    <3> QED
      BY <3>1 DEF ReceivingOf
  <2>1. o.inb \in {"open", "half", "final"}
    BY DEF ObjType, BoundedObjects, StreamObjects
  <2> QED
    BY <2>1 DEF LearntOf
<1> obj'[s]["client"] = finishStream(s, "client", "failed")
  BY DEF Reports, ObjType
<1> finishStream(s, "client", "failed").inbound = o.inbound /\ finishStream(s, "client", "failed").inb # "open"
  <2>1. ~InboundLocked(s, "client")
    BY DEF InboundLocked
  <2> QED
    BY <2>1, FinishSettles DEF Settles
<1>5. Had(s, "client")' = Had(s, "client")
  BY HadKept
<1> QED
  BY <1>4, <1>5 DEF Failed

\* What is learnt of a failure stays so.
LEMMA LearntKept ==
    ASSUME Base, Flowing, [Next]_vars, NEW s \in Streams, AnnouncedOf(s), LearntOf(s), terminal["client"] # "failed"
    PROVE  LearntOf(s)'
<1> DEFINE o == obj[s]["client"]
           p == obj'[s]["client"]
<1> Typed /\ Opening
  BY DEF Base
<1> /\ EndsOnce(o, p)
    /\ p.fin = "failed" => o.fin = "failed" \/ opc'[s] = "failed" \/ Reports(s)
    /\ Held(o, p) \/ RecvMessage(s, "client") \/ Handed(s)
  BY EndsHow
<1>1. p.inb = "final" => p.fin # "none"
  BY DEF EndsOnce, LearntOf
<1> ASSUME p.fin = "failed", opc'[s] # "failed"
    PROVE  p.inb # "open" /\ Had(s, "client")' = sent'[s]["server"] /\ hpc'[s] \notin {"none", "running"}
  <2> CASE o.fin = "failed"
    <3> o.inb # "open" /\ Had(s, "client") = sent[s]["server"] /\ hpc[s] \notin {"none", "running"}
      BY OverForGood DEF LearntOf
    <3>1. p.inb # "open" /\ Had(s, "client")' = Had(s, "client")
      BY HadKept DEF EndsOnce, Held, Handed
    <3> QED
      BY <3>1, OverForGood
  <2> CASE o.fin # "failed"
    <3>1. Reports(s) /\ o.fin = "none"
      BY DEF EndsOnce
    <3>2. p.inb # "open" /\ hpc[s] \notin {"none", "running"} /\ Had(s, "client")' = sent[s]["server"]
      BY <3>1, Told
    <3> QED
      BY <3>2, OverForGood
  <2> QED
    OBVIOUS
<1> ASSUME rend'[s]["client"] = "failed"
    PROVE  p.fin = "failed" /\ p.inbound = <<>> /\ opc'[s] = "established"
  <2> o.fin = "failed" /\ o.inbound = <<>> /\ opc[s] = "established"
    BY ReportHow DEF LearntOf
  <2>1. o.inb # "open" /\ ~RecvMessage(s, "client")
    BY DEF LearntOf, RecvMessage
  <2>2. opc'[s] = "established"
    BY OpenedForGood, Places DEF Opened
  <2> QED
    BY <2>1, <2>2 DEF EndsOnce, Held, Handed
<1> QED
  BY <1>1 DEF LearntOf

-----------------------------------------------------------------------------
(* What a step does to the frames that travel to the client.                 *)

WireMoves(s) ==
    LET w == wire["server"]
        v == wire'["server"]
    IN \/ v = w \/ v = <<>>
       \/ w # <<>> /\ v = Tail(w) /\ (~Carries(Head(w), s) \/ ReadData("client") \/ ReadCloseSend("client"))
       \/ \E f \in Frames : /\ v = Append(w, f) /\ ~FailedEnd(f, s)
                            /\ Carries(f, s) => obj[s]["server"].outbound # <<>>
       \/ HandlerEnd(s) /\ StatusOf(herr[s]) = "failed" /\ Live("server") /\ v = Append(w, StreamEnd(s, "failed"))

\* The frames that report no failure.
LEMMA NoFailure ==
    ASSUME NEW r \in Streams, NEW s \in Streams
    PROVE  /\ ~FailedEnd(CloseFrame, s) /\ ~FailedEnd(Ack(r), s) /\ ~FailedEnd(CloseSendFrame(r), s)
           /\ \A n : ~FailedEnd(Data(r, n), s)
           /\ \A status : FailedEnd(StreamEnd(r, status), s) => r = s /\ status = "failed"
<1> USE SMTT(200)
<1>1. ~FailedEnd(CloseFrame, s) /\ ~FailedEnd(Ack(r), s) /\ ~FailedEnd(CloseSendFrame(r), s)
  BY DEF FailedEnd, CloseFrame, Ack, CloseSendFrame
<1>2. \A n : ~FailedEnd(Data(r, n), s)
  BY DEF FailedEnd, Data
<1>3. \A status : FailedEnd(StreamEnd(r, status), s) => r = s /\ status = "failed"
  BY DEF FailedEnd, StreamEnd
<1> QED
  BY <1>1, <1>2, <1>3

\* A write of a frame that reports no failure.
LEMMA WireWritten ==
    ASSUME Typed, NEW s \in Streams, NEW t \in Threads, NEW f \in Frames,
           UNCHANGED wire \/ WriteOK(wire, t, f) \/ WriteFails(wire, t),
           \/ Home(t) = "client"
           \/ ~FailedEnd(f, s) /\ (Carries(f, s) => obj[s]["server"].outbound # <<>>)
    PROVE  WireMoves(s)
<1> wire \in [Endpoints -> Seq(Frames)] /\ "server" \in Endpoints /\ "server" # "client"
  BY Places DEF Typed, ConnType
<1>1. wire'["server"] = wire["server"] \/ (Home(t) = "server" /\ wire'["server"] = Append(wire["server"], f))
  BY SendEffect
<1> QED
  BY <1>1 DEF WireMoves

\* Steps of OpenStream and of followStreamContext.
LEMMA WireClient ==
    ASSUME Typed, NEW s \in Streams, NEW r \in Streams, OpenCheck(r) \/ CancelCaller(r) \/ OpenStep(r) \/ FollowStep(r)
    PROVE  WireMoves(s)
<1> /\ Opener(r) \in Threads /\ Home(Opener(r)) = "client" /\ Follower(r) \in Threads /\ Home(Follower(r)) = "client"
    /\ OpenStream(r) \in Frames /\ StreamEnd(r, "canceled") \in Frames
  BY Places, FrameTypes, ErrorTypes
<1> CASE UNCHANGED wire
  BY DEF WireMoves
<1> CASE OpenWrite(r) /\ ~UNCHANGED wire
  BY WireWritten DEF OpenWrite
<1> CASE OpenNotify(r) \/ FollowNotify(r)
  BY WireWritten DEF OpenNotify, FollowNotify, sendFrame
<1> QED
  BY DEF OpenCheck, CancelCaller, OpenStep, OpenSettled, OpenCancelled, OpenReturn, FollowStep, FollowFind, Follow,
         engineVars, connVars

\* Steps of the goroutine that serves a stream.
LEMMA WireServer ==
    ASSUME Typed, NEW s \in Streams, NEW r \in Streams, HandlerReturn(r) \/ ServeStep(r)
    PROVE  WireMoves(s)
<1>1. CASE UNCHANGED wire
  BY <1>1 DEF WireMoves
<1> CASE HandlerEnd(r)
  <2> /\ Handler(r) \in Threads /\ Home(Handler(r)) = "server" /\ StatusOf(herr[r]) \in Statuses
      /\ StreamEnd(r, StatusOf(herr[r])) \in Frames
    BY Places, FrameTypes, ErrorTypes DEF Typed, ServeType
  <2>1. ~Carries(StreamEnd(r, StatusOf(herr[r])), s)
    BY PlainFrames DEF NotCarries
  <2> CASE ~FailedEnd(StreamEnd(r, StatusOf(herr[r])), s)
    BY <2>1, WireWritten DEF HandlerEnd, sendFrame
  <2> CASE FailedEnd(StreamEnd(r, StatusOf(herr[r])), s)
    <3> r = s /\ StatusOf(herr[s]) = "failed"
      <4>1. \A status : FailedEnd(StreamEnd(r, status), s) => r = s /\ status = "failed"
        BY NoFailure
      <4>2. r = s /\ StatusOf(herr[r]) = "failed"
        BY <4>1
      <4> QED
        BY <4>2
    <3> CASE WriteFails(wire, Handler(r))
      BY <1>1 DEF WriteFails
    <3> CASE WriteOK(wire, Handler(r), StreamEnd(s, "failed"))
      <4>1. wire'["server"] = IF Live("server") THEN Append(wire["server"], StreamEnd(s, "failed")) ELSE wire["server"]
        BY WriteLive
      <4> QED
        BY <4>1 DEF WireMoves
    <3> QED
      BY DEF HandlerEnd, sendFrame
  <2> QED
    OBVIOUS
<1> QED
  BY <1>1 DEF HandlerReturn, ServeStep, CloseSendBegin, objOnly, FlushEnqueue, HandlerClosed, HandlerFlushed,
              HandlerFlushCancelled, HandlerFinish, HandlerRelease, engineVars, connVars

\* Steps of the ends of a stream.
LEMMA WireOwn ==
    ASSUME Typed, NEW s \in Streams, NEW r \in Streams, NEW e \in Endpoints,
           Send(r, e) \/ CloseSendBegin(r, e) \/ CloseSendStep(r, e) \/ RecvStep(r, e) \/ PumpItem(r, e)
    PROVE  WireMoves(s)
<1>1. CASE UNCHANGED wire
  BY <1>1 DEF WireMoves
<1> CASE PumpItem(r, e)
  <2> PICK p : PumpTakes(r, e, p)
    BY PumpEffect DEF Typed
  <2> /\ Pump(r, e) \in Threads /\ Home(Pump(r, e)) = e /\ CloseSendFrame(r) \in Frames
      /\ Head(obj[r][e].outbound).n \in Nat
    <3>1. obj[r][e].outbound \in Seq(Items) /\ obj[r][e].outbound # <<>>
      BY DirectionTypes DEF PumpTakes
    <3>2. Head(obj[r][e].outbound) \in Items
      BY <3>1, SMTT(200)
    <3> QED
      BY <3>2, Places, FrameTypes DEF Items
  <2>1. Data(r, Head(obj[r][e].outbound).n) \in Frames
    BY FrameTypes
  <2> \A f \in NotCarries(s) : ~Carries(f, s)
    BY DEF NotCarries
  <2> e = "client" \/ r # s \/ obj[s]["server"].outbound # <<>>
    BY DEF PumpTakes, Endpoints
  <2> CASE WriteOK(wire, Pump(r, e), Data(r, Head(obj[r][e].outbound).n))
    BY <2>1, WireWritten, PlainFrames, NoFailure
  <2> CASE WriteOK(wire, Pump(r, e), CloseSendFrame(r))
    BY WireWritten, PlainFrames, NoFailure
  <2> CASE WriteFails(wire, Pump(r, e))
    BY <1>1 DEF WriteFails
  <2> QED
    BY <1>1 DEF PumpTakes
<1> QED
  BY <1>1 DEF Send, CloseSendBegin, CloseSendStep, CloseSendEnqueue, CloseSendWritten, CloseSendCancelled, objOnly,
              RecvStep, RecvMessage, RecvEnd, RecvCancelled, engineVars, connVars

\* Steps of a read loop.
LEMMA WireRead ==
    ASSUME Typed, Locks, NEW s \in Streams, NEW e \in Endpoints, ReadStep(e)
    PROVE  WireMoves(s)
<1> /\ wire \in [Endpoints -> Seq(Frames)] /\ "client" \in Endpoints /\ "server" \in Endpoints
    /\ Other("client") = "server" /\ Other("server") = "client" /\ e \in {"client", "server"} /\ ConnType
  BY Places DEF Typed, ConnType, Other, Endpoints
<1>1. CASE UNCHANGED wire
  BY <1>1 DEF WireMoves
<1>2. ASSUME NEW cause, StopReading(e, cause) PROVE WireMoves(s)
  <2>1. wire' = [wire EXCEPT ![Other(e)] = <<>>]
    BY <1>2 DEF StopReading
  <2>2. wire'["server"] = wire["server"] \/ wire'["server"] = <<>>
    BY <2>1
  <2> QED
    BY <2>2 DEF WireMoves
<1>3. CASE e = "server" /\ wire' = Consumed("server")
  <2>1. wire'["server"] = wire["server"]
    BY <1>3 DEF Consumed
  <2> QED
    BY <2>1 DEF WireMoves
<1> CASE e = "server" /\ ReadOpenStream
  <2> ArrivesAt("server", "OpenStream")
    BY DEF ReadOpenStream
  <2>1. PICK r \in Streams : r = Arriving("server").s
    BY ArrivingStream
  <2>2. Consumed("server") \in [Endpoints -> Seq(Frames)]
    BY ArrivalType
  <2> ASSUME NEW f \in Frames, ~FailedEnd(f, s), ~Carries(f, s),
             WriteOK(Consumed("server"), Reader("server"), f) \/ WriteFails(Consumed("server"), Reader("server"))
      PROVE  WireMoves(s)
    <3>1. wire'["server"] = wire["server"] \/ wire'["server"] = Append(wire["server"], f)
      BY <2>2, ReplyEffect
    <3> QED
      BY <3>1 DEF WireMoves
  <2>3. /\ Ack(r) \in Frames /\ ~FailedEnd(Ack(r), s) /\ ~Carries(Ack(r), s)
        /\ \A status \in {"overloaded", "refused"} :
              LET f == StreamEnd(r, status) IN f \in Frames /\ ~FailedEnd(f, s) /\ ~Carries(f, s)
    <3>1. {"overloaded", "refused"} \subseteq Statuses /\ "failed" \notin {"overloaded", "refused"}
      BY ErrorTypes
    <3> QED
      BY <3>1, FrameTypes, PlainFrames, NoFailure DEF NotCarries
  <2>4. \/ \E status \in {"overloaded", "refused"} : sendFrame(Consumed("server"), Reader("server"), StreamEnd(r, status))
        \/ WriteOK(Consumed("server"), Reader("server"), Ack(r)) \/ WriteFails(Consumed("server"), Reader("server"))
    BY <2>1 DEF ReadOpenStream, acknowledge
  <2> QED
    BY <2>3, <2>4 DEF sendFrame
<1>4. CASE e = "client" /\ wire' = Consumed("client") /\ wire["server"] # <<>>
           /\ (~Carries(Head(wire["server"]), s) \/ ReadData("client") \/ ReadCloseSend("client"))
  <2> USE <1>4
  <2>1. wire'["server"] = Tail(wire["server"])
    BY DEF Consumed
  <2> QED
    BY <2>1 DEF WireMoves
<1> CASE e = "client" /\ (ReadAck \/ ReadStreamEnd("client"))
  <2>1. PICK type \in {"OpenStream", "Ack", "StreamEnd"} : ArrivesAt("client", type)
    BY DEF ReadAck, ReadStreamEnd
  <2>2. Head(wire["server"]) \in NotCarries(s) /\ wire["server"] # <<>>
    BY <2>1, ReadCalm
  <2> QED
    BY <1>4, <2>2 DEF ReadAck, ReadStreamEnd, NotCarries
<1> CASE e = "client" /\ (ReadData("client") \/ ReadCloseSend("client"))
  BY <1>4 DEF ReadData, ReadCloseSend, ArrivesAt
<1> CASE e = "server" /\ (ReadData("server") \/ ReadCloseSend("server") \/ ReadStreamEnd("server"))
  BY <1>3 DEF ReadData, ReadCloseSend, ReadStreamEnd
<1> CASE Deliver(e) \/ DeliverBlocked(e)
  <2>1. delivering \in [Endpoints -> {<<>>} \cup (Streams \X Nat)] /\ delivering[e] # <<>>
    BY DEF Typed, ReadType, Locks, Delivery, Deliver, DeliverBlocked
  <2>2. PICK r \in Streams : r = delivering[e][1]
    BY <2>1, SMTT(200)
  <2> CASE HandOver(e)
    BY <1>1 DEF HandOver, connVars
  <2> CASE HandOverFails(e)
    BY <1>2 DEF HandOverFails
  <2> CASE sendFrame(wire, Reader(e), StreamEnd(r, "tooLarge"))
    <3> Reader(e) \in Threads /\ "tooLarge" \in Statuses /\ "tooLarge" # "failed"
      BY Places, ErrorTypes
    <3>1. StreamEnd(r, "tooLarge") \in Frames /\ ~Carries(StreamEnd(r, "tooLarge"), s)
      BY PlainFrames DEF NotCarries
    <3>2. ~FailedEnd(StreamEnd(r, "tooLarge"), s)
      <4>1. \A status : FailedEnd(StreamEnd(r, status), s) => r = s /\ status = "failed"
        BY NoFailure
      <4> QED
        BY <4>1
    <3> QED
      BY <3>1, <3>2, WireWritten DEF sendFrame
  <2> QED
    BY <1>1, <1>2, <2>2 DEF Deliver, DeliverBlocked, connVars
<1> CASE ReadClose(e) \/ ReadEOF(e) \/ ReadError(e)
  BY <1>2 DEF ReadClose, ReadEOF, ReadError
<1> QED
  BY DEF ReadStep

\* Every step.
LEMMA WireHow ==
    ASSUME Typed, Locks, [Next]_vars, NEW s \in Streams
    PROVE  WireMoves(s)
<1>1. CASE UNCHANGED wire
  BY <1>1 DEF WireMoves
<1> ASSUME NEW e \in Endpoints, Close(e) PROVE WireMoves(s)
  <2>1. UNCHANGED wire \/ wire' = Transmit(wire, e, CloseFrame)
    BY DEF Close
  <2>2. wire'["server"] = wire["server"] \/ wire'["server"] = Append(wire["server"], CloseFrame)
    BY <2>1, Places, SMTT(200) DEF Transmit, Typed, ConnType
  <2>3. CloseFrame \in Frames /\ ~FailedEnd(CloseFrame, s) /\ ~Carries(CloseFrame, s)
    BY FrameTypes, PlainFrames, NoFailure DEF NotCarries
  <2> QED
    BY <2>2, <2>3 DEF WireMoves
<1> CASE (\E t \in Threads : EndRelease(t)) \/ LoseLink \/ UNCHANGED vars
  BY <1>1 DEF EndRelease, LoseLink, vars, engineVars, connVars
<1> QED
  BY WireClient, WireServer, WireOwn, WireRead DEF Next

-----------------------------------------------------------------------------
(* What is on its way to the client stays complete.                          *)

\* A stream enters the client's table once.
LEMMA EntersOnce ==
    ASSUME Typed, Opening, [Next]_vars, NEW s \in Streams, hpc[s] # "none", s \in streams'["client"]
    PROVE  s \in streams["client"]
<1> streams \in [Endpoints -> SUBSET Streams] /\ "client" \in Endpoints /\ "server" \in Endpoints
  BY Places DEF Typed, SessType
<1>1. CASE \/ UNCHANGED streams
           \/ \E e \in Endpoints, U \in SUBSET Streams : streams' = [streams EXCEPT ![e] = @ \ U]
           \/ \E e \in Endpoints : streams' = [streams EXCEPT ![e] = {}]
  BY <1>1
<1> ASSUME NEW r \in Streams, OpenCheck(r) \/ CancelCaller(r) \/ OpenStep(r) \/ FollowStep(r)
    PROVE  s \in streams["client"]
  <2> CASE OpenWrite(r)
    <3>1. r # s
      BY DEF OpenWrite, Opening, OpeningOf
    <3>2. streams' = [streams EXCEPT !["client"] = @ \cup {r}]
      BY DEF OpenWrite
    <3> QED
      BY <3>1, <3>2
  <2> CASE Follow(r)
    <3>1. streams' = [streams EXCEPT !["client"] = @ \ {r}]
      BY DEF Follow
    <3> QED
      BY <3>1
  <2> QED
    BY <1>1 DEF OpenCheck, CancelCaller, OpenStep, OpenSettled, OpenCancelled, OpenNotify, OpenReturn, FollowStep,
                FollowFind, FollowNotify, engineVars, sessionVars
<1> ASSUME NEW r \in Streams, HandlerReturn(r) \/ ServeStep(r)
    PROVE  UNCHANGED streams \/ streams' = [streams EXCEPT !["server"] = @ \ {r}]
  BY DEF HandlerReturn, ServeStep, CloseSendBegin, objOnly, FlushEnqueue, HandlerClosed, HandlerFlushed,
         HandlerFlushCancelled, HandlerFinish, HandlerEnd, HandlerRelease, engineVars, sessionVars
<1> ASSUME NEW r \in Streams, NEW e \in Endpoints,
           Send(r, e) \/ CloseSendBegin(r, e) \/ CloseSendStep(r, e) \/ RecvStep(r, e) \/ PumpItem(r, e)
    PROVE  UNCHANGED streams
  BY DEF Send, CloseSendBegin, CloseSendStep, CloseSendEnqueue, CloseSendWritten, CloseSendCancelled, objOnly,
         RecvStep, RecvMessage, RecvEnd, RecvCancelled, PumpItem, engineVars, sessionVars
<1> ASSUME NEW e \in Endpoints, ReadStep(e) PROVE s \in streams["client"]
  <2> CASE e = "server" /\ ReadOpenStream
    <3>1. UNCHANGED streams \/ \E U : streams' = [streams EXCEPT !["server"] = U]
      BY DEF ReadOpenStream
    <3> QED
      BY <3>1
  <2> CASE ReadStreamEnd(e)
    <3>1. UNCHANGED streams \/ streams' = [streams EXCEPT ![e] = @ \ {Arriving(e).s}]
      BY DEF ReadStreamEnd
    <3> QED
      BY <3>1
  <2> QED
    BY <1>1 DEF ReadStep, ReadAck, ReadData, Deliver, DeliverBlocked, HandOver, HandOverFails, ReadCloseSend,
                ReadClose, ReadEOF, ReadError, StopReading, sessionVars
<1> CASE (\E e \in Endpoints : Close(e)) \/ LoseLink \/ UNCHANGED vars
  BY <1>1 DEF Close, LoseLink, vars, engineVars, sessionVars
<1> ASSUME NEW t \in Threads, EndRelease(t) PROVE s \in streams["client"]
  BY <1>1, Places DEF EndRelease
<1> QED
  BY DEF Next

\* The handler that has failed stays so.
LEMMA FailedKept ==
    ASSUME NEW s \in Streams, FlushingOf(s), ServerMoves(s), Failed(s)
    PROVE  Failed(s)'
<1> herr[s] = "failed" /\ hpc[s] \in {"releasing", "done"} /\ obj[s]["server"].outbound = <<>>
  BY DEF Failed, FlushingOf
<1> CASE Proceeds(s)
  BY DEF Proceeds, Still, Failed
<1> CASE ClosesSend(s)
  BY DEF ClosesSend, Still, Failed
<1> CASE Queues(s)
  BY DEF Queues, Failed
<1>1. ~Pumps(s)
  BY DEF Pumps
<1> QED
  BY <1>1 DEF ServerMoves

\* What is on its way stays complete.
LEMMA CompleteKept ==
    ASSUME Base, terminal["client"] # "failed", [Next]_vars, NEW s \in Streams, Failed(s), FlushingOf(s),
           Takes(s, "client"), Takes(s, "client")', Complete(s), wire'["server"] # <<>>
    PROVE  Complete(s)'
<1> DEFINE w == wire["server"]
           v == wire'["server"]
<1> /\ Typed /\ Locks /\ Opening /\ ObjType /\ "client" \in Endpoints /\ "server" \in Endpoints
    /\ Other("client") = "server" /\ obj'[s]["client"].inb = "open" /\ s \in streams["client"]
  BY Places DEF Base, Typed, Other, Takes
<1> hpc[s] \in {"releasing", "done"} /\ obj[s]["server"].outbound = <<>>
  BY DEF Failed, FlushingOf
<1> PICK k \in Nat : k = sent[s]["server"] + 1 /\ k = sent'[s]["server"] + 1
  <2>1. sent[s]["server"] + 1 \in Nat
    BY DirectionTypes
  <2>2. sent'[s]["server"] = sent[s]["server"]
    BY OverForGood
  <2> QED
    BY <2>1, <2>2
<1> PICK next \in Nat : next = Expected(s, "client")
  BY DirectionTypes
<1> Numbered(w, s, next, k, k) /\ w \in Seq(Frames)
  BY DirectionTypes DEF Complete
<1>1. ASSUME Numbered(v, s, Expected(s, "client")', k, k) PROVE Complete(s)'
  BY <1>1 DEF Complete
<1> CASE ReadData("client")
  <2> ArrivesAt("client", "Data") /\ v = Tail(w) /\ w # <<>> /\ Head(w).type = "Data" /\ delivering["client"] = <<>>
    <3> ArrivesAt("client", "Data") /\ wire' = Consumed("client")
      BY DEF ReadData
    <3>1. v = Tail(w)
      BY Consuming
    <3> QED
      BY <3>1 DEF ArrivesAt, Arriving, Reading, Locks, Delivery
  <2> ~Delivers(s, "client") /\ ~Handed(s)
    BY DEF Delivers, Handed
  <2> Had(s, "client")' = Had(s, "client")
    BY EndsHow, HadKept DEF Held
  <2> Had(s, "client") \in Nat /\ next = Had(s, "client") + 1
    BY DirectionTypes
  <2> CASE Head(w).s = s
    <3>1. Carries(Head(w), s)
      BY DEF Carries
    <3>2. Numbered(v, s, next + 1, k, k)
      <4>1. Numbered(Tail(w), s, next + 1, k, k)
        BY <3>1, WireDelivers
      <4> QED
        BY <4>1
    <3>3. delivering' = [delivering EXCEPT !["client"] = <<s, Head(w).n>>]
      <4> Arriving("client") = Head(w)
        BY DEF Arriving
      <4>1. Arriving("client").s \in streams["client"]
        OBVIOUS
      <4>2. delivering' = [delivering EXCEPT !["client"] = <<Arriving("client").s, Arriving("client").n>>]
        BY <4>1 DEF ReadData
      <4> QED
        BY <4>2
    <3>4. delivering'["client"] = <<s, Head(w).n>>
      BY <3>3 DEF Typed, ReadType
    <3>5. Delivers(s, "client")'
      BY <3>4, SMTT(200) DEF Delivers
    <3>6. Expected(s, "client")' = Had(s, "client") + 2
      BY <3>5 DEF Expected
    <3>7. next + 1 = Had(s, "client") + 2
      BY SMTT(200)
    <3> QED
      BY <1>1, <3>2, <3>6, <3>7
  <2> CASE Head(w).s # s
    <3>1. ~Carries(Head(w), s)
      BY DEF Carries
    <3>2. Numbered(v, s, next, k, k)
      BY <3>1, WireShrinks
    <3>3. delivering' = delivering \/ delivering' = [delivering EXCEPT !["client"] = <<Head(w).s, Head(w).n>>]
      BY DEF ReadData, Arriving, readVars
    <3>4. delivering'["client"] = <<>> \/ delivering'["client"] = <<Head(w).s, Head(w).n>>
      BY <3>3 DEF Typed, ReadType
    <3>5. ~Delivers(s, "client")'
      BY <3>4, SMTT(200) DEF Delivers
    <3>6. Expected(s, "client")' = next
      BY <3>5 DEF Expected
    <3> QED
      BY <1>1, <3>2, <3>6
  <2> QED
    OBVIOUS
<1> CASE ~ReadData("client")
  <2>1. Expected(s, "client")' = next
    BY ExpectedKept
  <2>2. ASSUME Numbered(v, s, next, k, k) PROVE Complete(s)'
    BY <1>1, <2>1, <2>2
  <2> CASE v = w
    BY <2>2
  <2> CASE w # <<>> /\ v = Tail(w) /\ ~Carries(Head(w), s)
    BY <2>2, WireShrinks
  <2> CASE \E f \in Frames : v = Append(w, f) /\ (Carries(f, s) => obj[s]["server"].outbound # <<>>)
    <3>1. PICK f \in NotCarries(s) : v = Append(w, f)
      BY DEF NotCarries
    <3> QED
      BY <2>2, <3>1, WireGrows
  <2>3. ~HandlerEnd(s)
    BY DEF HandlerEnd
  <2>4. ReadCloseSend("client") => ~Carries(Head(w), s)
    <3> ASSUME ReadCloseSend("client"), Head(w).s = s PROVE FALSE
      <4>1. obj' = [obj EXCEPT ![s]["client"] = closeInboundHalf(obj[s]["client"])]
        BY DEF ReadCloseSend, Arriving
      <4>2. obj'[s]["client"] = closeInboundHalf(obj[s]["client"])
        BY <4>1 DEF ObjType
      <4>3. closeInboundHalf(obj[s]["client"]).inb # "open"
        BY DirectionTypes DEF closeInboundHalf, StreamObjects
      <4> QED
        BY <4>2, <4>3
    <3> QED
      BY DEF Carries
  <2>5. WireMoves(s)
    BY WireHow
  <2> QED
    BY <2>3, <2>4, <2>5 DEF WireMoves
<1> QED
  OBVIOUS

\* When the failure is reported everything that was sent is on its way.
LEMMA CompleteBegun ==
    ASSUME Base, Flowing, [Next]_vars, NEW s \in Streams, FlushingOf(s), HandlerEnd(s), StatusOf(herr[s]) = "failed",
           Live("server"), wire'["server"] = Append(wire["server"], StreamEnd(s, "failed"))
    PROVE  /\ Failed(s)' /\ herr[s] = "failed"
           /\ Takes(s, "client") => Complete(s)'
<1> DEFINE w == wire["server"]
           o == obj[s]["server"]
<1> /\ Typed /\ "client" \in Endpoints /\ "server" \in Endpoints /\ Other("client") = "server"
    /\ {"closed", "canceled"} \subseteq Errors /\ "canceled" \in Statuses /\ "failed" \in Statuses
  BY Places, ErrorTypes DEF Base, Other
<1> herr[s] = "failed"
  <2>1. hpc[s] = "finishing"
    BY DEF HandlerEnd
  <2>2. herr[s] \in {"closed", "canceled", "failed"}
    BY <2>1 DEF FlushingOf
  <2> QED
    BY <2>2 DEF StatusOf
<1> o.outbound = <<>> /\ o.pump = "running"
  BY DEF FlushingOf
<1>1. Failed(s)'
  <2> hpc' = [hpc EXCEPT ![s] = "releasing"] /\ herr' = herr
    BY DEF HandlerEnd
  <2>1. hpc'[s] = "releasing"
    BY DEF Typed, ServeType
  <2> QED
    BY <2>1 DEF Failed
<1> ASSUME Takes(s, "client") PROVE Complete(s)'
  <2>1. Continues(s, "client")
    BY DEF Flowing, Flow, ReceivingOf
  <2> PICK out \in Nat : Numbered(w, s, Expected(s, "client"), out, sent[s]["server"] + 1)
                         /\ out = NextOut(o.outbound, sent[s]["server"])
    BY <2>1 DEF Continues
  <2> out = sent[s]["server"] + 1
    BY DEF NextOut
  <2> UNCHANGED <<obj, received, sent, delivering>>
    BY DEF HandlerEnd, readVars, appVars
  <2>2. Expected(s, "client")' = Expected(s, "client")
    BY DEF Expected, Had, Delivers
  <2>3. StreamEnd(s, "failed") \in NotCarries(s)
    BY PlainFrames
  <2>4. w \in Seq(Frames) /\ Expected(s, "client") \in Nat
    BY DirectionTypes
  <2>5. Numbered(wire'["server"], s, Expected(s, "client"), out, out)
    BY <2>3, <2>4, WireGrows
  <2> QED
    BY <2>2, <2>5 DEF Complete
<1> QED
  BY <1>1

\* The report of a failure is behind the messages.
Behind(w, s) == \A i \in DOMAIN w : FailedEnd(w[i], s) => \A j \in DOMAIN w : Carries(w[j], s) => j < i
\* It stays behind them when frames of other kinds are written and frames are read.
LEMMA BehindKept ==
    ASSUME NEW s \in Streams, NEW w \in Seq(Frames), Behind(w, s), NEW v,
           \/ v = w \/ v = <<>>
           \/ w # <<>> /\ v = Tail(w)
           \/ \E f \in Frames : /\ v = Append(w, f) /\ ~FailedEnd(f, s)
                                /\ (\E i \in DOMAIN w : FailedEnd(w[i], s)) => ~Carries(f, s)
    PROVE  /\ Behind(v, s)
           /\ (\E i \in DOMAIN v : FailedEnd(v[i], s)) => \E i \in DOMAIN w : FailedEnd(w[i], s)
<1> CASE v = w
  OBVIOUS
<1> CASE v = <<>>
  <2>1. DOMAIN v = {}
    BY SMTT(200)
  <2> QED
    BY <2>1 DEF Behind
<1> CASE w # <<>> /\ v = Tail(w)
  <2> \A i \in DOMAIN v : i \in Nat \ {0} /\ i + 1 \in DOMAIN w /\ v[i] = w[i + 1]
    BY Shrunk
  <2> ASSUME NEW i \in DOMAIN v, FailedEnd(v[i], s), NEW j \in DOMAIN v, Carries(v[j], s) PROVE j < i
    <3> i + 1 \in DOMAIN w /\ j + 1 \in DOMAIN w /\ FailedEnd(w[i + 1], s) /\ Carries(w[j + 1], s) /\ i \in Nat /\ j \in Nat
      OBVIOUS
    <3>1. j + 1 < i + 1
      BY DEF Behind
    <3> QED
      BY <3>1, SMTT(200)
  <2> QED
    BY DEF Behind
<1> ASSUME NEW f \in Frames, v = Append(w, f), ~FailedEnd(f, s), (\E i \in DOMAIN w : FailedEnd(w[i], s)) => ~Carries(f, s)
    PROVE  /\ Behind(v, s)
           /\ (\E i \in DOMAIN v : FailedEnd(v[i], s)) => \E i \in DOMAIN w : FailedEnd(w[i], s)
  <2> /\ v[Len(w) + 1] = f
      /\ \A i \in DOMAIN w : v[i] = w[i]
      /\ \A i \in DOMAIN v : i = Len(w) + 1 \/ i \in DOMAIN w
    BY Grown
  <2> \A i \in DOMAIN v : FailedEnd(v[i], s) => i \in DOMAIN w /\ FailedEnd(w[i], s)
    OBVIOUS
  <2>1. \A i, j \in DOMAIN v : FailedEnd(v[i], s) /\ Carries(v[j], s) => j \in DOMAIN w /\ Carries(w[j], s)
    OBVIOUS
  <2> QED
    BY <2>1 DEF Behind
<1> QED
  OBVIOUS

\* The first report of a failure is behind the messages.
LEMMA BehindBegun ==
    ASSUME NEW s \in Streams, NEW w \in Seq(Frames), \A i \in DOMAIN w : ~FailedEnd(w[i], s),
           NEW f \in Frames, ~Carries(f, s), NEW v, v = Append(w, f)
    PROVE  Behind(v, s)
<1> /\ v[Len(w) + 1] = f
    /\ \A i \in DOMAIN w : i < Len(w) + 1 /\ v[i] = w[i]
    /\ \A i \in DOMAIN v : i = Len(w) + 1 \/ i \in DOMAIN w
  BY Grown
<1>1. \A i \in DOMAIN v : FailedEnd(v[i], s) => i = Len(w) + 1
  OBVIOUS
<1>2. \A j \in DOMAIN v : Carries(v[j], s) => j < Len(w) + 1
  OBVIOUS
<1> QED
  BY <1>1, <1>2 DEF Behind

\* A failure is announced behind everything that was sent.
LEMMA AnnouncedKept ==
    ASSUME Base, Flowing, terminal["client"] # "failed", [Next]_vars, NEW s \in Streams, FlushingOf(s), ServerMoves(s),
           AnnouncedOf(s)
    PROVE  AnnouncedOf(s)'
<1> DEFINE w == wire["server"]
           v == wire'["server"]
           There == \E i \in DOMAIN w : FailedEnd(w[i], s)
<1> Typed /\ Locks /\ Opening /\ w \in Seq(Frames)
  BY DirectionTypes, Places DEF Base
<1> Behind(w, s) /\ (There => Failed(s) /\ (Takes(s, "client") => Complete(s)))
  BY DEF AnnouncedOf, Behind
<1> Takes(s, "client")' /\ hpc[s] # "none" => Takes(s, "client")
  <2>1. obj'[s]["client"].inb = "open" => obj[s]["client"].inb = "open"
    BY EndsHow DEF EndsOnce
  <2> QED
    BY <2>1, EntersOnce DEF Takes
<1> CASE \/ v = w \/ v = <<>>
         \/ w # <<>> /\ v = Tail(w)
         \/ \E f \in Frames : /\ v = Append(w, f) /\ ~FailedEnd(f, s)
                              /\ Carries(f, s) => obj[s]["server"].outbound # <<>>
  <2>1. There => obj[s]["server"].outbound = <<>>
    BY DEF Failed, FlushingOf
  <2> /\ Behind(v, s)
      /\ (\E i \in DOMAIN v : FailedEnd(v[i], s)) => There
    BY <2>1, BehindKept
  <2> ASSUME NEW i \in DOMAIN v, FailedEnd(v[i], s)
      PROVE  Failed(s)' /\ (Takes(s, "client")' => Complete(s)')
    <3> Failed(s) /\ (Takes(s, "client") => Complete(s))
      OBVIOUS
    <3>1. v # <<>>
      BY SMTT(200)
    <3>2. Takes(s, "client")' => Takes(s, "client")
      BY DEF Failed
    <3> QED
      BY <3>1, <3>2, CompleteKept, FailedKept
  <2> QED
    BY DEF AnnouncedOf, Behind
<1> CASE HandlerEnd(s) /\ StatusOf(herr[s]) = "failed" /\ Live("server") /\ v = Append(w, StreamEnd(s, "failed"))
  <2> hpc[s] = "finishing"
    BY DEF HandlerEnd
  <2>1. ~There
    BY DEF Failed
  <2>2. Failed(s)' /\ (Takes(s, "client")' => Complete(s)')
    BY CompleteBegun
  <2>3. PICK f \in Frames : f = StreamEnd(s, "failed") /\ ~Carries(f, s) /\ v = Append(w, f)
    BY ErrorTypes, PlainFrames DEF NotCarries
  <2>4. Behind(v, s)
    BY <2>1, <2>3, BehindBegun
  <2> QED
    BY <2>2, <2>4 DEF AnnouncedOf, Behind
<1>1. WireMoves(s)
  BY WireHow
<1> QED
  BY <1>1 DEF WireMoves

-----------------------------------------------------------------------------
(* The theorem.                                                              *)

\* Nothing is on the wire at first, and nothing is over.
LEMMA FailingInit == Init => Announced /\ Learnt
<1> SUFFICES ASSUME Init, NEW s \in Streams PROVE AnnouncedOf(s) /\ LearntOf(s) /\ terminal["client"] # "failed"
  BY DEF Announced, Learnt
<1>1. /\ obj[s]["client"] = newStream /\ rend[s]["client"] = "none" /\ wire["server"] = <<>>
      /\ terminal["client"] = "none"
  BY Places DEF Init
<1>2. newStream.fin = "none" /\ newStream.inb = "open" /\ DOMAIN <<>> = {}
  BY SMTT(200) DEF newStream
<1> QED
  BY <1>1, <1>2 DEF AnnouncedOf, LearntOf

\* Every step keeps the four of them.
LEMMA FailingNext ==
    Base /\ Flowing /\ Unbarred /\ Flushing /\ Announced /\ Learnt /\ [Next]_vars => Announced' /\ Learnt'
<1> SUFFICES ASSUME Base, Flowing, Unbarred, Flushing, Announced, Learnt, [Next]_vars, NEW s \in Streams
             PROVE  AnnouncedOf(s)' /\ LearntOf(s)' /\ terminal'["client"] # "failed"
  BY DEF Announced, Learnt
<1>1. AnnouncedOf(s) /\ LearntOf(s) /\ FlushingOf(s) /\ terminal["client"] # "failed"
  BY DEF Announced, Learnt, Flushing
<1>2. ServerMoves(s)
  BY StepMoves DEF Moves
<1> QED
  BY <1>1, <1>2, AnnouncedKept, LearntKept, EndsHow

\* A caller whose stream ends with the failure of its handler has received every
\* message that the handler sent (flushOutbound, finishStream).
THEOREM FailureSafety == Spec => []FailureAfterData
<1>1. Typed /\ Learnt => FailureAfterData
  <2> SUFFICES ASSUME Typed, Learnt, NEW s \in Streams, rend[s]["client"] = "failed"
               PROVE  Len(received[s]["client"]) = sent[s]["server"]
    BY DEF FailureAfterData
  <2> obj[s]["client"].inbound = <<>> /\ Had(s, "client") = sent[s]["server"]
    BY DEF Learnt, LearntOf
  <2>1. Had(s, "client") = Len(received[s]["client"]) + Len(<<>>) /\ received[s]["client"] \in Seq(Nat)
    BY DirectionTypes, Places DEF Had
  <2>2. Had(s, "client") = Len(received[s]["client"])
    BY <2>1, SMTT(200)
  <2> QED
    BY <2>2
<1>2. Base => Typed
  BY DEF Base
<1> QED
  BY <1>1, <1>2, FlowInvariant, BaseInvariant, FlushingInit, FlushingNext, FailingInit, FailingNext, PTL DEF Spec
=============================================================================
