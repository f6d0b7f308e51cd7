------------------------- MODULE StreamServeProofs -------------------------
(***************************************************************************)
(* Machine-checked proofs about Streams, continued: the counters of a      *)
(* serving endpoint, and the acknowledgement of an OpenStream.             *)
(***************************************************************************)
EXTENDS StreamOrderProofs, FiniteSetTheorems

USE ZenonT(200)

-----------------------------------------------------------------------------
(* The server's gate and the router's slots.                                 *)

Active == {s \in Streams : hpc[s] \notin {"none", "done"}}
Running == {s \in Streams : hpc[s] = "running"}
\* The gate counts the streams under way, the slots at least the handlers.
Counting ==
    /\ streamGate = Cardinality(Active) /\ streamGate <= MaxConcurrentStreams
    /\ streamSlots >= Cardinality(Running)
    /\ Up => streamSlots = Cardinality(Running)

\* What the counters count is finite.
LEMMA CountTypes ==
    /\ IsFiniteSet(Active) /\ Cardinality(Active) \in Nat
    /\ IsFiniteSet(Running) /\ Cardinality(Running) \in Nat
<1>1. Active \subseteq Streams /\ Running \subseteq Streams
  BY SMTT(200) DEF Active, Running
<1> QED
  BY <1>1, LimitAssumption, FS_Subset, FS_CardinalityType, SMTT(200)

\* A step that neither takes nor gives back a place keeps the counts.
LEMMA CountKept ==
    ASSUME Typed, Counting, NoTurn, Up' => Up
    PROVE  Counting'
<1> USE SMTT(200)
<1>1. Active' = Active /\ Running' = Running
  BY DEF Active, Running, NoTurn
<1> Cardinality(Running) \in Nat /\ streamGate \in Int /\ streamSlots \in Int
  BY CountTypes DEF Typed, ServeType
<1>2. /\ streamGate' = Cardinality(Active') /\ streamGate' <= MaxConcurrentStreams
      /\ streamSlots' >= Cardinality(Running') /\ (Up' => streamSlots' = Cardinality(Running'))
  <2> PICK n, m : n = Cardinality(Active) /\ m = Cardinality(Running)
    OBVIOUS
  <2>1. /\ m \in Nat /\ streamGate = n /\ streamGate <= MaxConcurrentStreams
        /\ streamSlots >= m /\ (Up => streamSlots = m)
    BY DEF Counting
  <2>2. Cardinality(Active') = n /\ Cardinality(Running') = m
    BY <1>1
  <2>3. /\ streamGate' = n /\ streamGate' <= MaxConcurrentStreams /\ streamSlots' >= m /\ (Up' => streamSlots' = m)
    BY <2>1 DEF NoTurn
  <2> QED
    BY <2>2, <2>3
<1> QED
  BY <1>2 DEF Counting, Active, Running, Up

\* A server whose session has ended stays so.
LEMMA DownForGood ==
    ASSUME Typed, [Next]_vars
    PROVE  Up' => Up
  BY Fading DEF Typed, ConnType, Up

\* Most steps leave the counts and what they count.
LEMMA CountServed ==
    ASSUME Typed, Counting, NEW s \in Streams, HandlerReturn(s) \/ ServeStep(s), Up' => Up
    PROVE  Counting'
<1>1. /\ ServeType /\ streamGate \in Int /\ streamSlots \in Int /\ MaxConcurrentStreams \in Nat
      /\ hpc \in [Streams -> {"none", "running", "closing", "flushing", "barrier", "flushed", "finishing",
                              "releasing", "done"}]
  BY LimitAssumption, SMTT(200) DEF Typed, ServeType
<1>2. PICK n, m \in Nat : n = Cardinality(Active) /\ m = Cardinality(Running)
  BY CountTypes, SMTT(200)
<1>3. streamGate = n /\ streamGate <= MaxConcurrentStreams /\ streamSlots >= m /\ (Up => streamSlots = m)
  BY <1>2, SMTT(200) DEF Counting
<1>4. CASE HandlerReturn(s)
  <2>1. PICK to \in {"closing", "flushing", "releasing"} : hpc' = [hpc EXCEPT ![s] = to]
    BY <1>4 DEF HandlerReturn
  <2>2. hpc[s] = "running" /\ streamGate' = streamGate /\ streamSlots' = streamSlots - 1
    BY <1>4, SMTT(200) DEF HandlerReturn, release
  <2>3. Active' = Active /\ Running' = Running \ {s} /\ s \in Running
    BY <1>1, <2>1, <2>2, SMTT(200) DEF Active, Running
  <2>4. Cardinality(Running') = m - 1 /\ Cardinality(Active') = n
    BY <1>2, <2>3, CountTypes, FS_RemoveElement
  <2>5. /\ streamGate' = n /\ streamGate' <= MaxConcurrentStreams
        /\ streamSlots' >= m - 1 /\ (Up' => streamSlots' = m - 1)
    BY <1>1, <1>2, <1>3, <2>2, SMTT(200)
  <2>6. /\ streamGate' = Cardinality(Active') /\ streamGate' <= MaxConcurrentStreams
        /\ streamSlots' >= Cardinality(Running') /\ (Up' => streamSlots' = Cardinality(Running'))
    BY <2>4, <2>5
  <2> QED
    BY <2>6, SMTT(200) DEF Counting, Active, Running, Up
<1>5. CASE HandlerRelease(s)
  <2>1. hpc' = [hpc EXCEPT ![s] = "done"] /\ hpc[s] = "releasing" /\ streamGate' = streamGate - 1 /\ UNCHANGED streamSlots
    BY <1>5, SMTT(200) DEF HandlerRelease, release
  <2>2. Active' = Active \ {s} /\ Running' = Running /\ s \in Active
    BY <1>1, <2>1, SMTT(200) DEF Active, Running
  <2>3. Cardinality(Active') = n - 1 /\ Cardinality(Running') = m
    BY <1>2, <2>2, CountTypes, FS_RemoveElement
  <2>4. /\ streamGate' = n - 1 /\ streamGate' <= MaxConcurrentStreams
        /\ streamSlots' >= m /\ (Up' => streamSlots' = m)
    BY <1>1, <1>2, <1>3, <2>1, SMTT(200)
  <2>5. /\ streamGate' = Cardinality(Active') /\ streamGate' <= MaxConcurrentStreams
        /\ streamSlots' >= Cardinality(Running') /\ (Up' => streamSlots' = Cardinality(Running'))
    BY <2>3, <2>4
  <2> QED
    BY <2>5, SMTT(200) DEF Counting, Active, Running, Up
<1>6. ASSUME NEW to \in {"barrier", "finishing", "releasing"}, hpc' = [hpc EXCEPT ![s] = to],
             hpc[s] \notin {"none", "done", "running"}, UNCHANGED <<streamGate, streamSlots>>
      PROVE  Counting'
  <2>1. NoTurn
    BY <1>1, <1>6, SMTT(200) DEF NoTurn
  <2> QED
    BY <2>1, CountKept, SMTT(200)
<1>7. CASE FlushEnqueue(s) \/ HandlerEnd(s)
  BY <1>6, <1>7, SMTT(200) DEF FlushEnqueue, HandlerEnd
<1>8. CASE HandlerClosed(s) \/ HandlerFlushed(s) \/ HandlerFlushCancelled(s)
  <2>1. /\ hpc' = [hpc EXCEPT ![s] = "finishing"] /\ UNCHANGED <<streamGate, streamSlots>>
        /\ hpc[s] \notin {"none", "done", "running"}
    BY <1>8, SMTT(200) DEF HandlerClosed, HandlerFlushed, HandlerFlushCancelled, HandlerFinish
  <2> QED
    BY <1>6, <2>1, SMTT(200)
<1>9. CASE CloseSendBegin(s, "server")
  <2>1. UNCHANGED <<hpc, streamGate, streamSlots>>
    BY <1>9 DEF CloseSendBegin, objOnly, serveVars
  <2>2. NoTurn
    BY <2>1, SMTT(200) DEF NoTurn
  <2> QED
    BY <2>2, CountKept, SMTT(200)
<1> QED
  BY <1>4, <1>5, <1>7, <1>8, <1>9, SMTT(200) DEF ServeStep

\* The server takes a place for a stream that it accepts.
LEMMA CountOpened ==
    ASSUME Typed, Counting, Opening, ReadOpenStream, Up' => Up
    PROVE  Counting'
<1>1. /\ ConnType /\ streamGate \in Int /\ streamSlots \in Int /\ MaxConcurrentStreams \in Nat
      /\ hpc \in [Streams -> {"none", "running", "closing", "flushing", "barrier", "flushed", "finishing",
                              "releasing", "done"}]
      /\ "server" \in Endpoints /\ "client" \in Endpoints /\ Other("server") = "client"
  BY LimitAssumption, Places, SMTT(200) DEF Typed, ServeType, Other
<1>2. PICK n, m \in Nat : n = Cardinality(Active) /\ m = Cardinality(Running)
  BY CountTypes, SMTT(200)
<1>3. streamGate = n /\ streamGate <= MaxConcurrentStreams /\ streamSlots >= m /\ (Up => streamSlots = m)
  BY <1>2, SMTT(200) DEF Counting
<1>4. ArrivesAt("server", "OpenStream") /\ UNCHANGED <<linkUp, open>>
  BY SMTT(200) DEF ReadOpenStream
<1>5. PICK s \in Streams : s = Arriving("server").s
  BY <1>1, <1>4, ArrivalType, SMTT(200)
<1>6. hpc[s] = "none"
  BY <1>4, <1>5, NotServed, SMTT(200)
<1>7. CASE UNCHANGED <<streamGate, streamSlots, hpc>>
  <2>1. NoTurn
    BY <1>7, SMTT(200) DEF NoTurn
  <2> QED
    BY <2>1, CountKept, SMTT(200)
<1>8. CASE /\ streamGate # MaxConcurrentStreams
           /\ streamGate' = streamGate + 1 /\ streamSlots' = streamSlots + 1 /\ hpc' = [hpc EXCEPT ![s] = "running"]
  <2>1. Active' = Active \cup {s} /\ Running' = Running \cup {s} /\ s \notin Active /\ s \notin Running
    BY <1>1, <1>6, <1>8, SMTT(200) DEF Active, Running
  <2>2. Cardinality(Active') = n + 1 /\ Cardinality(Running') = m + 1
    BY <1>2, <2>1, CountTypes, FS_AddElement
  <2>3. /\ streamGate' = n + 1 /\ streamGate' <= MaxConcurrentStreams
        /\ streamSlots' >= m + 1 /\ (Up' => streamSlots' = m + 1)
    BY <1>1, <1>2, <1>3, <1>8, SMTT(200)
  <2>4. /\ streamGate' = Cardinality(Active') /\ streamGate' <= MaxConcurrentStreams
        /\ streamSlots' >= Cardinality(Running') /\ (Up' => streamSlots' = Cardinality(Running'))
    BY <2>2, <2>3
  <2> QED
    BY <2>4, SMTT(200) DEF Counting, Active, Running, Up
<1>9. CASE /\ WriteFails(Consumed("server"), Reader("server"))
           /\ streamSlots' = streamSlots + 1 /\ UNCHANGED <<streamGate, hpc>>
  <2>1. ~Up'
    <3>1. WriteCanFail("server")
      BY <1>9, Places, SMTT(200) DEF WriteFails
    <3> QED
      BY <1>1, <1>4, <3>1, SMTT(200) DEF WriteCanFail, Up
  <2>2. NoTurn
    BY <1>9, <2>1, SMTT(200) DEF NoTurn
  <2> QED
    BY <2>2, CountKept, SMTT(200)
<1> QED
  BY <1>5, <1>7, <1>8, <1>9, SMTT(200) DEF ReadOpenStream, acquire

\* The counters count what they should in every reachable state.
LEMMA CountInvariant == Spec => []Counting
<1> USE SMTT(200)
<1>1. Init => Counting
  <2> SUFFICES ASSUME Init PROVE Counting
    OBVIOUS
  <2>1. Active = {} /\ Running = {}
    BY DEF Init, Active, Running
  <2>2. Cardinality(Active) = 0 /\ Cardinality(Running) = 0
    BY <2>1, FS_EmptySet
  <2>3. streamGate = 0 /\ streamSlots = 0 /\ MaxConcurrentStreams \in Nat
    BY LimitAssumption DEF Init
  <2> QED
    BY <2>2, <2>3 DEF Counting
<1>2. Base /\ Counting /\ [Next]_vars => Counting'
  <2> SUFFICES ASSUME Typed, Opening, Counting, [Next]_vars PROVE Counting'
    BY DEF Base
  <2> Up' => Up
    BY DownForGood
  <2>1. NoTurn => Counting'
    BY CountKept
  <2>2. ReadOpenStream => Counting'
    BY CountOpened
  <2> ASSUME NEW s \in Streams, HandlerReturn(s) \/ ServeStep(s) PROVE Counting'
    BY CountServed
  <2> QED
    BY <2>1, <2>2, CountOther DEF Next
<1> QED
  BY <1>1, <1>2, BaseInvariant, PTL DEF Spec

\* Types, with the bounds of the queues and of the gate: streamGate never exceeds
\* Limits.MaxConcurrentStreams and neither counter is released too often.
THEOREM TypeCorrect == Spec => []TypeOK
<1>1. Typed /\ Counting => TypeOK
  <2> USE SMTT(200)
  <2> SUFFICES ASSUME Typed, Counting PROVE TypeOK
    OBVIOUS
  <2>1. streamGate \in 0 .. MaxConcurrentStreams /\ streamSlots \in Nat
    <3> PICK n, m \in Nat : n = Cardinality(Active) /\ m = Cardinality(Running)
      BY CountTypes
    <3>1. streamGate = n /\ streamSlots >= m /\ streamGate <= MaxConcurrentStreams /\ streamSlots \in Int
      BY DEF Counting, Typed, ServeType
    <3> QED
      BY <3>1, LimitAssumption
  <2>2. /\ obj \in [Streams -> [Endpoints -> StreamObjects]]
        /\ \A s \in Streams, e \in Endpoints :
              Len(obj[s][e].inbound) <= MaxStreamQueueDepth /\ Len(obj[s][e].outbound) <= MaxStreamQueueDepth
    BY DEF Typed, ObjType, BoundedObjects
  <2> QED
    BY <2>1, <2>2 DEF TypeOK, Typed, ConnType, SessType, EndType, ReadType, OpenType, ServeType, AppType
<1> QED
  BY <1>1, LockInvariant, CountInvariant, PTL

\* The gate of the server counts exactly the streams under way, whatever happens
\* to their sessions.
THEOREM GateCounts == Spec => []GateExact
<1>1. Counting => GateExact
  BY SMTT(200) DEF Counting, Active, GateExact
<1> QED
  BY <1>1, CountInvariant, PTL

\* The slots of the router count exactly the running handlers for as long as the
\* network and both sessions are up.
THEOREM SlotsCount == Spec => []SlotsExactWhileUp
<1>1. Counting => SlotsExactWhileUp
  BY SMTT(200) DEF Counting, Running, Up, SlotsExactWhileUp, SlotsExact
<1> QED
  BY <1>1, CountInvariant, PTL

-----------------------------------------------------------------------------
(* The acknowledgement of an OpenStream.                                     *)

\* The acknowledgement is on the wire, and ahead of whatever the stream carries.
Acked(w, s) == \E j \in DOMAIN w : Acks(w[j], s)
AckedFirst(w, s) == \A i \in DOMAIN w : Carries(w[i], s) => \E j \in DOMAIN w : j < i /\ Acks(w[j], s)

\* While an OpenStream waits, the acknowledgement that a handler began with is
\* still to be read, unless it will never be.
AcknowledgedOf(s) ==
    s \in opens => /\ AckedFirst(wire["server"], s)
                   /\ hpc[s] # "none" /\ Live("server") => Acked(wire["server"], s)
Acknowledged == \A s \in Streams : AcknowledgedOf(s)

\* A frame is written behind the acknowledgement, or it carries nothing.
LEMMA AckGrows ==
    ASSUME NEW s \in Streams, NEW w \in Seq(Frames), NEW f \in Frames, AckedFirst(w, s), Acked(w, s) \/ ~Carries(f, s)
    PROVE  AckedFirst(Append(w, f), s) /\ (Acked(w, s) \/ Acks(f, s) => Acked(Append(w, f), s))
<1> DEFINE v == Append(w, f)
           n == Len(w) + 1
<1> /\ v[n] = f /\ n \in DOMAIN v /\ n \in Nat
    /\ \A i \in DOMAIN w : i \in DOMAIN v /\ v[i] = w[i] /\ i \in Nat /\ i < n
    /\ \A i \in DOMAIN v : i = n \/ i \in DOMAIN w
  BY Grown, SMTT(200)
<1> HIDE DEF v, n
<1>1. ASSUME NEW i \in DOMAIN v, Carries(v[i], s) PROVE \E j \in DOMAIN v : j < i /\ Acks(v[j], s)
  <2> USE <1>1
  <2> CASE i \in DOMAIN w
    <3>1. PICK j \in DOMAIN w : j < i /\ Acks(w[j], s)
      BY DEF AckedFirst
    <3> QED
      BY <3>1
  <2> CASE i = n
    <3>1. PICK j \in DOMAIN w : Acks(w[j], s)
      BY DEF Acked
    <3> QED
      BY <3>1
  <2> QED
    OBVIOUS
<1>2. AckedFirst(v, s)
  BY <1>1 DEF AckedFirst
<1>3. Acked(w, s) \/ Acks(f, s) => Acked(v, s)
  BY DEF Acked
<1> QED
  BY <1>2, <1>3 DEF v

\* A frame that is no acknowledgement of the stream is read.
LEMMA AckShrinks ==
    ASSUME NEW s \in Streams, NEW w \in Seq(Frames), w # <<>>, AckedFirst(w, s), ~Acks(Head(w), s)
    PROVE  AckedFirst(Tail(w), s) /\ (Acked(w, s) => Acked(Tail(w), s))
<1> DEFINE v == Tail(w)
<1> /\ Head(w) = w[1]
    /\ \A i \in DOMAIN v : i \in Nat \ {0} /\ i + 1 \in DOMAIN w /\ v[i] = w[i + 1]
    /\ \A i \in DOMAIN w : i = 1 \/ (i \in Nat /\ i > 1 /\ i - 1 \in DOMAIN v /\ v[i - 1] = w[i])
  BY Shrunk
<1> HIDE DEF v
<1>1. ASSUME NEW i \in DOMAIN v, Carries(v[i], s) PROVE \E j \in DOMAIN v : j < i /\ Acks(v[j], s)
  <2> PICK j \in DOMAIN w : j < i + 1 /\ Acks(w[j], s)
    BY <1>1 DEF AckedFirst
  <2> j \in Nat /\ j - 1 \in DOMAIN v /\ v[j - 1] = w[j]
    OBVIOUS
  <2>1. j - 1 < i
    BY SMTT(200)
  <2> QED
    BY <2>1
<1>2. AckedFirst(v, s)
  BY <1>1 DEF AckedFirst
<1>3. Acked(w, s) => Acked(v, s)
  BY DEF Acked
<1> QED
  BY <1>2, <1>3 DEF v

\* A wire that carries nothing needs no acknowledgement.
LEMMA AckNothing ==
    ASSUME NEW s \in Streams, NEW w \in Seq(NotCarries(s))
    PROVE  AckedFirst(w, s)
<1>1. \A i \in DOMAIN w : w[i] \in NotCarries(s)
  BY SMTT(200)
<1> QED
  BY <1>1 DEF AckedFirst, NotCarries

\* What a step may do to a stream whose acknowledgement is on its way.
AckCalm(s) ==
    LET w == wire["server"]
        v == wire'["server"]
    IN
    /\ s \in opens' => s \in opens
    /\ hpc'[s] # "none" => hpc[s] # "none"
    /\ \/ v = w
       \/ \E f \in NotCarries(s) : v = Append(w, f)
       \/ w # <<>> /\ v = Tail(w) /\ (~Acks(Head(w), s) \/ s \notin opens')
       \/ v = <<>> /\ reader'["client"] = "stopped"

\* Such a step keeps the acknowledgement ahead.
LEMMA AckKept ==
    ASSUME Typed, [Next]_vars, NEW s \in Streams, AcknowledgedOf(s), AckCalm(s)
    PROVE  AcknowledgedOf(s)'
<1> SUFFICES ASSUME s \in opens'
             PROVE  /\ AckedFirst(wire'["server"], s)
                    /\ hpc'[s] # "none" /\ Live("server")' => Acked(wire'["server"], s)
  BY DEF AcknowledgedOf
<1> PICK w \in Seq(Frames) : w = wire["server"]
  BY Places DEF Typed, ConnType
<1> Live("server")' => Live("server")
  BY LiveForGood, Places
<1> AckedFirst(w, s) /\ (hpc'[s] # "none" /\ Live("server") => Acked(w, s))
  BY DEF AcknowledgedOf, AckCalm
<1> CASE wire'["server"] = w
  OBVIOUS
<1> ASSUME NEW f \in NotCarries(s), wire'["server"] = Append(w, f)
    PROVE  /\ AckedFirst(wire'["server"], s)
           /\ hpc'[s] # "none" /\ Live("server")' => Acked(wire'["server"], s)
  BY AckGrows DEF NotCarries
<1> CASE w # <<>> /\ wire'["server"] = Tail(w) /\ ~Acks(Head(w), s)
  BY AckShrinks
<1> CASE wire'["server"] = <<>> /\ reader'["client"] = "stopped"
  <2>1. <<>> \in Seq(NotCarries(s))
    BY SMTT(200)
  <2>2. Other("server") = "client"
    BY DEF Other
  <2> QED
    BY <2>1, <2>2, AckNothing DEF Live
<1> QED
  BY DEF AckCalm

\* Steps of the client, but for the one that opens a stream.
LEMMA AckClient ==
    ASSUME Typed, NEW s \in Streams,
           OpenCheck(s) \/ CancelCaller(s) \/ (OpenStep(s) /\ ~OpenWrite(s)) \/ FollowStep(s)
    PROVE  \A r \in Streams : AckCalm(r)
<1>1. opens' \subseteq opens /\ UNCHANGED hpc
  BY DEF OpenCheck, CancelCaller, OpenStep, OpenSettled, OpenCancelled, OpenNotify, OpenReturn,
         FollowStep, FollowFind, Follow, FollowNotify, engineVars, sessionVars, serveVars
<1>2. wire'["server"] = wire["server"]
  <2>1. wire \in [Endpoints -> Seq(Frames)] /\ "server" \in Endpoints /\ "server" # "client"
    BY Places DEF Typed, ConnType
  <2>2. \E t \in {Opener(s), Follower(s)} :
            \/ UNCHANGED wire
            \/ WriteOK(wire, t, StreamEnd(s, "canceled")) \/ WriteFails(wire, t)
    BY DEF OpenCheck, CancelCaller, OpenStep, OpenSettled, OpenCancelled, OpenNotify, OpenReturn,
           FollowStep, FollowFind, Follow, FollowNotify, sendFrame, engineVars, connVars
  <2> QED
    BY <2>1, <2>2, SendEffect, Places
<1> QED
  BY <1>1, <1>2 DEF AckCalm

\* Steps of a serving goroutine.
LEMMA AckServer ==
    ASSUME Typed, NEW s \in Streams, HandlerReturn(s) \/ ServeStep(s)
    PROVE  \A r \in Streams : AckCalm(r)
<1>1. UNCHANGED opens
  BY DEF HandlerReturn, ServeStep, CloseSendBegin, FlushEnqueue, HandlerClosed, HandlerFlushed,
         HandlerFlushCancelled, HandlerFinish, HandlerEnd, HandlerRelease, objOnly, engineVars, sessionVars
<1>2. \A r \in Streams : hpc'[r] # "none" => hpc[r] # "none"
  <2>1. hpc \in [Streams -> {"none", "running", "closing", "flushing", "barrier", "flushed", "finishing",
                             "releasing", "done"}]
    BY DEF Typed, ServeType
  <2>2. UNCHANGED hpc \/ (hpc[s] # "none" /\ \E to : hpc' = [hpc EXCEPT ![s] = to])
    BY DEF HandlerReturn, ServeStep, CloseSendBegin, FlushEnqueue, HandlerClosed, HandlerFlushed,
           HandlerFlushCancelled, HandlerFinish, HandlerEnd, HandlerRelease, objOnly, serveVars
  <2> QED
    BY <2>1, <2>2
<1>3. StatusOf(herr[s]) \in Statuses
  BY ErrorTypes DEF Typed, ServeType
<1>4. UNCHANGED wire \/ WriteOK(wire, Handler(s), StreamEnd(s, StatusOf(herr[s]))) \/ WriteFails(wire, Handler(s))
  BY DEF HandlerReturn, ServeStep, CloseSendBegin, FlushEnqueue, HandlerClosed, HandlerFlushed,
         HandlerFlushCancelled, HandlerFinish, HandlerEnd, HandlerRelease, objOnly, sendFrame, engineVars, connVars
<1>5. wire'["server"] = wire["server"] \/ wire'["server"] = Append(wire["server"], StreamEnd(s, StatusOf(herr[s])))
  <2>1. wire \in [Endpoints -> Seq(Frames)] /\ "server" \in Endpoints /\ Handler(s) \in Threads
    BY Places DEF Typed, ConnType
  <2> QED
    BY <1>4, <2>1, SendEffect
<1> QED
  BY <1>1, <1>2, <1>3, <1>5, PlainFrames DEF AckCalm

\* Steps of the holders of a stream.
LEMMA AckHeld ==
    ASSUME NEW s \in Streams, NEW e \in Endpoints,
           Send(s, e) \/ CloseSendBegin(s, e) \/ CloseSendStep(s, e) \/ RecvStep(s, e)
    PROVE  \A r \in Streams : AckCalm(r)
<1>1. UNCHANGED <<opens, hpc, wire>>
  BY DEF Send, CloseSendBegin, CloseSendStep, CloseSendEnqueue, CloseSendWritten, CloseSendCancelled, RecvStep,
         RecvMessage, RecvEnd, RecvCancelled, objOnly, engineVars, sessionVars, connVars, serveVars
<1> QED
  BY <1>1 DEF AckCalm

\* Steps of the connection.
LEMMA AckOther ==
    ASSUME Typed,
           (\E e \in Endpoints : Close(e)) \/ (\E t \in Threads : EndRelease(t)) \/ LoseLink \/ UNCHANGED vars
    PROVE  \A r \in Streams : AckCalm(r)
<1>1. opens' \subseteq opens /\ UNCHANGED hpc
  BY DEF Close, EndRelease, LoseLink, vars, engineVars, sessionVars, serveVars
<1>2. wire'["server"] = wire["server"] \/ wire'["server"] = Append(wire["server"], CloseFrame)
  <2>1. wire \in [Endpoints -> Seq(Frames)] /\ "server" \in Endpoints
    BY Places DEF Typed, ConnType
  <2>2. UNCHANGED wire \/ \E e \in Endpoints : wire' = Transmit(wire, e, CloseFrame)
    BY DEF Close, EndRelease, LoseLink, vars, engineVars, connVars
  <2> QED
    BY <2>1, <2>2, SMTT(200) DEF Transmit
<1> QED
  BY <1>1, <1>2, PlainFrames DEF AckCalm

\* The pump writes only for a stream that is served.
LEMMA AckPump ==
    ASSUME Typed, [Next]_vars, Flowing, Acknowledged, NEW s \in Streams, NEW e \in Endpoints, PumpItem(s, e)
    PROVE  Acknowledged'
<1> ObjType /\ "server" \in Endpoints /\ "client" \in Endpoints /\ Other("client") = "server"
  BY DEF Typed, Endpoints, Other
<1> UNCHANGED opens
  BY DEF PumpItem
<1> \A r \in Streams : hpc'[r] # "none" => hpc[r] # "none"
  BY CountOther DEF NoTurn
<1> PICK p : PumpTakes(s, e, p)
  BY PumpEffect
<1> PICK f \in Frames : /\ UNCHANGED wire \/ WriteOK(wire, Pump(s, e), f) \/ WriteFails(wire, Pump(s, e))
                        /\ \A r \in Streams : r # s => f \in NotCarries(r)
  <2>1. Head(obj[s][e].outbound).n \in Nat
    <3>1. obj[s][e] \in BoundedObjects /\ obj[s][e].outbound # <<>>
      BY DEF PumpTakes, ObjType
    <3>2. Head(obj[s][e].outbound) \in Items
      BY <3>1, ObjectUpdates
    <3> QED
      BY <3>2 DEF Items
  <2>2. \A n \in Nat : /\ Data(s, n) \in Frames /\ CloseSendFrame(s) \in Frames
                       /\ \A r \in Streams : r # s => Data(s, n) \in NotCarries(r) /\ CloseSendFrame(s) \in NotCarries(r)
    BY PlainFrames, FrameTypes
  <2> QED
    BY <2>1, <2>2 DEF PumpTakes
<1> CASE wire'["server"] = wire["server"]
  BY AckKept DEF Acknowledged, AckCalm
<1> CASE wire'["server"] # wire["server"]
  <2> wire \in [Endpoints -> Seq(Frames)] /\ Pump(s, e) \in Threads /\ Home(Pump(s, e)) = e
    BY Places DEF Typed, ConnType
  <2> e = "server" /\ wire'["server"] = Append(wire["server"], f)
    BY SendEffect
  <2>1. Live("server")
    <3>1. WriteOK(wire, Pump(s, e), f)
      BY DEF WriteFails
    <3> QED
      BY <3>1, WriteLive
  <2>2. hpc[s] # "none"
    <3>1. obj[s][e].outbound # <<>>
      BY DEF PumpTakes
    <3>2. SendingOf(s, "server")
      BY FlowAt
    <3> QED
      BY <3>1, <3>2, SMTT(200) DEF SendingOf, Opened
  <2>3. AcknowledgedOf(s)'
    <3>1. s \in opens => AckedFirst(wire["server"], s) /\ Acked(wire["server"], s)
      BY <2>1, <2>2 DEF Acknowledged, AcknowledgedOf
    <3> QED
      BY <3>1, AckGrows DEF AcknowledgedOf
  <2> ASSUME NEW r \in Streams, r # s PROVE AcknowledgedOf(r)'
    BY AckKept DEF Acknowledged, AckCalm
  <2> QED
    BY <2>3 DEF Acknowledged
<1> QED
  OBVIOUS

\* The read loops, but for a stream that is accepted.
LEMMA AckRead ==
    ASSUME Typed, Locks, NEW e \in Endpoints, ReadStep(e), UNCHANGED hpc
    PROVE  \A r \in Streams : AckCalm(r)
<1> /\ ConnType /\ wire \in [Endpoints -> Seq(Frames)] /\ "server" \in Endpoints /\ "client" \in Endpoints
    /\ "server" # "client" /\ Other("client") = "server" /\ Other("server") = "client" /\ Reader(e) \in Threads
    /\ e = "client" \/ e = "server"
  BY Places DEF Typed, ConnType, Other, Endpoints
<1>1. ASSUME NEW type \in {"Data", "CloseSend", "StreamEnd"}, ArrivesAt(e, type), wire' = Consumed(e), opens' \subseteq opens
      PROVE  \A r \in Streams : AckCalm(r)
  <2> USE <1>1
  <2>1. wire'[Other(e)] = Tail(wire[Other(e)]) /\ \A d \in Endpoints : d # Other(e) => wire'[d] = wire[d]
    BY Consuming
  <2>2. e = "client" => \A r \in Streams : wire["server"] # <<>> /\ ~Acks(Head(wire["server"]), r)
    BY DEF ArrivesAt, Arriving, Acks
  <2> QED
    BY <2>1, <2>2 DEF AckCalm
<1> CASE ReadData(e) \/ ReadCloseSend(e) \/ ReadStreamEnd(e)
  BY <1>1 DEF ReadData, ReadCloseSend, ReadStreamEnd, takeOpen
<1> CASE e = "client" /\ ReadAck
  <2> wire'["server"] = Tail(wire["server"]) /\ wire["server"] # <<>> /\ opens' = opens \ {Head(wire["server"]).s}
    BY Consuming DEF ReadAck, ArrivesAt, Arriving, takeOpen
  <2>1. \A r \in Streams : Acks(Head(wire["server"]), r) => r \notin opens'
    BY DEF Acks
  <2> QED
    BY <2>1 DEF AckCalm
<1>2. ASSUME NEW cause, StopReading(e, cause) PROVE \A r \in Streams : AckCalm(r)
  <2> /\ wire' = [wire EXCEPT ![Other(e)] = <<>>] /\ reader' = [reader EXCEPT ![e] = "stopped"] /\ UNCHANGED opens
      /\ reader \in [Endpoints -> {"read", "deliver", "blocked", "stopped"}]
    BY <1>2 DEF StopReading, Typed, ReadType
  <2>1. \/ wire'["server"] = wire["server"]
        \/ wire'["server"] = <<>> /\ reader'["client"] = "stopped"
    OBVIOUS
  <2> QED
    BY <2>1 DEF AckCalm
<1> CASE ReadClose(e) \/ ReadEOF(e) \/ ReadError(e)
  BY <1>2 DEF ReadClose, ReadEOF, ReadError
<1>3. ASSUME UNCHANGED opens, NEW f, \A r \in Streams : f \in NotCarries(r),
             wire'["server"] = wire["server"] \/ wire'["server"] = Append(wire["server"], f)
      PROVE  \A r \in Streams : AckCalm(r)
  BY <1>3 DEF AckCalm
<1> CASE Deliver(e) \/ DeliverBlocked(e)
  <2>1. CASE UNCHANGED <<wire, opens>>
    BY <2>1 DEF AckCalm
  <2> CASE HandOver(e)
    BY <2>1 DEF HandOver, connVars, sessionVars
  <2> CASE HandOverFails(e)
    BY <1>2 DEF HandOverFails
  <2> CASE reader[e] = "deliver" /\ UNCHANGED opens /\ sendFrame(wire, Reader(e), StreamEnd(delivering[e][1], "tooLarge"))
    <3>1. delivering[e][1] \in Streams
      BY SMTT(200) DEF Typed, ReadType, Locks, Delivery
    <3>2. \A r \in Streams : StreamEnd(delivering[e][1], "tooLarge") \in NotCarries(r)
      BY <3>1, PlainFrames, ErrorTypes
    <3> QED
      BY <1>3, <3>2, SendEffect DEF sendFrame
  <2> QED
    BY <1>2, <2>1 DEF Deliver, DeliverBlocked, connVars, sessionVars
<1> CASE e = "server" /\ ReadOpenStream
  <2> ArrivesAt("server", "OpenStream")
    BY DEF ReadOpenStream
  <2> PICK s \in Streams : s = Arriving("server").s
    BY ArrivalType, SMTT(200)
  <2>1. UNCHANGED opens
    BY DEF ReadOpenStream
  <2> PICK f : /\ \A r \in Streams : f \in NotCarries(r)
               /\ WriteOK(Consumed("server"), Reader("server"), f) \/ WriteFails(Consumed("server"), Reader("server"))
    <3>1. "overloaded" \in Statuses /\ "refused" \in Statuses
      BY DEF Statuses
    <3>2. \A r \in Streams : /\ StreamEnd(s, "overloaded") \in NotCarries(r) /\ StreamEnd(s, "refused") \in NotCarries(r)
                             /\ Ack(s) \in NotCarries(r)
      BY <3>1, PlainFrames
    <3>3. PICK f \in {StreamEnd(s, "overloaded"), StreamEnd(s, "refused"), Ack(s)} :
              WriteOK(Consumed("server"), Reader("server"), f) \/ WriteFails(Consumed("server"), Reader("server"))
      BY DEF ReadOpenStream, sendFrame, acknowledge
    <3> QED
      BY <3>2, <3>3
  <2>2. Consumed("server") \in [Endpoints -> Seq(Frames)]
    BY ArrivalType
  <2>3. wire'["server"] = wire["server"] \/ wire'["server"] = Append(wire["server"], f)
    BY <2>2, ReplyEffect
  <2> QED
    BY <1>3, <2>1, <2>3
<1> QED
  BY DEF ReadStep

\* The server accepts a stream: the acknowledgement is written first.
LEMMA AckAccept ==
    ASSUME Typed, Opening, [Next]_vars, Acknowledged, ReadOpenStream, ~UNCHANGED hpc
    PROVE  Acknowledged'
<1> /\ ConnType /\ wire \in [Endpoints -> Seq(Frames)] /\ "server" \in Endpoints /\ Other("server") = "client"
    /\ Reader("server") \in Threads /\ Home(Reader("server")) = "server"
    /\ ArrivesAt("server", "OpenStream") /\ UNCHANGED opens
    /\ hpc \in [Streams -> {"none", "running", "closing", "flushing", "barrier", "flushed", "finishing",
                            "releasing", "done"}]
  BY Places DEF Typed, ConnType, ServeType, Other, ReadOpenStream
<1> PICK s \in Streams : s = Arriving("server").s
  BY NotServed
<1> WriteOK(Consumed("server"), Reader("server"), Ack(s)) /\ hpc' = [hpc EXCEPT ![s] = "running"]
  BY DEF ReadOpenStream, acknowledge
<1>1. Consumed("server") \in [Endpoints -> Seq(Frames)] /\ Consumed("server")["server"] = wire["server"]
  BY ArrivalType, Consuming
<1> wire'["server"] = IF Live("server") THEN Append(wire["server"], Ack(s)) ELSE wire["server"]
  BY <1>1, SMTT(200) DEF WriteOK, Transmit, Live
<1> \A r \in Streams : Ack(s) \in NotCarries(r)
  BY PlainFrames
<1> ASSUME NEW r \in Streams, r # s PROVE AcknowledgedOf(r)'
  BY AckKept DEF Acknowledged, AckCalm
<1>2. AcknowledgedOf(s)'
  <2>1. s \in opens => AckedFirst(wire["server"], s)
    BY DEF Acknowledged, AcknowledgedOf
  <2>2. Live("server")' => Live("server")
    BY LiveForGood
  <2>3. Acks(Ack(s), s) /\ ~Carries(Ack(s), s) /\ Ack(s) \in Frames
    BY FrameTypes DEF Acks, Ack, NotCarries
  <2>4. s \in opens => /\ AckedFirst(wire'["server"], s)
                       /\ Live("server") => Acked(wire'["server"], s)
    BY <2>1, <2>3, AckGrows
  <2> QED
    BY <2>2, <2>4 DEF AcknowledgedOf
<1> QED
  BY <1>2 DEF Acknowledged

\* An OpenStream begins to wait before anything is sent on its stream.
LEMMA AckOpened ==
    ASSUME Typed, Opening, [Next]_vars, Flowing, Acknowledged, NEW s \in Streams, OpenWrite(s)
    PROVE  Acknowledged'
<1> /\ wire \in [Endpoints -> Seq(Frames)] /\ "server" \in Endpoints /\ "client" \in Endpoints
    /\ "server" # "client" /\ Other("client") = "server" /\ Opener(s) \in Threads /\ Home(Opener(s)) = "client"
  BY Places DEF Typed, ConnType, Other
<1> wire'["server"] = wire["server"] /\ opens' = opens \cup {s} /\ UNCHANGED hpc
  <2>1. UNCHANGED wire \/ WriteOK(wire, Opener(s), OpenStream(s))
    BY DEF OpenWrite
  <2> QED
    BY <2>1, SendEffect DEF OpenWrite, serveVars
<1> hpc[s] = "none"
  BY DEF OpenWrite, Opening, OpeningOf
<1>1. AcknowledgedOf(s)'
  <2>1. SendingOf(s, "server")
    BY FlowAt
  <2>2. wire["server"] \in Seq(NotCarries(s))
    BY <2>1, SMTT(200) DEF SendingOf, Opened
  <2> QED
    BY <2>2, AckNothing DEF AcknowledgedOf
<1> ASSUME NEW r \in Streams, r # s PROVE AcknowledgedOf(r)'
  BY AckKept DEF Acknowledged, AckCalm
<1> QED
  BY <1>1 DEF Acknowledged

\* Every step keeps the acknowledgements ahead.
LEMMA AckNext == Base /\ Flowing /\ Acknowledged /\ [Next]_vars => Acknowledged'
<1> SUFFICES ASSUME Typed, Locks, Opening, Flowing, Acknowledged, [Next]_vars PROVE Acknowledged'
  BY DEF Base
<1>1. ASSUME \A r \in Streams : AckCalm(r) PROVE Acknowledged'
  BY <1>1, AckKept DEF Acknowledged
<1> ASSUME NEW s \in Streams, OpenCheck(s) \/ CancelCaller(s) \/ OpenStep(s) \/ FollowStep(s)
    PROVE  Acknowledged'
  BY <1>1, AckClient, AckOpened
<1> ASSUME NEW s \in Streams, HandlerReturn(s) \/ ServeStep(s)
    PROVE  Acknowledged'
  BY <1>1, AckServer
<1> ASSUME NEW s \in Streams, NEW e \in Endpoints,
           Send(s, e) \/ CloseSendBegin(s, e) \/ CloseSendStep(s, e) \/ RecvStep(s, e) \/ PumpItem(s, e)
    PROVE  Acknowledged'
  BY <1>1, AckHeld, AckPump
<1> ASSUME NEW e \in Endpoints, ReadStep(e)
    PROVE  Acknowledged'
  <2> CASE UNCHANGED hpc
    BY <1>1, AckRead
  <2> CASE ~UNCHANGED hpc
    <3>1. UNCHANGED hpc \/ ReadOpenStream
      BY DEF ReadStep, ReadAck, ReadData, Deliver, DeliverBlocked, HandOver, HandOverFails, StopReading, ReadCloseSend,
             ReadStreamEnd, ReadClose, ReadEOF, ReadError, serveVars
    <3> QED
      BY <3>1, AckAccept
  <2> QED
    OBVIOUS
<1> CASE (\E e \in Endpoints : Close(e)) \/ (\E t \in Threads : EndRelease(t)) \/ LoseLink \/ UNCHANGED vars
  BY <1>1, AckOther
<1> QED
  BY DEF Next

\* No frame of a stream overtakes the acknowledgement of its OpenStream, for any
\* number of streams: settleOpen never takes one for a protocol violation.
THEOREM AckSafety == Spec => []AckComesFirst
<1>1. Init => Acknowledged
  BY DEF Init, Acknowledged, AcknowledgedOf
<1>2. Typed /\ Acknowledged => AckComesFirst
  <2> SUFFICES ASSUME Typed, Acknowledged, wire["server"] # <<>>, Head(wire["server"]).type \in {"Data", "CloseSend"},
                      Head(wire["server"]).s \in opens
               PROVE  FALSE
    BY DEF AckComesFirst
  <2> PICK w \in Seq(Frames) : w = wire["server"]
    BY Places DEF Typed, ConnType
  <2>1. 1 \in DOMAIN w /\ Head(w) = w[1] /\ \A j \in DOMAIN w : ~(j < 1)
    BY SMTT(200)
  <2> PICK s \in Streams : s = Head(w).s
    BY DEF Typed, SessType
  <2>2. AckedFirst(w, s)
    BY DEF Acknowledged, AcknowledgedOf
  <2> QED
    BY <2>1, <2>2 DEF AckedFirst, Carries
<1>3. Base => Typed
  BY DEF Base
<1> QED
  BY <1>1, <1>2, <1>3, AckNext, BaseInvariant, FlowInvariant, PTL DEF Spec

=============================================================================
