-------------------------- MODULE UnaryCallsProofs --------------------------
(***************************************************************************)
(* Machine-checked proofs about UnaryCalls, for any sets of calls, any     *)
(* limit, and any combination of closing endpoints and network failure.    *)
(***************************************************************************)
EXTENDS UnaryCalls, FiniteSetTheorems, TLAPS

USE ZenonT(200)

\* The initial state has the types.
LEMMA InitTypeOK == Init => TypeOK
  BY SMTT(200) DEF Init, TypeOK, ConnTypeOK, CallTypeOK, MapTypeOK, EndTypeOK, LoopTypeOK,
         Failure, Outcomes, Errors, Statuses, parity, Endpoints

\* Where things are: the two ends, and the end a goroutine belongs to.
LEMMA EndpointFacts ==
    /\ \A e \in Endpoints : Other(e) \in Endpoints /\ Other(e) # e
    /\ \A k \in Calls : Caller(k) \in Endpoints /\ Callee(k) \in Endpoints
    /\ \A t \in Threads : Home(t) \in Endpoints
    /\ \A e \in Endpoints : Reader(e) \in Threads /\ Closer(e) \in Threads
    /\ \A k \in Calls : CallerOf(k) \in Threads /\ HandlerOf(k) \in Threads
  BY SMTT(200) DEF Endpoints, Other, Caller, Callee, Threads, Home, Reader, Closer, CallerOf, HandlerOf

\* The frames and results of the code are frames and results.
LEMMA ValueTypes ==
    /\ \A err \in Errors : Failure(err) \in Outcomes
    /\ \A c \in SUBSET Calls : [err |-> "ok", payload |-> c] \in Outcomes
    /\ \A n \in Nat, k \in Calls : OpenCall(n, k) \in Frames /\ CallResult(n, k) \in Frames
    /\ \A n \in Nat, k \in Calls, s \in Statuses : StreamEnd(n, k, s) \in Frames
    /\ CloseFrame \in Frames
    /\ \A f \in Frames : f.id \in Nat /\ f.call \in SUBSET Calls /\ f.status \in Statuses
    /\ Statuses \subseteq Errors
    /\ {"canceled", "overloaded", "refused", "failed", "tooLarge"} \subseteq Statuses
    /\ "broken" \in Errors
    /\ \A c \in Causes : terminalOf(c) \in Errors
  BY SMTT(200) DEF Failure, Outcomes, OpenCall, CallResult, StreamEnd, CloseFrame, Frames, Errors, Statuses,
         Causes, terminalOf

\* A written wire is a wire.
LEMMA TransmitType ==
    ASSUME NEW w \in [Endpoints -> Seq(Frames)], NEW e \in Endpoints, NEW f \in Frames
    PROVE  Transmit(w, e, f) \in [Endpoints -> Seq(Frames)]
<1>1. Append(w[e], f) \in Seq(Frames)
  BY SMTT(200)
<1> QED
  BY <1>1, SMTT(200) DEF Transmit

\* So is one that was read from.
LEMMA ConsumedType ==
    ASSUME ConnTypeOK, NEW e \in Endpoints, wire[Other(e)] # <<>>
    PROVE  Consumed(e) \in [Endpoints -> Seq(Frames)] /\ Arriving(e) \in Frames
<1>1. wire[Other(e)] \in Seq(Frames)
  BY EndpointFacts, SMTT(200) DEF ConnTypeOK
<1>2. Tail(wire[Other(e)]) \in Seq(Frames) /\ Head(wire[Other(e)]) \in Frames
  BY <1>1, SMTT(200)
<1> QED
  BY <1>2 DEF ConnTypeOK, Consumed, Arriving

\* The beginning of end() keeps the types of what it sets.
LEMMA StartEndType ==
    ASSUME EndTypeOK, NEW t \in Threads, NEW causes \in Seq(Causes), StartEnd(t, causes)
    PROVE  EndTypeOK'
  BY DEF EndTypeOK, StartEnd, CloseStage

\* What the code passes to end() are lists of causes.
LEMMA CauseLists ==
    /\ <<"error">> \in Seq(Causes) /\ <<"eof">> \in Seq(Causes) /\ <<"eof", "eof">> \in Seq(Causes)
    /\ <<"nil">> \in Seq(Causes) /\ <<"error", "nil">> \in Seq(Causes) /\ <<"tooLarge">> \in Seq(Causes)
  BY SMTT(200) DEF Causes

\* A write, successful or not, keeps the types of what it sets.
LEMMA writeFrameType ==
    ASSUME EndTypeOK, NEW t \in Threads, NEW w \in [Endpoints -> Seq(Frames)], NEW f \in Frames,
           writeFrame(w, t, f)
    PROVE  wire' \in [Endpoints -> Seq(Frames)] /\ EndTypeOK'
<1>1. CASE wire' = Transmit(w, Home(t), f) /\ UNCHANGED <<endVars, ctxDone>>
  BY <1>1, TransmitType, EndpointFacts DEF EndTypeOK, endVars
<1>2. CASE wire' = w /\ StartEnd(t, <<"error">>)
  BY <1>2, CauseLists, StartEndType
<1> QED
  BY <1>1, <1>2, SMTT(200) DEF writeFrame
\* So does a read loop that stops.
LEMMA StopReadingType ==
    ASSUME TypeOK, NEW e \in Endpoints, NEW causes \in Seq(Causes), StopReading(e, causes)
    PROVE  TypeOK'
<1> USE EndpointFacts DEF connVars, callVars, mapVars, sessVars, loopVars, endVars, serveVars
<1>1. ConnTypeOK /\ CallTypeOK /\ MapTypeOK /\ EndTypeOK /\ LoopTypeOK
  BY SMTT(200) DEF TypeOK
<1>2. ConnTypeOK'
  <2>1. <<>> \in Seq(Frames)
    BY SMTT(200)
  <2> QED
    BY <1>1, <2>1 DEF StopReading, ConnTypeOK
<1>3. EndTypeOK'
  BY <1>1, StartEndType, SMTT(200) DEF StopReading
<1>4. LoopTypeOK'
  BY <1>1, SMTT(200) DEF StopReading, LoopTypeOK
<1>5. CallTypeOK' /\ MapTypeOK'
  BY <1>1 DEF StopReading, CallTypeOK, MapTypeOK
<1> QED
  BY <1>2, <1>3, <1>4, <1>5 DEF TypeOK

\* Every step keeps the types.
LEMMA NextTypeOK == TypeOK /\ [Next]_vars => TypeOK'
<1> SUFFICES ASSUME TypeOK, [Next]_vars PROVE TypeOK'
  BY SMTT(200)
<1> USE EndpointFacts DEF connVars, callVars, mapVars, sessVars, loopVars, endVars, serveVars
<1>1. ConnTypeOK /\ CallTypeOK /\ MapTypeOK /\ EndTypeOK /\ LoopTypeOK
  BY SMTT(200) DEF TypeOK
<1>2. ASSUME NEW k \in Calls, CallCheck(k) PROVE TypeOK'
  <2>1. Failure(terminal[Caller(k)]) \in Outcomes /\ Failure("tooLarge") \in Outcomes
    BY <1>1, ValueTypes, SMTT(200) DEF MapTypeOK
  <2>2. CallTypeOK'
    BY <1>1, <1>2, <2>1 DEF CallCheck, CallTypeOK
  <2>3. ConnTypeOK' /\ MapTypeOK' /\ EndTypeOK' /\ LoopTypeOK'
    BY <1>1, <1>2 DEF CallCheck, ConnTypeOK, MapTypeOK, EndTypeOK, LoopTypeOK
  <2> QED
    BY <2>1, <2>2, <2>3 DEF TypeOK
<1>3. ASSUME NEW k \in Calls, CallRegister(k) PROVE TypeOK'
  <2>1. CallTypeOK'
    BY <1>1, <1>3 DEF CallRegister, CallTypeOK, MapTypeOK
  <2>2. MapTypeOK'
    BY <1>1, <1>3, SMTT(200) DEF CallRegister, MapTypeOK, allocateStreamID
  <2>3. ConnTypeOK' /\ EndTypeOK' /\ LoopTypeOK'
    BY <1>1, <1>3 DEF CallRegister, ConnTypeOK, EndTypeOK, LoopTypeOK
  <2> QED
    BY <2>1, <2>2, <2>3 DEF TypeOK
<1>4. ASSUME NEW k \in Calls, CallWrite(k) PROVE TypeOK'
  <2>1. OpenCall(streamID[k], k) \in Frames
    BY <1>1, <1>4, ValueTypes, SMTT(200) DEF CallTypeOK
  <2>2. ConnTypeOK'
    <3>1. Transmit(wire, Caller(k), OpenCall(streamID[k], k)) \in [Endpoints -> Seq(Frames)]
      BY <1>1, <2>1, TransmitType DEF ConnTypeOK
    <3> QED
      BY <1>1, <1>4, <3>1 DEF CallWrite, ConnTypeOK
  <2>3. Failure("broken") \in Outcomes /\ Failure("tooLarge") \in Outcomes
    BY <1>1, <1>4, ValueTypes
  <2>4. CallTypeOK'
    BY <1>1, <1>4, <2>3 DEF CallWrite, CallTypeOK
  <2>5. EndTypeOK'
    BY <1>1, <1>4, CauseLists, StartEndType DEF CallWrite, EndTypeOK
  <2>6. MapTypeOK' /\ LoopTypeOK'
    BY <1>1, <1>4 DEF CallWrite, MapTypeOK, LoopTypeOK
  <2> QED
    BY <2>1, <2>2, <2>3, <2>4, <2>5, <2>6 DEF TypeOK
<1>5. ASSUME NEW k \in Calls, CallSettled(k) PROVE TypeOK'
  <2>1. Head(outcome[k]) \in Outcomes /\ Tail(outcome[k]) \in Seq(Outcomes)
    BY <1>1, <1>5, SMTT(200) DEF CallSettled, CallTypeOK
  <2>2. CallTypeOK'
    BY <1>1, <1>5, <2>1 DEF CallSettled, CallTypeOK
  <2>3. ConnTypeOK' /\ MapTypeOK' /\ EndTypeOK' /\ LoopTypeOK'
    BY <1>1, <1>5 DEF CallSettled, ConnTypeOK, MapTypeOK, EndTypeOK, LoopTypeOK
  <2> QED
    BY <2>1, <2>2, <2>3 DEF TypeOK
<1>6. ASSUME NEW k \in Calls, CallAbandon(k) PROVE TypeOK'
  <2>1. CallTypeOK'
    BY <1>1, <1>6, SMTT(200) DEF CallAbandon, CallTypeOK
  <2>2. ConnTypeOK' /\ MapTypeOK' /\ EndTypeOK' /\ LoopTypeOK'
    BY <1>1, <1>6 DEF CallAbandon, ConnTypeOK, MapTypeOK, EndTypeOK, LoopTypeOK
  <2> QED
    BY <2>1, <2>2 DEF TypeOK
<1>7. ASSUME NEW k \in Calls, CallNotifyCancelled(k) PROVE TypeOK'
  <2>1. StreamEnd(streamID[k], k, "canceled") \in Frames
    BY <1>1, <1>7, ValueTypes, SMTT(200) DEF CallTypeOK
  <2>2. ConnTypeOK'
    BY <1>1, <1>7, <2>1, writeFrameType DEF CallNotifyCancelled, ConnTypeOK
  <2>3. Failure("canceled") \in Outcomes
    BY <1>1, <1>7, ValueTypes
  <2>4. CallTypeOK'
    BY <1>1, <1>7, <2>3, SMTT(200) DEF CallNotifyCancelled, CallTypeOK
  <2>5. EndTypeOK'
    BY <1>1, <1>7, <2>1, writeFrameType DEF CallNotifyCancelled, EndTypeOK, ConnTypeOK
  <2>6. MapTypeOK' /\ LoopTypeOK'
    BY <1>1, <1>7 DEF CallNotifyCancelled, MapTypeOK, LoopTypeOK
  <2> QED
    BY <2>1, <2>2, <2>3, <2>4, <2>5, <2>6 DEF TypeOK
<1>8. ASSUME NEW k \in Calls, CallReturn(k) PROVE TypeOK'
  <2>1. CallTypeOK'
    BY <1>1, <1>8 DEF CallReturn, CallTypeOK
  <2>2. MapTypeOK'
    BY <1>1, <1>8, SMTT(200) DEF CallReturn, MapTypeOK
  <2>3. ConnTypeOK' /\ EndTypeOK' /\ LoopTypeOK'
    BY <1>1, <1>8 DEF CallReturn, ConnTypeOK, EndTypeOK, LoopTypeOK
  <2> QED
    BY <2>1, <2>2, <2>3 DEF TypeOK
<1>9. ASSUME NEW k \in Calls, HandlerReturn(k) PROVE TypeOK'
  <2>1. CallResult(streamID[k], k) \in Frames /\ \A s \in Statuses : StreamEnd(streamID[k], k, s) \in Frames
    BY <1>1, <1>9, ValueTypes, SMTT(200) DEF CallTypeOK
  <2>2. ConnTypeOK'
    BY <1>1, <1>9, <2>1, writeFrameType, ValueTypes DEF HandlerReturn, ConnTypeOK
  <2>3. MapTypeOK'
    BY <1>1, <1>9, SMTT(200) DEF HandlerReturn, MapTypeOK, release
  <2>4. EndTypeOK'
    BY <1>1, <1>9, <2>1, writeFrameType, CauseLists, StartEndType, ValueTypes
    DEF HandlerReturn, EndTypeOK, ConnTypeOK
  <2>5. LoopTypeOK'
    BY <1>1, <1>9 DEF HandlerReturn, LoopTypeOK
  <2>6. CallTypeOK'
    BY <1>1, <1>9, SMTT(200) DEF HandlerReturn, CallTypeOK
  <2> QED
    BY <2>1, <2>2, <2>3, <2>4, <2>5, <2>6 DEF TypeOK
<1>10. ASSUME NEW k \in Calls, HandlerRelease(k) PROVE TypeOK'
  <2>1. MapTypeOK'
    BY <1>1, <1>10, SMTT(200) DEF HandlerRelease, MapTypeOK, release
  <2>2. LoopTypeOK'
    BY <1>1, <1>10, SMTT(200) DEF HandlerRelease, LoopTypeOK
  <2>3. ConnTypeOK' /\ CallTypeOK' /\ EndTypeOK'
    BY <1>1, <1>10 DEF HandlerRelease, ConnTypeOK, CallTypeOK, EndTypeOK
  <2> QED
    BY <2>1, <2>2, <2>3 DEF TypeOK
<1>11. ASSUME NEW e \in Endpoints, ReadOpenCall(e) PROVE TypeOK'
  <2>1. Consumed(e) \in [Endpoints -> Seq(Frames)] /\ Arriving(e) \in Frames
    BY <1>1, <1>11, ConsumedType, SMTT(200) DEF ReadOpenCall, ArrivesAt
  <2>2. \A s \in Statuses, k \in Arriving(e).call : StreamEnd(Arriving(e).id, k, s) \in Frames
    BY <1>1, <1>11, <2>1, ValueTypes
  <2>3. ConnTypeOK'
    BY <1>1, <1>11, <2>1, <2>2, writeFrameType, ValueTypes DEF ReadOpenCall, ConnTypeOK, ReplyTo
  <2>4. MapTypeOK'
    BY <1>1, <1>11, SMTT(200) DEF ReadOpenCall, MapTypeOK, acquire
  <2>5. EndTypeOK'
    BY <1>1, <1>11, <2>1, <2>2, writeFrameType, ValueTypes DEF ReadOpenCall, EndTypeOK, ReplyTo
  <2>6. Arriving(e).call \in SUBSET Calls
    BY <1>1, <1>11, ConsumedType, ValueTypes DEF ReadOpenCall, ArrivesAt
  <2>7. LoopTypeOK'
    BY <1>1, <1>11, <2>6, ZenonT(200) DEF ReadOpenCall, LoopTypeOK
  <2>8. CallTypeOK'
    BY <1>1, <1>11 DEF ReadOpenCall, CallTypeOK
  <2> QED
    BY <2>1, <2>2, <2>3, <2>4, <2>5, <2>6, <2>7, <2>8 DEF TypeOK
<1>12. ASSUME NEW e \in Endpoints, TrackCall(e) PROVE TypeOK'
  <2>1. MapTypeOK'
    BY <1>1, <1>12 DEF TrackCall, MapTypeOK, LoopTypeOK
  <2>2. LoopTypeOK'
    BY <1>1, <1>12 DEF TrackCall, LoopTypeOK
  <2>3. ConnTypeOK' /\ CallTypeOK' /\ EndTypeOK'
    BY <1>1, <1>12 DEF TrackCall, ConnTypeOK, CallTypeOK, EndTypeOK
  <2> QED
    BY <2>1, <2>2, <2>3 DEF TypeOK
<1>13. ASSUME NEW e \in Endpoints, ReadCallResult(e) PROVE TypeOK'
  <2>1. ConnTypeOK'
    BY <1>1, <1>13, ConsumedType DEF ReadCallResult, ConnTypeOK, ArrivesAt
  <2>2. [err |-> "ok", payload |-> Arriving(e).call] \in Outcomes
    BY <1>1, <1>13, ConsumedType, ValueTypes DEF ReadCallResult, ArrivesAt
  <2>3. \A k \in Calls : Append(outcome[k], [err |-> "ok", payload |-> Arriving(e).call]) \in Seq(Outcomes)
    BY <1>1, <1>13, <2>2, SMTT(200) DEF CallTypeOK
  <2>4. CallTypeOK'
    BY <1>1, <1>13, <2>3, SMTT(200) DEF ReadCallResult, CallTypeOK
  <2>5. MapTypeOK'
    BY <1>1, <1>13 DEF ReadCallResult, MapTypeOK, takeCall
  <2>6. EndTypeOK' /\ LoopTypeOK'
    BY <1>1, <1>13 DEF ReadCallResult, EndTypeOK, LoopTypeOK
  <2> QED
    BY <2>1, <2>2, <2>3, <2>4, <2>5, <2>6 DEF TypeOK
<1>14. ASSUME NEW e \in Endpoints, ReadStreamEnd(e) PROVE TypeOK'
  <2>1. ConnTypeOK'
    BY <1>1, <1>14, ConsumedType DEF ReadStreamEnd, ConnTypeOK, ArrivesAt
  <2>2. Failure(Arriving(e).status) \in Outcomes
    BY <1>1, <1>14, ConsumedType, ValueTypes DEF ReadStreamEnd, ArrivesAt
  <2>3. \A k \in Calls : Append(outcome[k], Failure(Arriving(e).status)) \in Seq(Outcomes)
    BY <1>1, <1>14, <2>2, SMTT(200) DEF CallTypeOK
  <2>4. CallTypeOK'
    BY <1>1, <1>14, <2>3 DEF ReadStreamEnd, CallTypeOK
  <2>5. MapTypeOK'
    BY <1>1, <1>14 DEF ReadStreamEnd, MapTypeOK, takeCall
  <2>6. LoopTypeOK'
    BY <1>1, <1>14, SMTT(200) DEF ReadStreamEnd, LoopTypeOK
  <2>7. EndTypeOK'
    BY <1>1, <1>14 DEF ReadStreamEnd, EndTypeOK
  <2> QED
    BY <2>1, <2>2, <2>3, <2>4, <2>5, <2>6, <2>7 DEF TypeOK
<1>15. ASSUME NEW e \in Endpoints, ReadClose(e) PROVE TypeOK'
  BY <1>15, StopReadingType, CauseLists DEF ReadClose
<1>16. ASSUME NEW e \in Endpoints, ReadEOF(e) PROVE TypeOK'
  BY <1>16, StopReadingType, CauseLists DEF ReadEOF
<1>17. ASSUME NEW e \in Endpoints, ReadError(e) PROVE TypeOK'
  BY <1>17, StopReadingType, CauseLists DEF ReadError
<1>18. ASSUME NEW e \in Endpoints, Close(e) PROVE TypeOK'
  <2>1. ConnTypeOK'
    <3>1. Transmit(wire, e, CloseFrame) \in [Endpoints -> Seq(Frames)]
      BY <1>1, TransmitType, ValueTypes DEF ConnTypeOK
    <3> QED
      BY <1>1, <1>18, <3>1 DEF Close, ConnTypeOK
  <2>2. EndTypeOK'
    BY <1>1, <1>18, CauseLists, StartEndType DEF Close, EndTypeOK
  <2>3. LoopTypeOK'
    BY <1>1, <1>18, SMTT(200) DEF Close, LoopTypeOK
  <2>4. CallTypeOK' /\ MapTypeOK'
    BY <1>1, <1>18 DEF Close, CallTypeOK, MapTypeOK
  <2> QED
    BY <2>1, <2>2, <2>3, <2>4 DEF TypeOK
<1>19. ASSUME NEW t \in Threads, EndClose(t) PROVE TypeOK'
  <2>1. ConnTypeOK'
    BY <1>1, <1>19 DEF EndClose, ConnTypeOK
  <2>2. EndTypeOK'
    BY <1>1, <1>19 DEF EndClose, EndTypeOK
  <2>3. CallTypeOK' /\ MapTypeOK' /\ LoopTypeOK'
    BY <1>1, <1>19 DEF EndClose, CallTypeOK, MapTypeOK, LoopTypeOK
  <2> QED
    BY <2>1, <2>2, <2>3 DEF TypeOK
<1>20. ASSUME NEW t \in Threads, EndRelease(t) PROVE TypeOK'
  <2>1. /\ Head(ending[t]) \in Causes
        /\ Tail(ending[t]) \in Seq(Causes)
    <3>1. ending[t] \in Seq(Causes) /\ ending[t] # <<>>
      BY <1>1, <1>20, SMTT(200) DEF EndRelease, EndTypeOK, Ready
    <3> QED
      BY <3>1, SMTT(200)
  <2>2. EndFailure(t) \in Errors
    BY <1>1, <2>1, ValueTypes DEF EndFailure, MapTypeOK
  <2>3. \A k \in Calls : Append(outcome[k], Failure(EndFailure(t))) \in Seq(Outcomes)
    BY <1>1, <2>2, ValueTypes, SMTT(200) DEF CallTypeOK
  <2>4. CallTypeOK'
    BY <1>1, <1>20, <2>3 DEF EndRelease, CallTypeOK, FailPending
  <2>5. MapTypeOK'
    BY <1>1, <1>20, <2>2 DEF EndRelease, MapTypeOK
  <2>6. EndTypeOK'
    BY <1>1, <1>20, <2>1 DEF EndRelease, EndTypeOK
  <2>7. LoopTypeOK'
    BY <1>1, <1>20, SMTT(200) DEF EndRelease, LoopTypeOK
  <2>8. ConnTypeOK'
    BY <1>1, <1>20 DEF EndRelease, ConnTypeOK
  <2> QED
    BY <2>4, <2>5, <2>6, <2>7, <2>8 DEF TypeOK
<1>21. CASE LoseLink
  BY <1>1, <1>21 DEF LoseLink, TypeOK, ConnTypeOK, CallTypeOK, MapTypeOK, EndTypeOK, LoopTypeOK
<1>22. CASE UNCHANGED vars
  BY <1>1, <1>22 DEF vars, TypeOK, ConnTypeOK, CallTypeOK, MapTypeOK, EndTypeOK, LoopTypeOK
<1> QED
  BY <1>2, <1>3, <1>4, <1>5, <1>6, <1>7, <1>8, <1>9, <1>10, <1>11, <1>12, <1>13,
     <1>14, <1>15, <1>16, <1>17, <1>18, <1>19, <1>20, <1>21, <1>22
  DEF Next, CallStep, ReadStep, EndStep

\* Every reachable state of the session engine is type correct; in particular
\* a caller is only ever given an error of the package.
THEOREM TypeCorrect == Spec => []TypeOK
  BY InitTypeOK, NextTypeOK, PTL DEF Spec

-----------------------------------------------------------------------------
(* The calling side.  SettleNeverBlocks, NoStrandedCaller and OriginalCause  *)
(* are consequences of one inductive invariant about a call's entry, its     *)
(* outcome channel and its goroutine.                                        *)

Releasing(e) == \E t \in Threads : Home(t) = e /\ ~Ready(t) /\ stage[t] = "release"

\* A registered call has no outcome yet, so whoever takes its entry may send;
\* an entry is given up only for an outcome, unless the goroutine itself is
\* on its way out; and closing the transport comes before releasing.
CallInv(k) ==
    /\ Len(outcome[k]) <= 1
    /\ k \in calls[Caller(k)] => outcome[k] = <<>>
    /\ pc[k] \in {"idle", "usable"} => outcome[k] = <<>> /\ k \notin calls[Caller(k)]
    /\ pc[k] \in {"registered", "waiting"} /\ outcome[k] = <<>> => k \in calls[Caller(k)]
    /\ pc[k] = "waiting" /\ outcome[k] = <<>> /\ ~open[Caller(k)] => Releasing(Caller(k))
    /\ outcome[k] # <<>> /\ Head(outcome[k]).err \in {"closed", "broken"} =>
           ended[Caller(k)] /\ Head(outcome[k]).err = terminal[Caller(k)]

CallsHome == \A e \in Endpoints : \A k \in calls[e] : Caller(k) = e

CallerInv == CallsHome /\ \A k \in Calls : CallInv(k)

\* No call has begun.
LEMMA InitCallerInv == Init => CallerInv
<1> SUFFICES ASSUME Init PROVE CallerInv
  BY SMTT(200)
<1>1. \A e \in Endpoints : calls[e] = {}
  BY DEF Init
<1>2. \A k \in Calls : pc[k] = "idle" /\ outcome[k] = <<>>
  BY DEF Init
<1>3. Len(<<>>) <= 1
  BY SMTT(200)
<1> QED
  BY <1>1, <1>2, <1>3, EndpointFacts DEF CallerInv, CallsHome, CallInv

\* What a step leaves alone of a call and of its caller's session.
SameEntry(k) ==
    /\ outcome'[k] = outcome[k]
    /\ k \in calls'[Caller(k)] <=> k \in calls[Caller(k)]
SameSession(k) ==
    /\ open'[Caller(k)] = open[Caller(k)]
    /\ ended'[Caller(k)] = ended[Caller(k)]
    /\ terminal'[Caller(k)] = terminal[Caller(k)]
    /\ ~open[Caller(k)] /\ Releasing(Caller(k)) => Releasing(Caller(k))'

\* A step that leaves a call and the end of its session alone keeps what is known of it.
LEMMA KeptInv ==
    ASSUME NEW k \in Calls, CallInv(k), SameEntry(k), SameSession(k), pc'[k] = pc[k]
    PROVE  CallInv(k)'
  BY DEF CallInv, SameEntry, SameSession

\* Nothing is asked of a goroutine that is on its way out.
LEMMA LeavingInv ==
    ASSUME NEW k \in Calls, CallInv(k), SameEntry(k), SameSession(k),
           pc'[k] \in {"cancelling", "returning", "returned"}
    PROVE  CallInv(k)'
  BY DEF CallInv, SameEntry, SameSession

\* The entry was taken and the outcome sent.
LEMMA SettledInv ==
    ASSUME NEW k \in Calls, NEW res \in Outcomes,
           outcome'[k] = Append(<<>>, res), k \notin calls'[Caller(k)],
           pc'[k] \notin {"idle", "usable"},
           res.err \in {"closed", "broken"} => ended'[Caller(k)] /\ res.err = terminal'[Caller(k)]
    PROVE  CallInv(k)'
<1>1. outcome'[k] # <<>> /\ Len(outcome'[k]) = 1 /\ Head(outcome'[k]) = res
  BY SMTT(200)
<1> QED
  BY <1>1, SMTT(200) DEF CallInv

\* An end() that is about to release the calls goes on.
LEMMA ReleasingKept ==
    ASSUME UNCHANGED endVars, NEW e \in Endpoints, Releasing(e)
    PROVE  Releasing(e)'
  BY SMTT(200) DEF Releasing, Ready, endVars

\* A goroutine that starts end() on a closed transport goes straight to the
\* release, so a release that is due stays due.
LEMMA StartEndKeepsReleasing ==
    ASSUME EndTypeOK, NEW t \in Threads, NEW causes, causes # <<>>, StartEnd(t, causes),
           NEW e \in Endpoints, ~open[e], Releasing(e)
    PROVE  Releasing(e)'
<1>1. PICK u \in Threads : Home(u) = e /\ ~Ready(u) /\ stage[u] = "release"
  BY SMTT(200) DEF Releasing
<1>2. ending'[u] # <<>> /\ stage'[u] = "release"
  BY <1>1, SMTT(200) DEF StartEnd, CloseStage, Ready, EndTypeOK
<1> QED
  BY <1>1, <1>2 DEF Releasing, Ready

\* A write disturbs no such end().
LEMMA writeFrameKeepsReleasing ==
    ASSUME EndTypeOK, NEW t \in Threads, NEW w, NEW f, writeFrame(w, t, f),
           NEW e \in Endpoints, ~open[e], Releasing(e)
    PROVE  Releasing(e)'
<1>1. CASE UNCHANGED <<endVars, ctxDone>>
  BY <1>1, ReleasingKept
<1>2. CASE StartEnd(t, <<"error">>)
  <2>1. <<"error">> # <<>>
    BY SMTT(200)
  <2> QED
    BY <1>2, <2>1, StartEndKeepsReleasing
<1> QED
  BY <1>1, <1>2 DEF writeFrame

\* What most steps leave alone about the session of a call.
LEMMA SessionFrame ==
    ASSUME UNCHANGED <<open, ended, terminal>>,
           \A e \in Endpoints : ~open[e] /\ Releasing(e) => Releasing(e)'
    PROVE  \A k \in Calls : SameSession(k)
  BY EndpointFacts DEF SameSession

\* A step that leaves the calls alone and no release undone.
LEMMA CallerFrame ==
    ASSUME CallerInv, UNCHANGED <<outcome, pc, calls, open, ended, terminal>>,
           \A e \in Endpoints : ~open[e] /\ Releasing(e) => Releasing(e)'
    PROVE  CallerInv'
<1>1. CallsHome'
  BY DEF CallerInv, CallsHome
<1>2. ASSUME NEW k \in Calls PROVE CallInv(k)'
  <2>1. SameEntry(k) /\ pc'[k] = pc[k]
    BY SMTT(200) DEF SameEntry
  <2> QED
    BY <2>1, SessionFrame, KeptInv DEF CallerInv
<1> QED
  BY <1>1, <1>2 DEF CallerInv

\* A step of one calling goroutine, which leaves the other calls alone.
LEMMA CallingStep ==
    ASSUME CallTypeOK, CallerInv, NEW k \in Calls, NEW to, pc' = [pc EXCEPT ![k] = to],
           \A j \in Calls : j # k => SameEntry(j),
           \A j \in Calls : SameSession(j),
           CallsHome', CallInv(k)'
    PROVE  CallerInv'
<1>1. ASSUME NEW j \in Calls, j # k PROVE CallInv(j)'
  <2>1. pc'[j] = pc[j]
    BY <1>1 DEF CallTypeOK
  <2> QED
    BY <1>1, <2>1, KeptInv DEF CallerInv
<1> QED
  BY <1>1 DEF CallerInv

\* The read loop settles the calls with one stream ID.
LEMMA SettlingStep ==
    ASSUME MapTypeOK, CallerInv, NEW e \in Endpoints, NEW id, NEW res \in Outcomes,
           res.err \notin {"closed", "broken"},
           calls' = takeCall(e, id),
           outcome' = [k \in Calls |-> IF k \in PendingWith(e, id) THEN Append(outcome[k], res) ELSE outcome[k]],
           UNCHANGED <<pc, open, ended, terminal, endVars>>
    PROVE  CallerInv'
<1>1. calls \in [Endpoints -> SUBSET Calls] /\ CallsHome /\ \A k \in Calls : CallInv(k)
  BY SMTT(200) DEF MapTypeOK, CallerInv
<1>2. CallsHome'
  BY <1>1, SMTT(200) DEF takeCall, CallsHome
<1>3. \A k \in Calls : SameSession(k)
  BY ReleasingKept, SessionFrame
<1>4. ASSUME NEW k \in PendingWith(e, id) PROVE CallInv(k)'
  <2>1. k \in Calls /\ k \in calls[e] /\ Caller(k) = e
    BY <1>1 DEF PendingWith, CallsHome
  <2>2. outcome[k] = <<>> /\ pc[k] \notin {"idle", "usable"}
    BY <1>1, <2>1 DEF CallInv
  <2>3. outcome'[k] = Append(<<>>, res)
    BY <1>4, <2>1, <2>2
  <2>4. k \notin calls'[Caller(k)]
    BY <1>1, <1>4, <2>1 DEF takeCall
  <2> QED
    BY <2>1, <2>2, <2>3, <2>4, SettledInv
<1>5. ASSUME NEW k \in Calls, k \notin PendingWith(e, id) PROVE CallInv(k)'
  <2>1. SameEntry(k)
    BY <1>1, <1>5, EndpointFacts DEF SameEntry, takeCall
  <2> QED
    BY <1>1, <1>3, <2>1, KeptInv
<1> QED
  BY <1>2, <1>4, <1>5 DEF CallerInv

\* Where the goroutine of a call goes next.
LEMMA CallMoves ==
    ASSUME NEW k \in Calls
    PROVE  /\ CallCheck(k) => \E to \in {"usable", "returned"} : pc' = [pc EXCEPT ![k] = to]
           /\ CallWrite(k) => \E to \in {"waiting", "returning"} :
                  pc' = [pc EXCEPT ![k] = to] /\ (to = "waiting" => open[Caller(k)])
           /\ CallAbandon(k) => pc' = [pc EXCEPT ![k] = "cancelling"]
           /\ CallNotifyCancelled(k) => pc' = [pc EXCEPT ![k] = "returning"]
<1>1. ASSUME CallCheck(k) PROVE pc' = [pc EXCEPT ![k] = "usable"] \/ pc' = [pc EXCEPT ![k] = "returned"]
  BY <1>1 DEF CallCheck
<1>2. ASSUME CallWrite(k)
      PROVE  \/ open[Caller(k)] /\ pc' = [pc EXCEPT ![k] = "waiting"]
             \/ pc' = [pc EXCEPT ![k] = "returning"]
  BY <1>2 DEF CallWrite
<1>3. "waiting" # "returning"
  BY SMTT(200)
<1>4. (CallAbandon(k) => pc' = [pc EXCEPT ![k] = "cancelling"])
      /\ (CallNotifyCancelled(k) => pc' = [pc EXCEPT ![k] = "returning"])
  BY DEF CallAbandon, CallNotifyCancelled
<1> QED
  BY <1>1, <1>2, <1>3, <1>4

\* A read loop that stops, and Close, end the session for at least one cause.
LEMMA EndCauses ==
    ASSUME NEW e \in Endpoints
    PROVE  /\ ReadClose(e) \/ ReadEOF(e) \/ ReadError(e) => \E causes : causes # <<>> /\ StopReading(e, causes)
           /\ Close(e) => \E causes : causes # <<>> /\ StartEnd(Closer(e), causes)
<1>1. /\ <<"eof", "eof">> # <<>> /\ <<"eof">> # <<>> /\ <<"error">> # <<>>
      /\ <<"nil">> # <<>> /\ <<"error", "nil">> # <<>>
  BY SMTT(200)
<1>2. ReadClose(e) \/ ReadEOF(e) \/ ReadError(e) => \E causes : causes # <<>> /\ StopReading(e, causes)
  BY <1>1 DEF ReadClose, ReadEOF, ReadError
<1>3. Close(e) => \E causes : causes # <<>> /\ StartEnd(Closer(e), causes)
  BY <1>1 DEF Close
<1> QED
  BY <1>2, <1>3

\* Every step keeps what is known of the callers.
LEMMA NextCallerInv == TypeOK /\ CallerInv /\ [Next]_vars => CallerInv'
<1> SUFFICES ASSUME TypeOK, CallerInv, [Next]_vars PROVE CallerInv'
  BY SMTT(200)
<1> USE DEF connVars, callVars, mapVars, sessVars, loopVars, serveVars
<1>1. /\ ConnTypeOK /\ CallTypeOK /\ MapTypeOK /\ EndTypeOK /\ LoopTypeOK
      /\ CallsHome /\ \A j \in Calls : CallInv(j)
  BY SMTT(200) DEF TypeOK, CallerInv
<1>2. ASSUME NEW k \in Calls, CallCheck(k) PROVE CallerInv'
  <2>1. UNCHANGED <<outcome, calls, open, ended, terminal, endVars>> /\ pc[k] = "idle"
    BY <1>2 DEF CallCheck
  <2>2. PICK to \in {"usable", "returned"} : pc' = [pc EXCEPT ![k] = to]
    BY <1>2, CallMoves
  <2>3. pc'[k] = to
    BY <1>1, <2>2 DEF CallTypeOK
  <2>4. CallsHome' /\ \A j \in Calls : SameEntry(j)
    BY <1>1, <2>1 DEF CallsHome, SameEntry
  <2>5. \A j \in Calls : SameSession(j)
    BY <2>1, ReleasingKept, SessionFrame
  <2>6. CallInv(k)'
    BY <1>1, <2>1, <2>3, <2>4, <2>5 DEF CallInv, SameEntry, SameSession
  <2> QED
    BY <1>1, <2>2, <2>4, <2>5, <2>6, CallingStep
<1>3. ASSUME NEW k \in Calls, CallRegister(k) PROVE CallerInv'
  <2>1. /\ UNCHANGED <<outcome, open, ended, terminal, endVars>> /\ pc[k] = "usable"
        /\ pc' = [pc EXCEPT ![k] = "registered"]
        /\ calls' = [calls EXCEPT ![Caller(k)] = @ \cup {k}]
    BY <1>3 DEF CallRegister
  <2>2. pc'[k] = "registered" /\ calls \in [Endpoints -> SUBSET Calls]
    BY <1>1, <2>1 DEF CallTypeOK, MapTypeOK
  <2>3. CallsHome'
    BY <1>1, <2>1, <2>2, EndpointFacts DEF CallsHome
  <2>4. \A j \in Calls : j # k => SameEntry(j)
    BY <2>1, <2>2, EndpointFacts DEF SameEntry
  <2>5. \A j \in Calls : SameSession(j)
    BY <2>1, ReleasingKept, SessionFrame
  <2>6. outcome'[k] = <<>> /\ k \in calls'[Caller(k)]
    BY <1>1, <2>1, <2>2, EndpointFacts DEF CallInv
  <2>7. CallInv(k)'
    BY <2>2, <2>6, SMTT(200) DEF CallInv
  <2> QED
    BY <1>1, <2>1, <2>3, <2>4, <2>5, <2>7, CallingStep
<1>4. ASSUME NEW k \in Calls, CallWrite(k) PROVE CallerInv'
  <2>1. UNCHANGED <<outcome, calls, open, ended, terminal>> /\ pc[k] = "registered"
    BY <1>4 DEF CallWrite
  <2>2. PICK to \in {"waiting", "returning"} :
            pc' = [pc EXCEPT ![k] = to] /\ (to = "waiting" => open[Caller(k)])
    BY <1>4, CallMoves
  <2>3. pc'[k] = to
    BY <1>1, <2>2 DEF CallTypeOK
  <2>4. CallsHome' /\ \A j \in Calls : SameEntry(j)
    BY <1>1, <2>1 DEF CallsHome, SameEntry
  <2>5. UNCHANGED endVars \/ StartEnd(CallerOf(k), <<"error">>) \/ StartEnd(CallerOf(k), <<"tooLarge">>)
    BY <1>4 DEF CallWrite
  <2>6. \A e \in Endpoints : ~open[e] /\ Releasing(e) => Releasing(e)'
    BY <1>1, <2>5, ReleasingKept, StartEndKeepsReleasing, EndpointFacts
  <2>7. \A j \in Calls : SameSession(j)
    BY <2>1, <2>6, SessionFrame
  <2>8. CallInv(k)'
    BY <1>1, <2>1, <2>2, <2>3, <2>4, <2>7 DEF CallInv, SameEntry, SameSession
  <2> QED
    BY <1>1, <2>2, <2>4, <2>7, <2>8, CallingStep
<1>5. ASSUME NEW k \in Calls, CallSettled(k) PROVE CallerInv'
  <2>1. /\ UNCHANGED <<calls, open, ended, terminal, endVars>>
        /\ outcome[k] # <<>> /\ outcome' = [outcome EXCEPT ![k] = Tail(@)]
        /\ pc' = [pc EXCEPT ![k] = "returned"]
    BY <1>5 DEF CallSettled
  <2>2. CallsHome' /\ \A j \in Calls : j # k => SameEntry(j)
    BY <1>1, <2>1 DEF CallsHome, SameEntry, CallTypeOK
  <2>3. outcome[k] \in Seq(Outcomes) /\ Len(outcome[k]) <= 1
    BY <1>1 DEF CallTypeOK, CallInv
  <2>4. Tail(outcome[k]) = <<>>
    BY <2>1, <2>3, SMTT(200)
  <2>5. outcome'[k] = <<>> /\ pc'[k] = "returned"
    BY <1>1, <2>1, <2>4 DEF CallTypeOK
  <2>6. CallInv(k)'
    BY <2>5, SMTT(200) DEF CallInv
  <2>7. \A j \in Calls : SameSession(j)
    BY <2>1, ReleasingKept, SessionFrame
  <2> QED
    BY <1>1, <2>1, <2>2, <2>6, <2>7, CallingStep
<1>6. ASSUME NEW k \in Calls, CallAbandon(k) \/ CallNotifyCancelled(k) PROVE CallerInv'
  <2>1. UNCHANGED <<outcome, calls, open, ended, terminal>>
    BY <1>6 DEF CallAbandon, CallNotifyCancelled
  <2>2. PICK to \in {"cancelling", "returning"} : pc' = [pc EXCEPT ![k] = to]
    BY <1>6, CallMoves
  <2>3. pc'[k] = to
    BY <1>1, <2>2 DEF CallTypeOK
  <2>4. CallsHome' /\ \A j \in Calls : SameEntry(j)
    BY <1>1, <2>1 DEF CallsHome, SameEntry
  <2>5. UNCHANGED endVars \/ \E f : writeFrame(wire, CallerOf(k), f)
    BY <1>6 DEF CallAbandon, CallNotifyCancelled
  <2>6. \A e \in Endpoints : ~open[e] /\ Releasing(e) => Releasing(e)'
    BY <1>1, <2>5, ReleasingKept, writeFrameKeepsReleasing, EndpointFacts
  <2>7. \A j \in Calls : SameSession(j)
    BY <2>1, <2>6, SessionFrame
  <2>8. CallInv(k)'
    BY <1>1, <2>3, <2>4, <2>7, LeavingInv
  <2> QED
    BY <1>1, <2>2, <2>4, <2>7, <2>8, CallingStep
<1>7. ASSUME NEW k \in Calls, CallReturn(k) PROVE CallerInv'
  <2>1. /\ UNCHANGED <<outcome, open, ended, terminal, endVars>>
        /\ pc' = [pc EXCEPT ![k] = "returned"]
        /\ calls' = [calls EXCEPT ![Caller(k)] = @ \ {k}]
    BY <1>7 DEF CallReturn
  <2>2. pc'[k] = "returned" /\ calls \in [Endpoints -> SUBSET Calls]
    BY <1>1, <2>1 DEF CallTypeOK, MapTypeOK
  <2>3. CallsHome'
    BY <1>1, <2>1, <2>2, EndpointFacts DEF CallsHome
  <2>4. \A j \in Calls : j # k => SameEntry(j)
    BY <2>1, <2>2, EndpointFacts DEF SameEntry
  <2>5. \A j \in Calls : SameSession(j)
    BY <2>1, ReleasingKept, SessionFrame
  <2>6. outcome'[k] = outcome[k] /\ k \notin calls'[Caller(k)] /\ SameSession(k)
    BY <2>1, <2>2, <2>5, EndpointFacts
  <2>7. CallInv(k)'
    BY <1>1, <2>2, <2>6 DEF CallInv, SameSession
  <2> QED
    BY <1>1, <2>1, <2>3, <2>4, <2>5, <2>7, CallingStep
<1>8. ASSUME NEW k \in Calls, HandlerReturn(k) PROVE CallerInv'
  <2>1. (\E f : writeFrame(wire, HandlerOf(k), f)) \/ StartEnd(HandlerOf(k), <<"tooLarge">>)
    BY <1>8 DEF HandlerReturn
  <2>2. <<"tooLarge">> # <<>>
    BY SMTT(200)
  <2>3. \A x \in Endpoints : ~open[x] /\ Releasing(x) => Releasing(x)'
    BY <1>1, <2>1, <2>2, writeFrameKeepsReleasing, StartEndKeepsReleasing, EndpointFacts
  <2> QED
    BY <1>8, <2>3, CallerFrame DEF HandlerReturn
<1>9. ASSUME NEW k \in Calls, HandlerRelease(k) PROVE CallerInv'
  BY <1>9, ReleasingKept, CallerFrame DEF HandlerRelease
<1>10. ASSUME NEW e \in Endpoints, ReadOpenCall(e) PROVE CallerInv'
  <2>1. UNCHANGED endVars \/ \E f : writeFrame(Consumed(e), Reader(e), f)
    BY <1>10 DEF ReadOpenCall, ReplyTo
  <2>2. \A x \in Endpoints : ~open[x] /\ Releasing(x) => Releasing(x)'
    BY <1>1, <2>1, ReleasingKept, writeFrameKeepsReleasing, EndpointFacts
  <2> QED
    BY <1>10, <2>2, CallerFrame DEF ReadOpenCall
<1>11. ASSUME NEW e \in Endpoints, TrackCall(e) PROVE CallerInv'
  BY <1>11, ReleasingKept, CallerFrame DEF TrackCall
<1>12. ASSUME NEW e \in Endpoints, ReadCallResult(e) PROVE CallerInv'
  <2> DEFINE res == [err |-> "ok", payload |-> Arriving(e).call]
  <2>1. Arriving(e).call \in SUBSET Calls
    BY <1>1, <1>12, ConsumedType, ValueTypes DEF ReadCallResult, ArrivesAt
  <2>2. res \in Outcomes /\ res.err \notin {"closed", "broken"}
    BY <2>1, ValueTypes
  <2> QED
    BY <1>1, <1>12, <2>2, SettlingStep DEF ReadCallResult
<1>13. ASSUME NEW e \in Endpoints, ReadStreamEnd(e) PROVE CallerInv'
  <2>1. Arriving(e).status \in Statuses
    BY <1>1, <1>13, ConsumedType, ValueTypes DEF ReadStreamEnd, ArrivesAt
  <2>2. Failure(Arriving(e).status) \in Outcomes
    BY <2>1, ValueTypes
  <2>3. Failure(Arriving(e).status).err \notin {"closed", "broken"}
    BY <2>1, SMTT(200) DEF Failure, Statuses
  <2> QED
    BY <1>1, <1>13, <2>2, <2>3, SettlingStep DEF ReadStreamEnd
<1>14. ASSUME NEW e \in Endpoints, ReadClose(e) \/ ReadEOF(e) \/ ReadError(e) PROVE CallerInv'
  <2>1. PICK causes : causes # <<>> /\ StopReading(e, causes)
    BY <1>14, EndCauses
  <2>2. \A x \in Endpoints : ~open[x] /\ Releasing(x) => Releasing(x)'
    BY <1>1, <2>1, StartEndKeepsReleasing, EndpointFacts DEF StopReading
  <2> QED
    BY <2>1, <2>2, CallerFrame DEF StopReading
<1>15. ASSUME NEW e \in Endpoints, Close(e) PROVE CallerInv'
  <2>1. PICK causes : causes # <<>> /\ StartEnd(Closer(e), causes)
    BY <1>15, EndCauses
  <2>2. \A x \in Endpoints : ~open[x] /\ Releasing(x) => Releasing(x)'
    BY <1>1, <2>1, StartEndKeepsReleasing, EndpointFacts
  <2> QED
    BY <1>15, <2>2, CallerFrame DEF Close
<1>16. ASSUME NEW t \in Threads, EndClose(t) PROVE CallerInv'
  <2>1. /\ UNCHANGED <<outcome, pc, calls, ended, terminal, ending>>
        /\ open' = [open EXCEPT ![Home(t)] = FALSE]
        /\ stage' = [stage EXCEPT ![t] = "release"]
        /\ ~Ready(t)
    BY <1>16 DEF EndClose
  <2>2. Releasing(Home(t))'
    BY <1>1, <2>1 DEF Releasing, Ready, EndTypeOK
  <2>3. \A x \in Endpoints : Releasing(x) => Releasing(x)'
    BY <1>1, <2>1 DEF Releasing, Ready, EndTypeOK
  <2>4. CallsHome'
    BY <1>1, <2>1 DEF CallsHome
  <2>5. ASSUME NEW j \in Calls, Caller(j) # Home(t) PROVE CallInv(j)'
    <3>1. open'[Caller(j)] = open[Caller(j)]
      BY <1>1, <2>1, <2>5, EndpointFacts DEF ConnTypeOK
    <3>2. SameEntry(j) /\ SameSession(j) /\ pc'[j] = pc[j]
      BY <2>1, <2>3, <3>1, EndpointFacts DEF SameEntry, SameSession
    <3> QED
      BY <1>1, <3>2, KeptInv
  <2>6. ASSUME NEW j \in Calls, Caller(j) = Home(t) PROVE CallInv(j)'
    BY <1>1, <2>1, <2>2, <2>6 DEF CallInv
  <2> QED
    BY <2>4, <2>5, <2>6 DEF CallerInv
<1>17. ASSUME NEW t \in Threads, EndRelease(t) PROVE CallerInv'
  <2>1. /\ UNCHANGED <<pc, open>>
        /\ ended' = [ended EXCEPT ![Home(t)] = TRUE]
        /\ terminal' = [terminal EXCEPT ![Home(t)] = EndFailure(t)]
        /\ calls' = [calls EXCEPT ![Home(t)] = {}]
        /\ outcome' = FailPending(Home(t), EndFailure(t))
    BY <1>17 DEF EndRelease
  <2>2. EndFailure(t) \in Errors
    <3>1. ending[t] \in Seq(Causes) /\ ending[t] # <<>>
      BY <1>1, <1>17 DEF EndRelease, EndTypeOK, Ready
    <3>2. Head(ending[t]) \in Causes
      BY <3>1, SMTT(200)
    <3>3. terminal[Home(t)] \in Errors
      BY <1>1, EndpointFacts DEF MapTypeOK
    <3> QED
      BY <3>2, <3>3, ValueTypes DEF EndFailure
  <2>3. CallsHome'
    BY <1>1, <2>1, EndpointFacts DEF CallsHome, MapTypeOK
  <2>4. /\ ended'[Home(t)] /\ terminal'[Home(t)] = EndFailure(t) /\ calls'[Home(t)] = {}
        /\ ended[Home(t)] => EndFailure(t) = terminal[Home(t)]
    BY <1>1, <2>1, EndpointFacts DEF EndFailure, MapTypeOK
  <2>5. ASSUME NEW j \in Calls, j \in calls[Home(t)] PROVE CallInv(j)'
    <3>1. Caller(j) = Home(t)
      BY <1>1, <2>5, EndpointFacts DEF CallsHome
    <3>2. outcome[j] = <<>> /\ pc[j] \notin {"idle", "usable"}
      BY <1>1, <2>5, <3>1 DEF CallInv
    <3>3. outcome'[j] = Append(<<>>, Failure(EndFailure(t)))
      BY <2>1, <2>5, <3>2 DEF FailPending
    <3>4. Failure(EndFailure(t)) \in Outcomes /\ Failure(EndFailure(t)).err = EndFailure(t)
      BY <2>2, ValueTypes DEF Failure
    <3> QED
      BY <2>1, <2>4, <3>1, <3>2, <3>3, <3>4, SettledInv
  <2>6. ASSUME NEW j \in Calls, Caller(j) = Home(t), j \notin calls[Home(t)] PROVE CallInv(j)'
    <3>1. outcome'[j] = outcome[j] /\ j \notin calls'[Caller(j)] /\ pc'[j] = pc[j]
      BY <2>1, <2>4, <2>6 DEF FailPending
    <3> QED
      BY <1>1, <2>4, <2>6, <3>1 DEF CallInv
  <2>7. ASSUME NEW j \in Calls, Caller(j) # Home(t) PROVE CallInv(j)'
    <3>1. j \notin calls[Home(t)]
      BY <1>1, <2>7, EndpointFacts DEF CallsHome
    <3>2. SameEntry(j) /\ pc'[j] = pc[j]
      BY <1>1, <2>1, <2>7, <3>1, EndpointFacts DEF FailPending, MapTypeOK, SameEntry
    <3>3. Releasing(Caller(j)) => Releasing(Caller(j))'
      <4>1. ASSUME NEW u \in Threads, Home(u) # Home(t) PROVE ending'[u] = ending[u] /\ stage'[u] = stage[u]
        BY <1>1, <1>17, <4>1 DEF EndRelease, EndTypeOK
      <4> QED
        BY <2>7, <4>1 DEF Releasing, Ready
    <3>4. SameSession(j)
      BY <1>1, <2>1, <2>7, <3>3, EndpointFacts DEF SameSession, MapTypeOK
    <3> QED
      BY <1>1, <3>2, <3>4, KeptInv
  <2> QED
    BY <2>3, <2>5, <2>6, <2>7 DEF CallerInv
<1>18. CASE LoseLink
  BY <1>18, ReleasingKept, CallerFrame DEF LoseLink
<1>19. CASE UNCHANGED vars
  BY <1>19, ReleasingKept, CallerFrame DEF vars
<1> QED
  BY <1>2, <1>3, <1>4, <1>5, <1>6, <1>7, <1>8, <1>9, <1>10, <1>11, <1>12, <1>13, <1>14, <1>15,
     <1>16, <1>17, <1>18, <1>19
  DEF Next, CallStep, ReadStep, EndStep

\* The invariant of the calling side holds: an entry is taken by exactly one
\* of the reply, the teardown and the goroutine itself (takeCall, end, discardCall).
THEOREM CallerInvariant == Spec => [](TypeOK /\ CallerInv)
<1>1. Init => TypeOK /\ CallerInv
  BY InitTypeOK, InitCallerInv, SMTT(200)
<1>2. TypeOK /\ CallerInv /\ [Next]_vars => (TypeOK /\ CallerInv)'
  BY NextTypeOK, NextCallerInv, SMTT(200)
<1> QED
  BY <1>1, <1>2, PTL DEF Spec

\* Nobody ever blocks on the outcome channel of a call.
THEOREM NeverBlocks == Spec => []SettleNeverBlocks
<1>1. CallerInv => SettleNeverBlocks
  BY DEF CallerInv, CallInv, SettleNeverBlocks
<1> QED
  BY <1>1, CallerInvariant, PTL

\* A broken connection leaves no caller blocked on a reply that cannot arrive.
THEOREM NobodyStranded == Spec => []NoStrandedCaller
<1>1. CallerInv => NoStrandedCaller
  BY DEF CallerInv, CallInv, NoStrandedCaller, Releasing
<1> QED
  BY <1>1, CallerInvariant, PTL

\* All callers that the end of a session fails observe its first cause.
THEOREM FirstCauseObserved == Spec => []OriginalCause
<1>1. CallerInv => OriginalCause
  BY SMTT(200) DEF CallerInv, CallInv, OriginalCause
<1> QED
  BY <1>1, CallerInvariant, PTL

-----------------------------------------------------------------------------
(* The serving side.  BudgetExact and CancelNotLost are consequences of one  *)
(* inductive invariant that follows a call from its caller's wire to the end *)
(* of its handler.                                                           *)

\* The frames that take call k to its callee and that call it off again.
Opens(f, k) == f.type = "OpenCall" /\ k \in f.call
Cancels(f, k) == f.type = "StreamEnd" /\ k \in f.call
HasOpen(w, k) == \E i \in DOMAIN w : Opens(w[i], k)
HasCancel(w, k) == \E i \in DOMAIN w : Cancels(w[i], k)

\* On its caller's wire a call is opened once, under its ID, and called off
\* only behind that.
Route(w, k, id) ==
    /\ \A i, j \in DOMAIN w : Opens(w[i], k) /\ Opens(w[j], k) => i = j
    /\ \A i, j \in DOMAIN w : Opens(w[i], k) /\ Cancels(w[j], k) => i < j
    /\ \A i \in DOMAIN w : Opens(w[i], k) \/ Cancels(w[i], k) => w[i].id = id

Numbered(k) == streamID[k] % 2 = parity(Caller(k)) % 2

\* Where a call is on its way to its handler: not yet sent, on the wire,
\* admitted, served; and what is left of its cancellation.
ServeInv(k) ==
    LET w == wire[Caller(k)]
        e == Callee(k) IN
    /\ Route(w, k, streamID[k])
    /\ pc[k] \in {"idle", "usable", "registered"} =>
           ~HasOpen(w, k) /\ serving[k] = "none" /\ k \notin admitted[e]
    /\ pc[k] \in {"idle", "usable", "registered", "waiting", "cancelling"} =>
           ~HasCancel(w, k) /\ ~cancelRead[k]
    /\ HasOpen(w, k) => serving[k] = "none" /\ k \notin admitted[e] /\ ~cancelRead[k]
    /\ k \in admitted[e] => serving[k] = "none" /\ ~cancelRead[k]
    /\ serving[k] = "running" /\ ~HandlerCtxDone(k) => k \in inflight[e] /\ ~cancelRead[k]
    /\ \/ pc[k] \in {"registered", "waiting", "cancelling"}
       \/ k \in calls[Caller(k)] \/ HasOpen(w, k) \/ HasCancel(w, k)
       => Numbered(k)

\* The read loop holds at most the one call it has admitted, and an OpenCall
\* frame carries one call of the endpoint that sent it.
AdmitInv(e) ==
    /\ reader[e] # "track" => admitted[e] = {}
    /\ \A k \in admitted[e] : admitted[e] = {k} /\ Callee(k) = e
    /\ \A i \in DOMAIN wire[e] : wire[e][i].type = "OpenCall" =>
           \E k \in Calls : Caller(k) = e /\ wire[e][i].call = {k}
    /\ nextStreamID[e] % 2 = parity(e) % 2

ServedInv == (\A e \in Endpoints : AdmitInv(e)) /\ \A k \in Calls : ServeInv(k)

\* Nothing is on the wires and nothing is served.
LEMMA InitServedInv == Init => ServedInv
<1> SUFFICES ASSUME Init PROVE ServedInv
  BY SMTT(200)
<1>1. ASSUME NEW e \in Endpoints PROVE wire[e] = <<>> /\ DOMAIN wire[e] = {}
  <2>1. wire[e] = <<>>
    BY <1>1 DEF Init
  <2> QED
    BY <2>1, SMTT(200)
<1>2. ASSUME NEW e \in Endpoints PROVE AdmitInv(e)
  BY <1>1, <1>2 DEF Init, AdmitInv
<1>3. ASSUME NEW k \in Calls PROVE ServeInv(k)
  BY <1>1, <1>3, EndpointFacts DEF Init, ServeInv, Route, HasOpen, HasCancel
<1> QED
  BY <1>2, <1>3 DEF ServedInv

\* The frames left when the first is read.
LEMMA TailAt ==
    ASSUME NEW w \in Seq(Frames), w # <<>>
    PROVE  /\ Tail(w) \in Seq(Frames) /\ 1 \in DOMAIN w /\ Head(w) = w[1]
           /\ \A i \in DOMAIN Tail(w) : i \in Nat /\ i >= 1 /\ i + 1 \in DOMAIN w /\ Tail(w)[i] = w[i + 1]
           /\ \A i \in DOMAIN w : i \in Nat /\ i >= 1
  BY SMTT(200)

\* The frames when one more is written.
LEMMA AppendAt ==
    ASSUME NEW w \in Seq(Frames), NEW f \in Frames
    PROVE  /\ Append(w, f) \in Seq(Frames)
           /\ Len(w) + 1 \in DOMAIN Append(w, f) /\ Append(w, f)[Len(w) + 1] = f
           /\ \A i \in DOMAIN Append(w, f) :
                 i = Len(w) + 1 \/ (i \in DOMAIN w /\ Append(w, f)[i] = w[i])
           /\ \A i \in DOMAIN w :
                 i \in DOMAIN Append(w, f) /\ Append(w, f)[i] = w[i] /\ i < Len(w) + 1
  BY SMTT(200)

\* Reading keeps the frames of a call in their order.
LEMMA RouteTail ==
    ASSUME NEW w \in Seq(Frames), w # <<>>, NEW k, NEW id, Route(w, k, id)
    PROVE  /\ Route(Tail(w), k, id)
           /\ HasOpen(Tail(w), k) => HasOpen(w, k) /\ ~Opens(Head(w), k)
           /\ HasCancel(Tail(w), k) => HasCancel(w, k)
           /\ Cancels(Head(w), k) => ~HasOpen(w, k) /\ HasCancel(w, k) /\ Head(w).id = id
           /\ Opens(Head(w), k) => HasOpen(w, k)
<1>1. Route(Tail(w), k, id)
  BY TailAt, SMTT(200) DEF Route
<1>2. HasOpen(Tail(w), k) => HasOpen(w, k)
  BY TailAt DEF HasOpen
<1>3. HasCancel(Tail(w), k) => HasCancel(w, k)
  BY TailAt DEF HasCancel
<1>4. HasOpen(Tail(w), k) => ~Opens(Head(w), k)
  BY TailAt, SMTT(200) DEF HasOpen, Route
<1>5. Cancels(Head(w), k) => ~HasOpen(w, k)
  BY TailAt, SMTT(200) DEF HasOpen, Route
<1>6. Cancels(Head(w), k) => HasCancel(w, k) /\ Head(w).id = id
  BY TailAt DEF HasCancel, Route
<1>7. Opens(Head(w), k) => HasOpen(w, k)
  BY TailAt DEF HasOpen
<1> QED
  BY <1>1, <1>2, <1>3, <1>4, <1>5, <1>6, <1>7

\* So does writing, if the frame says nothing of the call, or comes after all of them.
LEMMA RouteAppend ==
    ASSUME NEW w \in Seq(Frames), NEW f \in Frames, NEW k, NEW id, Route(w, k, id),
           Opens(f, k) => ~HasOpen(w, k) /\ ~HasCancel(w, k),
           Opens(f, k) \/ Cancels(f, k) => f.id = id
    PROVE  /\ Route(Append(w, f), k, id)
           /\ HasOpen(Append(w, f), k) => HasOpen(w, k) \/ Opens(f, k)
           /\ HasCancel(Append(w, f), k) => HasCancel(w, k) \/ Cancels(f, k)
<1> DEFINE v == Append(w, f)
           n == Len(w) + 1
<1>1. /\ n \in DOMAIN v /\ v[n] = f
      /\ \A i \in DOMAIN v : i = n \/ (i \in DOMAIN w /\ v[i] = w[i])
      /\ \A i \in DOMAIN w : i < n
  BY AppendAt
<1>2. ~(Opens(f, k) /\ Cancels(f, k))
  BY SMTT(200) DEF Opens, Cancels
<1> HIDE DEF v, n
<1>3. \A i, j \in DOMAIN v : Opens(v[i], k) /\ Opens(v[j], k) => i = j
  BY <1>1 DEF Route, HasOpen
<1>4. \A i, j \in DOMAIN v : Opens(v[i], k) /\ Cancels(v[j], k) => i < j
  BY <1>1, <1>2 DEF Route, HasCancel
<1>5. \A i \in DOMAIN v : Opens(v[i], k) \/ Cancels(v[i], k) => v[i].id = id
  BY <1>1 DEF Route
<1>6. HasOpen(v, k) => HasOpen(w, k) \/ Opens(f, k)
  BY <1>1 DEF HasOpen
<1>7. HasCancel(v, k) => HasCancel(w, k) \/ Cancels(f, k)
  BY <1>1 DEF HasCancel
<1>8. Route(v, k, id)
  BY <1>3, <1>4, <1>5 DEF Route
<1> QED
  BY <1>6, <1>7, <1>8 DEF v

\* v brings no news of call k that w did not bring.
NoNews(v, w, k) ==
    \A id : Route(w, k, id) =>
        /\ Route(v, k, id)
        /\ HasOpen(v, k) => HasOpen(w, k)
        /\ HasCancel(v, k) => HasCancel(w, k)

\* What endpoint e sent has become less, or more by a frame that neither opens
\* nor cancels a call of its own.
Quieter(v, w, e) ==
    /\ \A k \in Calls : Caller(k) = e => NoNews(v, w, k)
    /\ \A i \in DOMAIN v : v[i].type = "OpenCall" => \E j \in DOMAIN w : v[i] = w[j]

\* A wire that is unchanged, lost, or read from brings no news.
LEMMA QuietFrames ==
    ASSUME NEW w \in Seq(Frames), NEW e
    PROVE  /\ Quieter(w, w, e)
           /\ Quieter(<<>>, w, e)
           /\ w # <<>> => Quieter(Tail(w), w, e)
<1>1. Quieter(w, w, e)
  BY DEF Quieter, NoNews
<1>2. Quieter(<<>>, w, e)
  BY SMTT(200) DEF Quieter, NoNews, Route, HasOpen, HasCancel
<1>3. ASSUME w # <<>> PROVE Quieter(Tail(w), w, e)
  BY <1>3, RouteTail, TailAt DEF Quieter, NoNews
<1> QED
  BY <1>1, <1>2, <1>3, SMTT(200)

\* Nor does a frame that opens no call and calls off none of the writer's.
LEMMA QuietFrame ==
    ASSUME NEW w \in Seq(Frames), NEW e, NEW f \in Frames, f.type # "OpenCall",
           f.type = "StreamEnd" => \A k \in f.call : Caller(k) # e
    PROVE  Quieter(Append(w, f), w, e)
<1>1. \A k \in Calls : Caller(k) = e => ~Opens(f, k) /\ ~Cancels(f, k)
  BY DEF Opens, Cancels
<1>2. /\ Append(w, f)[Len(w) + 1] = f
      /\ \A i \in DOMAIN Append(w, f) : i = Len(w) + 1 \/ (i \in DOMAIN w /\ Append(w, f)[i] = w[i])
  BY AppendAt, SMTT(200)
<1>3. \A i \in DOMAIN Append(w, f) : Append(w, f)[i].type = "OpenCall" =>
          \E j \in DOMAIN w : Append(w, f)[i] = w[j]
  BY <1>2
<1> QED
  BY <1>1, <1>3, RouteAppend DEF Quieter, NoNews

\* What most steps are to a call: its goroutine has gone no way back, its
\* handler is as it was or past its work, and nothing was admitted.
QuietCall(k) ==
    LET c == Caller(k)
        e == Callee(k) IN
    /\ streamID'[k] = streamID[k] /\ cancelRead'[k] = cancelRead[k]
    /\ \A early \in { {"idle", "usable", "registered"}, {"registered", "waiting", "cancelling"},
                      {"idle", "usable", "registered", "waiting", "cancelling"} } :
           pc'[k] \in early => pc[k] \in early
    /\ serving'[k] = serving[k] \/ (serving[k] # "none" /\ serving'[k] \in {"releasing", "done"})
    /\ k \in admitted'[e] => k \in admitted[e]
    /\ k \in calls'[c] => k \in calls[c]
    /\ k \in inflight[e] => k \in inflight'[e] \/ callDone'[k]
    /\ callDone[k] => callDone'[k]
    /\ ctxDone[e] => ctxDone'[e]

\* A call of which a step brings no news stays as it is.
LEMMA ServeKept ==
    ASSUME NEW k \in Calls, ServeInv(k), QuietCall(k), NoNews(wire'[Caller(k)], wire[Caller(k)], k)
    PROVE  ServeInv(k)'
<1> DEFINE c == Caller(k)
           w == wire[c]
           v == wire'[c]
<1>1. /\ Route(v, k, streamID[k])
      /\ HasOpen(v, k) => HasOpen(w, k)
      /\ HasCancel(v, k) => HasCancel(w, k)
  BY DEF ServeInv, NoNews
<1>2. /\ pc'[k] \in {"idle", "usable", "registered"} => pc[k] \in {"idle", "usable", "registered"}
      /\ pc'[k] \in {"registered", "waiting", "cancelling"} => pc[k] \in {"registered", "waiting", "cancelling"}
      /\ pc'[k] \in {"idle", "usable", "registered", "waiting", "cancelling"} =>
             pc[k] \in {"idle", "usable", "registered", "waiting", "cancelling"}
  BY DEF QuietCall
<1>3. Numbered(k)' <=> Numbered(k)
  BY DEF QuietCall, Numbered
<1>4. HandlerCtxDone(k) => HandlerCtxDone(k)'
  BY DEF QuietCall, HandlerCtxDone
<1>5. HandlerCtxDone(k)' \/ ~callDone'[k]
  BY DEF HandlerCtxDone
<1> QED
  BY <1>1, <1>2, <1>3, <1>4, <1>5 DEF ServeInv, QuietCall

\* The frames that open calls are still those of the calls of their end.
LEMMA OpensKept ==
    ASSUME NEW e \in Endpoints, AdmitInv(e), Quieter(wire'[e], wire[e], e)
    PROVE  \A i \in DOMAIN wire'[e] : wire'[e][i].type = "OpenCall" =>
               \E k \in Calls : Caller(k) = e /\ wire'[e][i].call = {k}
  BY ZenonT(200) DEF AdmitInv, Quieter

\* What is admitted stays so.
LEMMA AdmitKept ==
    ASSUME NEW e \in Endpoints, AdmitInv(e), Quieter(wire'[e], wire[e], e),
           nextStreamID'[e] = nextStreamID[e], admitted'[e] = admitted[e],
           reader[e] = "track" => reader'[e] = "track"
    PROVE  AdmitInv(e)'
  BY DEF AdmitInv, Quieter

\* A step that brings no news keeps everything known of the serving side.
LEMMA QuietStep ==
    ASSUME ServedInv, \A e \in Endpoints : Quieter(wire'[e], wire[e], e),
           UNCHANGED <<nextStreamID, admitted>>,
           \A e \in Endpoints : reader[e] = "track" => reader'[e] = "track",
           \A k \in Calls : QuietCall(k)
    PROVE  ServedInv'
<1>1. ASSUME NEW e \in Endpoints PROVE AdmitInv(e)'
  BY AdmitKept DEF ServedInv
<1>2. ASSUME NEW k \in Calls PROVE ServeInv(k)'
  BY ServeKept, EndpointFacts DEF ServedInv, Quieter
<1> QED
  BY <1>1, <1>2 DEF ServedInv

\* A write reaches the writer's own direction, or nobody.
LEMMA WrittenFrame ==
    ASSUME NEW t \in Threads, NEW w \in [Endpoints -> Seq(Frames)], NEW f, writeFrame(w, t, f)
    PROVE  /\ \A x \in Endpoints : x # Home(t) => wire'[x] = w[x]
           /\ wire'[Home(t)] = w[Home(t)] \/ wire'[Home(t)] = Append(w[Home(t)], f)
<1>1. CASE wire' = Transmit(w, Home(t), f)
  BY <1>1, EndpointFacts DEF Transmit
<1>2. CASE wire' = w
  BY <1>2
<1> QED
  BY <1>1, <1>2 DEF writeFrame

\* No context is ever live again.
LEMMA ContextStays ==
    ASSUME EndTypeOK, \/ UNCHANGED ctxDone
                      \/ \E t \in Threads : \E causes : StartEnd(t, causes)
                      \/ \E t \in Threads : \E w, f : writeFrame(w, t, f)
    PROVE  \A e \in Endpoints : ctxDone[e] => ctxDone'[e]
<1>1. (UNCHANGED ctxDone) \/ \E t \in Threads : \E causes : StartEnd(t, causes)
  BY DEF writeFrame
<1>2. CASE \E t \in Threads : \E causes : StartEnd(t, causes)
  BY <1>2 DEF StartEnd, EndTypeOK
<1> QED
  BY <1>1, <1>2

\* A step that neither writes nor reads brings no news on a wire.
LEMMA SameWire ==
    ASSUME ConnTypeOK, UNCHANGED wire
    PROVE  \A e \in Endpoints : Quieter(wire'[e], wire[e], e)
  BY QuietFrames DEF ConnTypeOK

\* What a goroutine writes about a call it serves is no news of its own calls.
LEMMA ReplyWire ==
    ASSUME NEW t \in Threads, NEW w \in [Endpoints -> Seq(Frames)], NEW f \in Frames, writeFrame(w, t, f),
           ConnTypeOK, \A x \in Endpoints : Quieter(w[x], wire[x], x), w[Home(t)] = wire[Home(t)],
           f.type # "OpenCall", f.type = "StreamEnd" => \A k \in f.call : Caller(k) # Home(t)
    PROVE  \A x \in Endpoints : Quieter(wire'[x], wire[x], x)
<1>1. Home(t) \in Endpoints /\ wire[Home(t)] \in Seq(Frames)
  BY EndpointFacts DEF ConnTypeOK
<1>2. Quieter(Append(wire[Home(t)], f), wire[Home(t)], Home(t))
  BY <1>1, QuietFrame
<1>3. /\ \A x \in Endpoints : x # Home(t) => wire'[x] = w[x]
      /\ wire'[Home(t)] = w[Home(t)] \/ wire'[Home(t)] = Append(w[Home(t)], f)
  BY WrittenFrame
<1> QED
  BY <1>1, <1>2, <1>3

\* A step that touches no call but in its goroutine, which does not go back.
LEMMA StillCall ==
    ASSUME NEW k \in Calls, streamID'[k] = streamID[k],
           UNCHANGED <<cancelRead, serving, admitted, inflight, callDone>>,
           k \in calls'[Caller(k)] => k \in calls[Caller(k)],
           \A e \in Endpoints : ctxDone[e] => ctxDone'[e],
           pc'[k] = pc[k] \/ pc'[k] \in {"returning", "returned"}
                          \/ <<pc[k], pc'[k]>> \in {<<"idle", "usable">>, <<"waiting", "cancelling">>}
    PROVE  QuietCall(k)
<1>1. Callee(k) \in Endpoints
  BY EndpointFacts
<1> QED
  BY <1>1, SMTT(200) DEF QuietCall

\* The steps of a call's own goroutine, except those that send a frame.
LEMMA GoroutineStep ==
    ASSUME TypeOK, CallerInv, ServedInv, NEW k \in Calls,
           CallCheck(k) \/ CallSettled(k) \/ CallAbandon(k) \/ CallReturn(k)
    PROVE  ServedInv'
<1> USE DEF connVars, callVars, mapVars, sessVars, loopVars, serveVars
<1>1. ConnTypeOK /\ CallTypeOK /\ MapTypeOK
  BY SMTT(200) DEF TypeOK
<1>2. /\ UNCHANGED <<wire, nextStreamID, admitted, reader, streamID, cancelRead, serving, inflight, callDone, ctxDone>>
      /\ calls' = calls \/ calls' = [calls EXCEPT ![Caller(k)] = @ \ {k}]
  BY DEF CallCheck, CallSettled, CallAbandon, CallReturn
<1>3. PICK to : pc' = [pc EXCEPT ![k] = to] /\
          (to = "returned" \/ <<pc[k], to>> \in {<<"idle", "usable">>, <<"waiting", "cancelling">>})
  BY DEF CallCheck, CallSettled, CallAbandon, CallReturn
<1>4. ASSUME NEW j \in Calls PROVE QuietCall(j)
  <2>1. j \in calls'[Caller(j)] => j \in calls[Caller(j)]
    BY <1>1, <1>2, EndpointFacts DEF MapTypeOK
  <2>2. pc'[j] = pc[j] \/ (pc'[j] = to /\ j = k)
    BY <1>1, <1>3 DEF CallTypeOK
  <2>3. pc'[j] = pc[j] \/ pc'[j] \in {"returning", "returned"}
                       \/ <<pc[j], pc'[j]>> \in {<<"idle", "usable">>, <<"waiting", "cancelling">>}
    BY <1>3, <2>2
  <2> QED
    BY <1>2, <2>1, <2>3, StillCall
<1> QED
  BY <1>1, <1>2, <1>4, SameWire, QuietStep

\* allocateStreamID keeps the parity, and the call has left no frame yet.
LEMMA RegisterStep ==
    ASSUME TypeOK, CallerInv, ServedInv, NEW k \in Calls, CallRegister(k)
    PROVE  ServedInv'
<1> USE DEF connVars, callVars, mapVars, sessVars, loopVars, serveVars
<1> DEFINE c == Caller(k)
<1>1. ConnTypeOK /\ CallTypeOK /\ MapTypeOK /\ c \in Endpoints /\ ServeInv(k)
  BY EndpointFacts DEF TypeOK, ServedInv
<1>2. /\ UNCHANGED <<wire, admitted, reader, cancelRead, serving, inflight, callDone, ctxDone>>
      /\ pc[k] = "usable" /\ pc' = [pc EXCEPT ![k] = "registered"]
      /\ streamID' = [streamID EXCEPT ![k] = nextStreamID[c]]
      /\ nextStreamID' = [nextStreamID EXCEPT ![c] = @ + 2]
      /\ calls' = [calls EXCEPT ![c] = @ \cup {k}]
  BY DEF CallRegister, allocateStreamID
<1>3. ASSUME NEW j \in Calls, j # k PROVE ServeInv(j)'
  <2>1. pc'[j] = pc[j] /\ streamID'[j] = streamID[j] /\ (j \in calls'[Caller(j)] => j \in calls[Caller(j)])
    BY <1>1, <1>2, <1>3, EndpointFacts DEF CallTypeOK, MapTypeOK
  <2>2. QuietCall(j)
    BY <1>2, <2>1, StillCall
  <2> QED
    BY <1>1, <1>2, <2>2, SameWire, ServeKept, EndpointFacts DEF ServedInv, Quieter
<1>4. ServeInv(k)'
  <2>1. pc'[k] = "registered" /\ streamID'[k] = nextStreamID[c]
    BY <1>1, <1>2 DEF CallTypeOK
  <2>2. /\ ~HasOpen(wire[c], k) /\ ~HasCancel(wire[c], k)
        /\ serving[k] = "none" /\ k \notin admitted[Callee(k)] /\ ~cancelRead[k]
    BY <1>1, <1>2 DEF ServeInv
  <2>3. Route(wire[c], k, streamID'[k])
    BY <2>2 DEF Route, HasOpen, HasCancel
  <2>4. Numbered(k)'
    BY <1>1, <2>1 DEF ServedInv, AdmitInv, Numbered
  <2> QED
    BY <1>2, <2>1, <2>2, <2>3, <2>4 DEF ServeInv
<1>5. ASSUME NEW e \in Endpoints PROVE AdmitInv(e)'
  <2>1. nextStreamID'[e] = nextStreamID[e] \/ nextStreamID'[e] = nextStreamID[e] + 2
    BY <1>1, <1>2 DEF MapTypeOK
  <2>2. nextStreamID[e] \in Nat /\ AdmitInv(e)
    BY <1>1 DEF MapTypeOK, ServedInv
  <2>3. nextStreamID'[e] % 2 = nextStreamID[e] % 2
    BY <2>1, <2>2, SMTT(200)
  <2> QED
    BY <1>2, <2>2, <2>3 DEF AdmitInv
<1> QED
  BY <1>3, <1>4, <1>5 DEF ServedInv

\* The goroutine of a call sends the frame that opens the call, when it has
\* sent none, or the one that calls it off, or its write fails.
LEMMA SendStep ==
    ASSUME TypeOK, CallerInv, ServedInv, NEW k \in Calls, CallWrite(k) \/ CallNotifyCancelled(k)
    PROVE  ServedInv'
<1> USE DEF connVars, callVars, mapVars, sessVars, loopVars, serveVars
<1> DEFINE c == Caller(k)
           id == streamID[k]
<1>1. /\ ConnTypeOK /\ CallTypeOK /\ EndTypeOK /\ c \in Endpoints /\ ServeInv(k)
      /\ CallerOf(k) \in Threads /\ Home(CallerOf(k)) = c /\ wire[c] \in Seq(Frames) /\ id \in Nat
  BY EndpointFacts, SMTT(200) DEF TypeOK, ServedInv, CallerOf, Home, ConnTypeOK, CallTypeOK
<1>2. UNCHANGED <<streamID, nextStreamID, calls, admitted, reader, cancelRead, serving, inflight, callDone>>
  BY DEF CallWrite, CallNotifyCancelled
<1>3. \A e \in Endpoints : ctxDone[e] => ctxDone'[e]
  BY <1>1, ContextStays DEF CallWrite, CallNotifyCancelled
<1>4. PICK to, f :
          /\ pc' = [pc EXCEPT ![k] = to]
          /\ \/ pc[k] = "registered" /\ f = OpenCall(id, k) /\ to \in {"waiting", "returning"}
             \/ pc[k] = "cancelling" /\ f = StreamEnd(id, k, "canceled") /\ to = "returning"
          /\ \A x \in Endpoints : x # c => wire'[x] = wire[x]
          /\ wire'[c] = wire[c] \/ wire'[c] = Append(wire[c], f)
  <2>1. CASE CallWrite(k)
    <3>1. UNCHANGED wire \/ wire' = Transmit(wire, c, OpenCall(id, k))
      BY <2>1 DEF CallWrite
    <3>2. /\ \A x \in Endpoints : x # c => wire'[x] = wire[x]
          /\ wire'[c] = wire[c] \/ wire'[c] = Append(wire[c], OpenCall(id, k))
      BY <1>1, <3>1 DEF Transmit, ConnTypeOK
    <3>3. pc[k] = "registered" /\ \E to \in {"waiting", "returning"} : pc' = [pc EXCEPT ![k] = to]
      BY <2>1 DEF CallWrite
    <3> QED
      BY <3>2, <3>3
  <2>2. CASE CallNotifyCancelled(k)
    <3>1. /\ \A x \in Endpoints : x # c => wire'[x] = wire[x]
          /\ wire'[c] = wire[c] \/ wire'[c] = Append(wire[c], StreamEnd(id, k, "canceled"))
      <4>1. writeFrame(wire, CallerOf(k), StreamEnd(id, k, "canceled")) /\ wire \in [Endpoints -> Seq(Frames)]
        BY <1>1, <2>2 DEF CallNotifyCancelled, ConnTypeOK
      <4>2. /\ \A x \in Endpoints : x # Home(CallerOf(k)) => wire'[x] = wire[x]
            /\ \/ wire'[Home(CallerOf(k))] = wire[Home(CallerOf(k))]
               \/ wire'[Home(CallerOf(k))] = Append(wire[Home(CallerOf(k))], StreamEnd(id, k, "canceled"))
        BY <1>1, <4>1, WrittenFrame
      <4> QED
        BY <1>1, <4>2
    <3> QED
      BY <2>2, <3>1 DEF CallNotifyCancelled
  <2> QED
    BY <2>1, <2>2
<1>5. /\ f \in Frames /\ f.id = id /\ f.call = {k}
      /\ \/ pc[k] = "registered" /\ f.type = "OpenCall" /\ to \in {"waiting", "returning"}
         \/ pc[k] = "cancelling" /\ f.type = "StreamEnd" /\ to = "returning"
  <2>1. /\ OpenCall(id, k).type = "OpenCall" /\ OpenCall(id, k).id = id /\ OpenCall(id, k).call = {k}
        /\ \A status : LET g == StreamEnd(id, k, status) IN g.type = "StreamEnd" /\ g.id = id /\ g.call = {k}
    BY DEF OpenCall, StreamEnd
  <2>2. OpenCall(id, k) \in Frames /\ StreamEnd(id, k, "canceled") \in Frames
    BY <1>1, ValueTypes DEF Statuses
  <2> QED
    BY <1>4, <2>1, <2>2
<1>6. ASSUME NEW j \in Calls, j # k PROVE ServeInv(j)'
  <2>1. pc'[j] = pc[j]
    BY <1>1, <1>4, <1>6 DEF CallTypeOK
  <2>2. QuietCall(j)
    BY <1>2, <1>3, <2>1, StillCall
  <2>3. ~Opens(f, j) /\ ~Cancels(f, j)
    BY <1>5, <1>6 DEF Opens, Cancels
  <2>4. NoNews(wire'[Caller(j)], wire[Caller(j)], j)
    <3>1. wire[Caller(j)] \in Seq(Frames) /\ Caller(j) \in Endpoints
      BY <1>1, EndpointFacts DEF ConnTypeOK
    <3>2. CASE wire'[Caller(j)] = wire[Caller(j)]
      BY <3>2 DEF NoNews
    <3>3. CASE wire'[Caller(j)] = Append(wire[Caller(j)], f)
      <4>1. NoNews(Append(wire[Caller(j)], f), wire[Caller(j)], j)
        BY <1>5, <2>3, <3>1, RouteAppend DEF NoNews
      <4> QED
        BY <3>3, <4>1
    <3> QED
      BY <1>4, <3>1, <3>2, <3>3
  <2> QED
    BY <2>2, <2>4, ServeKept DEF ServedInv
<1>7. ServeInv(k)'
  <2>1. pc'[k] = to
    BY <1>1, <1>4 DEF CallTypeOK
  <2>2. /\ pc[k] = "registered" => ~HasOpen(wire[c], k) /\ ~HasCancel(wire[c], k)
        /\ ~cancelRead[k] /\ Numbered(k) /\ ~HasCancel(wire[c], k)
        /\ pc[k] = "registered" => serving[k] = "none" /\ k \notin admitted[Callee(k)]
    BY <1>1, <1>4 DEF ServeInv
  <2>3. /\ f.type = "OpenCall" => pc[k] = "registered" /\ ~Cancels(f, k)
        /\ f.type = "StreamEnd" => to = "returning" /\ ~Opens(f, k)
    BY <1>5 DEF Opens, Cancels
  <2>4. /\ Route(wire'[c], k, id)
        /\ HasOpen(wire'[c], k) => HasOpen(wire[c], k) \/ Opens(f, k)
        /\ HasCancel(wire'[c], k) => Cancels(f, k)
    <3>1. Opens(f, k) => ~HasOpen(wire[c], k) /\ ~HasCancel(wire[c], k)
      BY <2>2, <2>3 DEF Opens
    <3>2. Route(wire[c], k, id)
      BY <1>1 DEF ServeInv
    <3>3. /\ Route(Append(wire[c], f), k, id)
          /\ HasOpen(Append(wire[c], f), k) => HasOpen(wire[c], k) \/ Opens(f, k)
          /\ HasCancel(Append(wire[c], f), k) => HasCancel(wire[c], k) \/ Cancels(f, k)
      BY <1>1, <1>5, <3>1, <3>2, RouteAppend
    <3> QED
      BY <1>4, <2>2, <3>2, <3>3
  <2>5. /\ HasOpen(wire'[c], k) => serving[k] = "none" /\ k \notin admitted[Callee(k)]
        /\ k \in admitted[Callee(k)] => serving[k] = "none"
        /\ serving[k] = "running" /\ ~HandlerCtxDone(k) => k \in inflight[Callee(k)]
    BY <1>1, <2>2, <2>3, <2>4 DEF ServeInv, Opens
  <2>6. /\ HandlerCtxDone(k) => HandlerCtxDone(k)'
        /\ Numbered(k)'
    BY <1>2, <1>3, <2>2, EndpointFacts DEF HandlerCtxDone, Numbered
  <2>7. /\ to \notin {"idle", "usable", "registered"}
        /\ to \in {"idle", "usable", "registered", "waiting", "cancelling"} => ~HasCancel(wire'[c], k)
    BY <1>5, <2>3, <2>4
  <2> QED
    BY <1>2, <2>1, <2>2, <2>4, <2>5, <2>6, <2>7 DEF ServeInv
<1>8. ASSUME NEW e \in Endpoints PROVE AdmitInv(e)'
  <2>1. AdmitInv(e) /\ wire[e] \in Seq(Frames)
    BY <1>1 DEF ServedInv, ConnTypeOK
  <2>2. ASSUME NEW i \in DOMAIN wire'[e], wire'[e][i].type = "OpenCall"
        PROVE  \E j \in Calls : Caller(j) = e /\ wire'[e][i].call = {j}
    <3>1. CASE i \in DOMAIN wire[e] /\ wire'[e][i] = wire[e][i]
      BY <2>1, <2>2, <3>1 DEF AdmitInv
    <3>2. CASE e = c /\ wire'[e][i] = f
      BY <1>5, <3>2
    <3>3. (i \in DOMAIN wire[e] /\ wire'[e][i] = wire[e][i]) \/ (e = c /\ wire'[e][i] = f)
      <4>1. CASE wire'[e] = wire[e]
        BY <2>2, <4>1
      <4>2. CASE e = c /\ wire'[e] = Append(wire[e], f)
        <5>1. \A m \in DOMAIN Append(wire[e], f) :
                  (m \in DOMAIN wire[e] /\ Append(wire[e], f)[m] = wire[e][m]) \/ Append(wire[e], f)[m] = f
          BY <1>5, <2>1, AppendAt, SMTT(200)
        <5> QED
          BY <2>2, <4>2, <5>1
      <4> QED
        BY <1>4, <4>1, <4>2
    <3> QED
      BY <3>1, <3>2, <3>3
  <2> QED
    BY <1>2, <2>1, <2>2 DEF AdmitInv
<1> QED
  BY <1>6, <1>7, <1>8 DEF ServedInv

\* A wire that is read from loses its first frame, and nothing on it is news.
LEMMA ConsumedWire ==
    ASSUME ConnTypeOK, NEW e \in Endpoints, wire[Other(e)] # <<>>
    PROVE  /\ Consumed(e)[Other(e)] = Tail(wire[Other(e)])
           /\ \A x \in Endpoints : x # Other(e) => Consumed(e)[x] = wire[x]
           /\ \A x \in Endpoints : Quieter(Consumed(e)[x], wire[x], x)
<1>1. Other(e) \in Endpoints /\ \A x \in Endpoints : wire[x] \in Seq(Frames)
  BY EndpointFacts DEF ConnTypeOK
<1>2. /\ Consumed(e)[Other(e)] = Tail(wire[Other(e)])
      /\ \A x \in Endpoints : x # Other(e) => Consumed(e)[x] = wire[x]
  BY <1>1 DEF ConnTypeOK, Consumed
<1>3. Quieter(Tail(wire[Other(e)]), wire[Other(e)], Other(e)) /\ \A x \in Endpoints : Quieter(wire[x], wire[x], x)
  BY <1>1, QuietFrames
<1> QED
  BY <1>2, <1>3

\* An OpenCall that is read is the first word of one call, and the last.
LEMMA OpenArrives ==
    ASSUME ConnTypeOK, ServedInv, NEW e \in Endpoints, wire[Other(e)] # <<>>, Arriving(e).type = "OpenCall"
    PROVE  \E k \in Calls :
              /\ Arriving(e).call = {k} /\ Caller(k) = Other(e) /\ Callee(k) = e
              /\ serving[k] = "none" /\ k \notin admitted[e] /\ ~cancelRead[k]
              /\ pc[k] \notin {"idle", "usable", "registered"}
              /\ ~HasOpen(Tail(wire[Other(e)]), k)
<1>1. Other(e) \in Endpoints /\ wire[Other(e)] \in Seq(Frames) /\ Other(Other(e)) = e
  BY EndpointFacts DEF ConnTypeOK, Other, Endpoints
<1>2. 1 \in DOMAIN wire[Other(e)] /\ Arriving(e) = wire[Other(e)][1]
  BY <1>1, TailAt DEF Arriving
<1>3. PICK k \in Calls : Caller(k) = Other(e) /\ Arriving(e).call = {k}
  <2>1. AdmitInv(Other(e)) /\ wire[Other(e)][1].type = "OpenCall"
    BY <1>1, <1>2 DEF ServedInv
  <2>2. \E k \in Calls : Caller(k) = Other(e) /\ wire[Other(e)][1].call = {k}
    BY <1>2, <2>1 DEF AdmitInv
  <2> QED
    BY <1>2, <2>2
<1>4. Callee(k) = e /\ Opens(Head(wire[Other(e)]), k)
  BY <1>1, <1>3 DEF Callee, Opens, Arriving
<1>5. ServeInv(k) /\ Route(wire[Other(e)], k, streamID[k])
  BY <1>3 DEF ServedInv, ServeInv
<1>6. HasOpen(wire[Other(e)], k) /\ ~HasOpen(Tail(wire[Other(e)]), k)
  BY <1>1, <1>4, <1>5, RouteTail
<1>7. /\ serving[k] = "none" /\ k \notin admitted[e] /\ ~cancelRead[k]
      /\ pc[k] \notin {"idle", "usable", "registered"}
  BY <1>3, <1>4, <1>5, <1>6 DEF ServeInv
<1> QED
  BY <1>3, <1>4, <1>6, <1>7

\* A step that touches no call at all.
LEMMA UntouchedCalls ==
    ASSUME UNCHANGED <<streamID, cancelRead, serving, admitted, inflight, callDone, pc, calls>>,
           \A e \in Endpoints : ctxDone[e] => ctxDone'[e]
    PROVE  \A k \in Calls : QuietCall(k)
  BY StillCall

\* An OpenCall is read: it is admitted or refused.
LEMMA OpenCallStep ==
    ASSUME TypeOK, ServedInv, NEW e \in Endpoints, ReadOpenCall(e)
    PROVE  ServedInv'
<1> USE DEF connVars, callVars, mapVars, sessVars, loopVars, serveVars
<1>1. /\ ConnTypeOK /\ EndTypeOK /\ LoopTypeOK
      /\ wire[Other(e)] # <<>> /\ Arriving(e).type = "OpenCall" /\ reader[e] = "read"
      /\ Other(e) \in Endpoints /\ Other(e) # e /\ Reader(e) \in Threads /\ Home(Reader(e)) = e
  BY EndpointFacts DEF TypeOK, ReadOpenCall, ArrivesAt, Reading, Home, Reader
<1>2. UNCHANGED <<streamID, nextStreamID, calls, cancelRead, serving, inflight, callDone, pc>>
  BY DEF ReadOpenCall
<1>3. PICK k \in Calls :
              /\ Arriving(e).call = {k} /\ Caller(k) = Other(e) /\ Callee(k) = e
              /\ serving[k] = "none" /\ k \notin admitted[e] /\ ~cancelRead[k]
              /\ pc[k] \notin {"idle", "usable", "registered"}
              /\ ~HasOpen(Tail(wire[Other(e)]), k)
  BY <1>1, OpenArrives
<1>4. /\ Consumed(e) \in [Endpoints -> Seq(Frames)] /\ Arriving(e) \in Frames
      /\ \A x \in Endpoints : Quieter(Consumed(e)[x], wire[x], x)
      /\ Consumed(e)[e] = wire[e]
  BY <1>1, ConsumedType, ConsumedWire
<1>5. CASE /\ \E s : ReplyTo(e, StreamEnd(Arriving(e).id, k, s)) /\ s \in Statuses
           /\ UNCHANGED <<reader, admitted>>
  <2>1. PICK s \in Statuses : writeFrame(Consumed(e), Reader(e), StreamEnd(Arriving(e).id, k, s))
    BY <1>5 DEF ReplyTo
  <2>2. StreamEnd(Arriving(e).id, k, s) \in Frames
    BY <1>4, ValueTypes
  <2>3. StreamEnd(Arriving(e).id, k, s).type # "OpenCall" /\ StreamEnd(Arriving(e).id, k, s).call = {k}
    BY SMTT(200) DEF StreamEnd
  <2>4. \A x \in Endpoints : Quieter(wire'[x], wire[x], x)
    BY <1>1, <1>3, <1>4, <2>1, <2>2, <2>3, ReplyWire
  <2>5. \A x \in Endpoints : ctxDone[x] => ctxDone'[x]
    BY <1>1, <2>1, ContextStays
  <2> QED
    BY <1>2, <1>5, <2>4, <2>5, UntouchedCalls, QuietStep
<1>6. CASE /\ reader' = [reader EXCEPT ![e] = "track"]
           /\ admitted' = [admitted EXCEPT ![e] = Arriving(e).call]
           /\ wire' = Consumed(e)
           /\ UNCHANGED ctxDone
  <2>1. /\ reader'[e] = "track" /\ admitted'[e] = {k}
        /\ \A x \in Endpoints : x # e => reader'[x] = reader[x] /\ admitted'[x] = admitted[x]
    BY <1>1, <1>3, <1>6 DEF LoopTypeOK
  <2>2. ASSUME NEW x \in Endpoints PROVE AdmitInv(x)'
    <3>1. AdmitInv(x) /\ Quieter(wire'[x], wire[x], x)
      BY <1>4, <1>6 DEF ServedInv
    <3>2. \A i \in DOMAIN wire'[x] : wire'[x][i].type = "OpenCall" =>
              \E j \in Calls : Caller(j) = x /\ wire'[x][i].call = {j}
      BY <3>1, OpensKept
    <3>3. (reader'[x] # "track" => admitted'[x] = {}) /\ \A j \in admitted'[x] : admitted'[x] = {j} /\ Callee(j) = x
      BY <1>3, <2>1, <3>1 DEF AdmitInv
    <3> QED
      BY <1>2, <3>1, <3>2, <3>3 DEF AdmitInv
  <2>3. ASSUME NEW j \in Calls, j # k PROVE ServeInv(j)'
    <3>1. j \in admitted'[Callee(j)] => j \in admitted[Callee(j)]
      BY <2>1, <2>3, EndpointFacts
    <3>2. QuietCall(j)
      BY <1>2, <1>6, <3>1 DEF QuietCall
    <3> QED
      BY <1>4, <1>6, <3>2, ServeKept, EndpointFacts DEF ServedInv, Quieter
  <2>4. ServeInv(k)'
    <3>1. ServeInv(k) /\ NoNews(wire'[Caller(k)], wire[Caller(k)], k) /\ ~HasOpen(wire'[Caller(k)], k)
      <4>1. ServeInv(k) /\ Quieter(wire'[Other(e)], wire[Other(e)], Other(e))
        BY <1>1, <1>4, <1>6 DEF ServedInv
      <4>2. wire'[Other(e)] = Tail(wire[Other(e)])
        BY <1>1, <1>6, ConsumedWire
      <4>3. ~HasOpen(wire'[Other(e)], k)
        BY <1>3, <4>2
      <4> QED
        BY <1>3, <4>1, <4>3 DEF Quieter
    <3>2. /\ Route(wire'[Caller(k)], k, streamID[k])
          /\ HasCancel(wire'[Caller(k)], k) => HasCancel(wire[Caller(k)], k)
      BY <3>1 DEF ServeInv, NoNews
    <3>3. Numbered(k)' <=> Numbered(k)
      BY <1>2 DEF Numbered
    <3> QED
      BY <1>2, <1>3, <3>1, <3>2, <3>3 DEF ServeInv
  <2> QED
    BY <2>2, <2>3, <2>4 DEF ServedInv
<1>7. QED
  <2>1. CASE \E j \in Arriving(e).call :
               \E s \in {"overloaded", "refused", "canceled"} : ReplyTo(e, StreamEnd(Arriving(e).id, j, s))
                                                                /\ UNCHANGED <<reader, admitted>>
    BY <1>3, <1>5, <2>1, ValueTypes
  <2>2. CASE ~\E j \in Arriving(e).call :
               \E s \in {"overloaded", "refused", "canceled"} : ReplyTo(e, StreamEnd(Arriving(e).id, j, s))
                                                                /\ UNCHANGED <<reader, admitted>>
    BY <1>6, <2>2 DEF ReadOpenCall
  <2> QED
    BY <2>1, <2>2

\* trackInflight before the serving goroutine: a call that runs is found by
\* its cancellation, which is still to be read.
LEMMA TrackStep ==
    ASSUME TypeOK, ServedInv, NEW e \in Endpoints, TrackCall(e)
    PROVE  ServedInv'
<1> USE DEF connVars, callVars, mapVars, sessVars, loopVars, serveVars
<1>1. ConnTypeOK /\ MapTypeOK /\ LoopTypeOK /\ AdmitInv(e)
  BY DEF TypeOK, ServedInv
<1>2. UNCHANGED <<wire, streamID, nextStreamID, calls, cancelRead, callDone, ctxDone, pc>>
  BY DEF TrackCall
<1>3. /\ reader'[e] = "read" /\ admitted'[e] = {} /\ inflight'[e] = inflight[e] \cup admitted[e]
      /\ \A x \in Endpoints : x # e =>
            reader'[x] = reader[x] /\ admitted'[x] = admitted[x] /\ inflight'[x] = inflight[x]
      /\ \A k \in Calls : serving'[k] = IF k \in admitted[e] THEN "running" ELSE serving[k]
  BY <1>1 DEF TrackCall, MapTypeOK, LoopTypeOK
<1>4. \A x \in Endpoints : Quieter(wire'[x], wire[x], x)
  BY <1>1, <1>2, SameWire
<1>5. ASSUME NEW x \in Endpoints PROVE AdmitInv(x)'
  BY <1>2, <1>3, <1>5, SMTT(200) DEF ServedInv, AdmitInv
<1>6. ASSUME NEW k \in Calls, k \notin admitted[e] PROVE ServeInv(k)'
  <2>1. /\ k \in admitted'[Callee(k)] => k \in admitted[Callee(k)]
        /\ k \in inflight[Callee(k)] => k \in inflight'[Callee(k)]
    BY <1>3, EndpointFacts
  <2>2. QuietCall(k)
    BY <1>2, <1>3, <1>6, <2>1 DEF QuietCall
  <2> QED
    BY <1>4, <2>2, ServeKept, EndpointFacts DEF ServedInv, Quieter
<1>7. ASSUME NEW k \in Calls, k \in admitted[e] PROVE ServeInv(k)'
  <2>1. Callee(k) = e /\ ServeInv(k)
    BY <1>1, <1>7 DEF AdmitInv, ServedInv
  <2>2. serving'[k] = "running" /\ k \in inflight'[e] /\ k \notin admitted'[e] /\ ~cancelRead'[k]
    BY <1>2, <1>3, <1>7, <2>1 DEF ServeInv
  <2>3. pc[k] \notin {"idle", "usable", "registered"} /\ ~HasOpen(wire[Caller(k)], k)
    BY <1>7, <2>1 DEF ServeInv
  <2>4. Numbered(k)' <=> Numbered(k)
    BY <1>2 DEF Numbered
  <2> QED
    BY <1>2, <2>1, <2>2, <2>3, <2>4 DEF ServeInv
<1> QED
  BY <1>5, <1>6, <1>7 DEF ServedInv

\* The numbers of the two ends differ, so a frame meets the call it names at one end only.
LEMMA Parities ==
    ASSUME NEW e \in Endpoints
    PROVE  parity(e) % 2 # parity(Other(e)) % 2
  BY SMTT(200) DEF Endpoints, parity, Other

\* A cancellation is taken for no reply to a call the other way, and finds the
\* handler it is meant for.
LEMMA StreamEndStep ==
    ASSUME TypeOK, CallerInv, ServedInv, NEW e \in Endpoints, ReadStreamEnd(e)
    PROVE  ServedInv'
<1> USE DEF connVars, callVars, mapVars, sessVars, loopVars, serveVars
<1> DEFINE f == Arriving(e)
           running == IF PendingWith(e, f.id) = {} THEN InflightWith(e, f.id) ELSE {}
<1>1. /\ ConnTypeOK /\ MapTypeOK /\ LoopTypeOK /\ AdmitInv(e) /\ wire[Other(e)] # <<>>
      /\ reader[e] = "read" /\ f.type = "StreamEnd"
  BY DEF TypeOK, ServedInv, ReadStreamEnd, ArrivesAt, Reading
<1>2. UNCHANGED <<streamID, nextStreamID, serving, admitted, reader, ctxDone, pc>> /\ wire' = Consumed(e)
  BY DEF ReadStreamEnd
<1>3. /\ inflight'[e] = inflight[e] \ running
      /\ \A x \in Endpoints : x # e => inflight'[x] = inflight[x]
  BY <1>1 DEF ReadStreamEnd, MapTypeOK
<1>4. \A k \in Calls :
          /\ callDone'[k] = (callDone[k] \/ k \in running)
          /\ cancelRead'[k] = (cancelRead[k] \/ (k \in f.call /\ Callee(k) = e))
  BY DEF ReadStreamEnd
<1>5. \A x \in Endpoints : calls'[x] \subseteq calls[x]
  BY <1>1 DEF ReadStreamEnd, takeCall, MapTypeOK
<1>6. \A x \in Endpoints : Quieter(wire'[x], wire[x], x)
  BY <1>1, <1>2, ConsumedWire
<1>7. ASSUME NEW x \in Endpoints PROVE AdmitInv(x)'
  BY <1>2, <1>6, AdmitKept DEF ServedInv
<1>8. ASSUME NEW k \in Calls PROVE k \in inflight[Callee(k)] => k \in inflight'[Callee(k)] \/ callDone'[k]
  BY <1>3, <1>4, EndpointFacts
<1> HIDE DEF running
<1>9. ASSUME NEW k \in Calls, ~(k \in f.call /\ Callee(k) = e) PROVE ServeInv(k)'
  <2>1. /\ cancelRead'[k] = cancelRead[k] /\ (callDone[k] => callDone'[k])
        /\ k \in calls'[Caller(k)] => k \in calls[Caller(k)]
    BY <1>1, <1>4, <1>5, <1>9, EndpointFacts DEF LoopTypeOK
  <2>2. QuietCall(k)
    BY <1>2, <1>8, <2>1 DEF QuietCall
  <2> QED
    BY <1>6, <2>2, ServeKept, EndpointFacts DEF ServedInv, Quieter
<1>10. ASSUME NEW k \in Calls, k \in f.call, Callee(k) = e PROVE ServeInv(k)'
  <2> DEFINE w == wire[Caller(k)]
             v == wire'[Caller(k)]
  <2>1. /\ Caller(k) = Other(e) /\ Caller(k) \in Endpoints /\ w \in Seq(Frames) /\ w # <<>>
        /\ Head(w) = f /\ v = Tail(w)
    <3>1. Caller(k) = Other(e) /\ Caller(k) \in Endpoints
      BY <1>10, EndpointFacts DEF Callee, Caller, Other, Endpoints
    <3> QED
      BY <1>1, <1>2, <3>1, ConsumedWire DEF ConnTypeOK, Arriving
  <2>2. ServeInv(k) /\ Route(w, k, streamID[k]) /\ Cancels(f, k)
    BY <1>1, <1>10 DEF ServedInv, ServeInv, Cancels
  <2>3. /\ Route(v, k, streamID[k]) /\ ~HasOpen(w, k) /\ ~HasOpen(v, k) /\ HasCancel(w, k)
        /\ f.id = streamID[k]
    BY <2>1, <2>2, RouteTail
  <2>4. /\ pc[k] \notin {"idle", "usable", "registered", "waiting", "cancelling"} /\ Numbered(k)
        /\ k \notin admitted[e]
    BY <1>1, <1>10, <2>2, <2>3 DEF ServeInv, AdmitInv
  <2>5. PendingWith(e, f.id) = {}
    <3>1. ASSUME NEW j \in calls[e], streamID[j] = f.id PROVE FALSE
      <4>1. j \in Calls /\ Caller(j) = e
        BY <1>1, <3>1 DEF MapTypeOK, CallerInv, CallsHome
      <4>2. Numbered(j)
        BY <3>1, <4>1 DEF ServedInv, ServeInv
      <4>3. parity(e) % 2 = parity(Other(e)) % 2
        BY <2>1, <2>3, <2>4, <3>1, <4>1, <4>2 DEF Numbered
      <4> QED
        BY <4>3, Parities
    <3> QED
      BY <3>1 DEF PendingWith
  <2>6. k \in inflight[e] => callDone'[k]
    BY <1>4, <2>3, <2>5 DEF running, InflightWith
  <2>7. serving'[k] = "running" => HandlerCtxDone(k)'
    <3>1. (callDone[k] => callDone'[k]) /\ ctxDone' = ctxDone /\ serving'[k] = serving[k]
      BY <1>1, <1>2, <1>4 DEF LoopTypeOK
    <3>2. serving[k] = "running" /\ ~HandlerCtxDone(k) => k \in inflight[e]
      BY <1>10, <2>2 DEF ServeInv
    <3> QED
      BY <1>10, <2>6, <3>1, <3>2 DEF HandlerCtxDone
  <2>8. Numbered(k)'
    BY <1>2, <2>4 DEF Numbered
  <2> QED
    BY <1>2, <1>10, <2>3, <2>4, <2>7, <2>8 DEF ServeInv
<1> QED
  BY <1>7, <1>9, <1>10 DEF ServedInv

\* The handler is past its work, and what it wrote is about the call it served.
LEMMA HandlerStep ==
    ASSUME TypeOK, ServedInv, NEW k \in Calls, HandlerReturn(k) \/ HandlerRelease(k)
    PROVE  ServedInv'
<1> USE DEF connVars, callVars, mapVars, sessVars, loopVars, serveVars
<1>1. /\ ConnTypeOK /\ CallTypeOK /\ MapTypeOK /\ EndTypeOK /\ LoopTypeOK
      /\ HandlerOf(k) \in Threads /\ Home(HandlerOf(k)) = Callee(k) /\ Callee(k) # Caller(k)
  BY EndpointFacts DEF TypeOK, HandlerOf, Home, Callee
<1>2. UNCHANGED <<streamID, nextStreamID, admitted, reader, cancelRead, calls, pc>>
  BY DEF HandlerReturn, HandlerRelease
<1>3. PICK to \in {"releasing", "done"} : serving' = [serving EXCEPT ![k] = to] /\ serving[k] # "none"
  BY DEF HandlerReturn, HandlerRelease
<1>4. /\ \A x \in Endpoints : Quieter(wire'[x], wire[x], x)
      /\ \A x \in Endpoints : ctxDone[x] => ctxDone'[x]
  <2>1. CASE UNCHANGED <<wire, ctxDone>>
    BY <1>1, <2>1, SameWire
  <2>2. CASE UNCHANGED wire /\ StartEnd(HandlerOf(k), <<"tooLarge">>)
    BY <1>1, <2>2, SameWire, ContextStays
  <2>3. CASE \E f : writeFrame(wire, HandlerOf(k), f) /\ f \in Frames /\ f.type # "OpenCall" /\ f.call = {k}
    <3>1. PICK f \in Frames : writeFrame(wire, HandlerOf(k), f) /\ f.type # "OpenCall" /\ f.call = {k}
      BY <2>3
    <3>2. \A x \in Endpoints : Quieter(wire[x], wire[x], x)
      BY <1>1, QuietFrames DEF ConnTypeOK
    <3>3. \A x \in Endpoints : Quieter(wire'[x], wire[x], x)
      BY <1>1, <3>1, <3>2, ReplyWire DEF ConnTypeOK
    <3> QED
      BY <1>1, <3>1, <3>3, ContextStays
  <2>4. CASE HandlerReturn(k)
    <3>1. \/ UNCHANGED wire /\ StartEnd(HandlerOf(k), <<"tooLarge">>)
          \/ writeFrame(wire, HandlerOf(k), CallResult(streamID[k], k))
          \/ \E s \in {"failed", "canceled", "tooLarge"} : writeFrame(wire, HandlerOf(k), StreamEnd(streamID[k], k, s))
      BY <2>4 DEF HandlerReturn
    <3>2. /\ CallResult(streamID[k], k) \in Frames
          /\ \A s \in {"failed", "canceled", "tooLarge"} : StreamEnd(streamID[k], k, s) \in Frames
      BY <1>1, ValueTypes DEF CallTypeOK
    <3>3. /\ CallResult(streamID[k], k).type # "OpenCall" /\ CallResult(streamID[k], k).call = {k}
          /\ \A s : StreamEnd(streamID[k], k, s).type # "OpenCall" /\ StreamEnd(streamID[k], k, s).call = {k}
      BY SMTT(200) DEF CallResult, StreamEnd
    <3> QED
      BY <2>2, <2>3, <3>1, <3>2, <3>3
  <2> QED
    BY <2>1, <2>4 DEF HandlerRelease
<1>5. ASSUME NEW j \in Calls PROVE QuietCall(j)
  <2>1. serving'[j] = serving[j] \/ (serving[j] # "none" /\ serving'[j] \in {"releasing", "done"})
    BY <1>1, <1>3 DEF LoopTypeOK
  <2>2. /\ callDone[j] => callDone'[j]
        /\ j \in inflight[Callee(j)] => j \in inflight'[Callee(j)] \/ callDone'[j]
    <3>1. CASE UNCHANGED <<callDone, inflight>>
      BY <3>1
    <3>2. CASE callDone' = [callDone EXCEPT ![k] = TRUE] /\ inflight' = [inflight EXCEPT ![Callee(k)] = @ \ {k}]
      BY <1>1, <3>2, EndpointFacts DEF LoopTypeOK, MapTypeOK
    <3> QED
      BY <3>1, <3>2 DEF HandlerReturn, HandlerRelease
  <2>3. ctxDone[Callee(j)] => ctxDone'[Callee(j)]
    BY <1>4, EndpointFacts
  <2> QED
    BY <1>2, <2>1, <2>2, <2>3 DEF QuietCall
<1> QED
  BY <1>2, <1>4, <1>5, QuietStep

\* Every step keeps what is known of the serving side.
LEMMA NextServedInv == TypeOK /\ CallerInv /\ ServedInv /\ [Next]_vars => ServedInv'
<1> SUFFICES ASSUME TypeOK, CallerInv, ServedInv, [Next]_vars PROVE ServedInv'
  OBVIOUS
<1> USE DEF connVars, callVars, mapVars, sessVars, loopVars, serveVars
<1>1. ConnTypeOK /\ MapTypeOK /\ EndTypeOK /\ LoopTypeOK
  BY SMTT(200) DEF TypeOK
<1>2. ASSUME NEW e \in Endpoints, ReadCallResult(e) PROVE ServedInv'
  <2>1. /\ UNCHANGED <<streamID, nextStreamID, cancelRead, serving, admitted, reader, inflight, callDone, pc, ctxDone>>
        /\ wire' = Consumed(e) /\ wire[Other(e)] # <<>>
    BY <1>2 DEF ReadCallResult, ArrivesAt
  <2>2. \A k \in Calls : k \in calls'[Caller(k)] => k \in calls[Caller(k)]
    BY <1>1, <1>2, EndpointFacts DEF ReadCallResult, takeCall, MapTypeOK
  <2>3. \A k \in Calls : QuietCall(k)
    BY <2>1, <2>2, StillCall
  <2> QED
    BY <1>1, <2>1, <2>3, ConsumedWire, QuietStep
<1>3. ASSUME NEW e \in Endpoints, ReadClose(e) \/ ReadEOF(e) \/ ReadError(e) PROVE ServedInv'
  <2>1. reader[e] = "read" /\ \E causes : StopReading(e, causes)
    BY <1>3 DEF ReadClose, ReadEOF, ReadError, ArrivesAt, Reading
  <2>2. /\ UNCHANGED <<streamID, nextStreamID, cancelRead, serving, admitted, inflight, callDone, pc, calls>>
        /\ wire' = [wire EXCEPT ![Other(e)] = <<>>] /\ reader' = [reader EXCEPT ![e] = "stopped"]
        /\ \E causes : StartEnd(Reader(e), causes)
    BY <2>1 DEF StopReading
  <2>3. \A x \in Endpoints : ctxDone[x] => ctxDone'[x]
    BY <1>1, <2>2, ContextStays, EndpointFacts
  <2>4. \A x \in Endpoints : wire[x] \in Seq(Frames) /\ (wire'[x] = wire[x] \/ wire'[x] = <<>>)
    BY <1>1, <2>2 DEF ConnTypeOK
  <2>5. \A x \in Endpoints : Quieter(wire'[x], wire[x], x)
    BY <2>4, QuietFrames
  <2>6. \A x \in Endpoints : reader[x] = "track" => reader'[x] = "track"
    BY <1>1, <2>1, <2>2 DEF LoopTypeOK
  <2> QED
    BY <2>2, <2>3, <2>5, <2>6, UntouchedCalls, QuietStep
<1>4. ASSUME NEW e \in Endpoints, Close(e) PROVE ServedInv'
  <2>1. /\ UNCHANGED <<streamID, nextStreamID, cancelRead, serving, admitted, inflight, callDone, pc, calls, reader>>
        /\ wire' = wire \/ wire' = Transmit(wire, e, CloseFrame)
        /\ \E causes : StartEnd(Closer(e), causes)
    BY <1>4 DEF Close
  <2>2. \A x \in Endpoints : ctxDone[x] => ctxDone'[x]
    BY <1>1, <2>1, ContextStays, EndpointFacts
  <2>3. \A x \in Endpoints : wire[x] \in Seq(Frames) /\ (wire'[x] = wire[x] \/ wire'[x] = Append(wire[x], CloseFrame))
    BY <1>1, <2>1 DEF ConnTypeOK, Transmit
  <2>4. CloseFrame \in Frames /\ CloseFrame.type \notin {"OpenCall", "StreamEnd"}
    BY ValueTypes DEF CloseFrame
  <2>5. \A x \in Endpoints : Quieter(wire'[x], wire[x], x)
    BY <2>3, <2>4, QuietFrames, QuietFrame
  <2> QED
    BY <2>1, <2>2, <2>5, UntouchedCalls, QuietStep
<1>5. ASSUME NEW t \in Threads, EndRelease(t) PROVE ServedInv'
  <2>1. UNCHANGED <<wire, streamID, nextStreamID, cancelRead, serving, admitted, reader, pc, ctxDone>>
    BY <1>5 DEF EndRelease
  <2>2. ASSUME NEW k \in Calls PROVE QuietCall(k)
    <3>1. /\ k \in calls'[Caller(k)] => k \in calls[Caller(k)]
          /\ callDone[k] => callDone'[k]
          /\ k \in inflight[Callee(k)] => k \in inflight'[Callee(k)] \/ callDone'[k]
      BY <1>1, <1>5, EndpointFacts DEF EndRelease, MapTypeOK, LoopTypeOK
    <3> QED
      BY <2>1, <3>1 DEF QuietCall
  <2> QED
    BY <1>1, <2>1, <2>2, SameWire, QuietStep
<1>6. CASE LoseLink \/ UNCHANGED vars \/ \E t \in Threads : EndClose(t)
  <2>1. UNCHANGED <<wire, streamID, nextStreamID, cancelRead, serving, admitted, inflight, callDone, pc, calls, reader,
                    ctxDone>>
    BY <1>6 DEF LoseLink, EndClose, vars
  <2> QED
    BY <1>1, <2>1, SameWire, UntouchedCalls, QuietStep
<1> QED
  BY <1>2, <1>3, <1>4, <1>5, <1>6, GoroutineStep, RegisterStep, SendStep, HandlerStep, OpenCallStep, TrackStep,
     StreamEndStep
  DEF Next, CallStep, ReadStep, EndStep

\* The invariant of the serving side holds: however calls, cancellations and
\* the teardown interleave, a call is opened once and its cancellation comes
\* behind (Session.Call, openCall, dispatch).
THEOREM ServedInvariant == Spec => [](TypeOK /\ CallerInv /\ ServedInv)
<1>1. Init => TypeOK /\ CallerInv /\ ServedInv
  BY InitTypeOK, InitCallerInv, InitServedInv
<1>2. TypeOK /\ CallerInv /\ ServedInv /\ [Next]_vars => (TypeOK /\ CallerInv /\ ServedInv)'
  BY NextTypeOK, NextCallerInv, NextServedInv
<1> QED
  BY <1>1, <1>2, PTL DEF Spec

\* A cancellation that was read has reached the handler, whatever calls the
\* other direction has under way under IDs of its own.
THEOREM CancellationReaches == Spec => []CancelNotLost
<1>1. ServedInv => CancelNotLost
  BY DEF ServedInv, ServeInv, CancelNotLost
<1> QED
  BY <1>1, ServedInvariant, PTL

-----------------------------------------------------------------------------
(* The budget of the serving side.                                           *)

\* The gate and the slots count finite sets.
LEMMA Counted ==
    ASSUME NEW S \in SUBSET Calls, NEW k \in Calls
    PROVE  /\ Cardinality({}) = 0
           /\ k \notin S => Cardinality(S \cup {k}) = Cardinality(S) + 1
           /\ k \in S => Cardinality(S \ {k}) = Cardinality(S) - 1
<1>1. IsFiniteSet(S)
  <2>1. IsFiniteSet(Calls)
    BY CallsAssumption, FS_Union DEF Calls
  <2> QED
    BY <2>1, FS_Subset
<1>2. Cardinality({}) = 0
  BY FS_EmptySet
<1>3. k \notin S => Cardinality(S \cup {k}) = Cardinality(S) + 1
  BY <1>1, FS_AddElement
<1>4. k \in S => Cardinality(S \ {k}) = Cardinality(S) - 1
  BY <1>1, FS_RemoveElement
<1> QED
  BY <1>2, <1>3, <1>4

\* The calls that hold a place in e's gate, and those that hold a slot, when
\* sv is where the handlers are and ad what the read loops have admitted.
Gated(e, sv, ad) == {k \in Calls : Callee(k) = e /\ sv[k] \in {"running", "releasing"}} \cup ad[e]
Slotted(e, sv, ad) ==
    {k \in {j \in Calls : Callee(j) = e /\ sv[j] \in {"running", "releasing"}} : sv[k] = "running"} \cup ad[e]

\* Who holds a place, when the calls that are served or admitted change.
LEMMA Holders ==
    ASSUME NEW e \in Endpoints, NEW sv, NEW ad \in [Endpoints -> SUBSET Calls]
    PROVE  /\ Gated(e, sv, ad) \in SUBSET Calls /\ Slotted(e, sv, ad) \in SUBSET Calls
           /\ \A k \in Calls : k \in Gated(e, sv, ad) <=>
                  (Callee(k) = e /\ sv[k] \in {"running", "releasing"}) \/ k \in ad[e]
           /\ \A k \in Calls : k \in Slotted(e, sv, ad) <=>
                  (Callee(k) = e /\ sv[k] = "running") \/ k \in ad[e]
<1>1. Gated(e, sv, ad) \in SUBSET Calls /\ Slotted(e, sv, ad) \in SUBSET Calls
  BY DEF Gated, Slotted
<1>2. \A k \in Calls : k \in Gated(e, sv, ad) <=>
          (Callee(k) = e /\ sv[k] \in {"running", "releasing"}) \/ k \in ad[e]
  BY DEF Gated
<1>3. \A k \in Calls : k \in Slotted(e, sv, ad) <=>
          (Callee(k) = e /\ sv[k] = "running") \/ k \in ad[e]
  BY SMTT(200) DEF Slotted
<1> QED
  BY <1>1, <1>2, <1>3

\* How the count changes from S to T when no call moves, when one call joins
\* and when one leaves.
Tally(S, T) ==
    /\ (\A j \in Calls : j \in T <=> j \in S) => Cardinality(T) = Cardinality(S)
    /\ \A k \in Calls : k \notin S /\ (\A j \in Calls : j \in T <=> j \in S \/ j = k) =>
           Cardinality(T) = Cardinality(S) + 1
    /\ \A k \in Calls : k \in S /\ (\A j \in Calls : j \in T <=> j \in S /\ j # k) =>
           Cardinality(T) = Cardinality(S) - 1

\* A step that changes the holders by one changes their number by one.
LEMMA Tallied ==
    ASSUME NEW S \in SUBSET Calls, NEW T \in SUBSET Calls
    PROVE  Tally(S, T)
<1>1. (\A j \in Calls : j \in T <=> j \in S) => T = S
  OBVIOUS
<1>2. ASSUME NEW k \in Calls, k \notin S, \A j \in Calls : j \in T <=> j \in S \/ j = k
      PROVE  Cardinality(T) = Cardinality(S) + 1
  <2>1. T = S \cup {k}
    BY <1>2
  <2> QED
    BY <1>2, <2>1, Counted
<1>3. ASSUME NEW k \in Calls, k \in S, \A j \in Calls : j \in T <=> j \in S /\ j # k
      PROVE  Cardinality(T) = Cardinality(S) - 1
  <2>1. T = S \ {k}
    BY <1>3
  <2> QED
    BY <1>3, <2>1, Counted
<1> QED
  BY <1>1, <1>2, <1>3 DEF Tally

\* Nobody holds a place.
LEMMA InitBudget == Init => BudgetExact
<1> SUFFICES ASSUME Init PROVE BudgetExact
  BY SMTT(200)
<1>1. ASSUME NEW e \in Endpoints
      PROVE  Serving(e) \cup admitted[e] = {} /\ {k \in Serving(e) : serving[k] = "running"} \cup admitted[e] = {}
  BY <1>1 DEF Init, Serving
<1>2. Cardinality({}) = 0
  BY FS_EmptySet
<1> QED
  BY <1>1, <1>2 DEF BudgetExact, Init

\* Every step keeps the counts.
LEMMA NextBudget == TypeOK /\ TypeOK' /\ ServedInv /\ BudgetExact /\ [Next]_vars => BudgetExact'
<1> SUFFICES ASSUME TypeOK, TypeOK', ServedInv, BudgetExact, [Next]_vars, NEW e \in Endpoints
             PROVE  /\ callGate'[e] = Cardinality(Gated(e, serving', admitted'))
                    /\ callSlots'[e] = Cardinality(Slotted(e, serving', admitted'))
  BY DEF BudgetExact, Serving, Gated, Slotted
<1> USE DEF connVars, callVars, mapVars, sessVars, loopVars, serveVars
<1> DEFINE G == Gated(e, serving, admitted)
           G2 == Gated(e, serving', admitted')
           S == Slotted(e, serving, admitted)
           S2 == Slotted(e, serving', admitted')
<1>1. /\ callGate \in [Endpoints -> Int] /\ callSlots \in [Endpoints -> Int]
      /\ serving \in [Calls -> {"none", "running", "releasing", "done"}]
      /\ reader \in [Endpoints -> {"read", "track", "stopped"}]
      /\ admitted \in [Endpoints -> SUBSET Calls] /\ admitted' \in [Endpoints -> SUBSET Calls]
      /\ ConnTypeOK
  BY DEF TypeOK, MapTypeOK, LoopTypeOK
<1>2. callGate[e] = Cardinality(G) /\ callSlots[e] = Cardinality(S)
  BY DEF BudgetExact, Serving, Gated, Slotted
<1>3. G \in SUBSET Calls /\ G2 \in SUBSET Calls /\ S \in SUBSET Calls /\ S2 \in SUBSET Calls
  BY <1>1, Holders
<1>4. \A k \in Calls :
        /\ k \in G <=> (Callee(k) = e /\ serving[k] \in {"running", "releasing"}) \/ k \in admitted[e]
        /\ k \in S <=> (Callee(k) = e /\ serving[k] = "running") \/ k \in admitted[e]
        /\ k \in G2 <=> (Callee(k) = e /\ serving'[k] \in {"running", "releasing"}) \/ k \in admitted'[e]
        /\ k \in S2 <=> (Callee(k) = e /\ serving'[k] = "running") \/ k \in admitted'[e]
  BY <1>1, Holders
<1> HIDE DEF G, G2, S, S2
<1> SUFFICES callGate'[e] = Cardinality(G2) /\ callSlots'[e] = Cardinality(S2)
  BY DEF G2, S2
<1>5. callGate[e] \in Int /\ callSlots[e] \in Int /\ AdmitInv(e)
  BY <1>1 DEF ServedInv
<1>6. Tally(G, G2)
  BY <1>3, Tallied
<1>7. Tally(S, S2)
  BY <1>3, Tallied
<1>8. CASE /\ callGate'[e] = callGate[e] /\ callSlots'[e] = callSlots[e] /\ admitted'[e] = admitted[e]
           /\ \A k \in Calls : Callee(k) = e => serving'[k] = serving[k]
  <2>1. \A k \in Calls : (k \in G2 <=> k \in G) /\ (k \in S2 <=> k \in S)
    BY <1>4, <1>8
  <2> QED
    BY <1>8, <1>2, <1>6, <1>7, <2>1 DEF Tally
<1>9. ASSUME NEW x \in Endpoints, ReadOpenCall(x)
      PROVE  callGate'[e] = Cardinality(G2) /\ callSlots'[e] = Cardinality(S2)
  <2>1. reader[x] = "read" /\ wire[Other(x)] # <<>> /\ Arriving(x).type = "OpenCall" /\ serving' = serving
    BY <1>9 DEF ReadOpenCall, ArrivesAt, Reading
  <2>2. CASE UNCHANGED <<callGate, callSlots, admitted>>
    BY <1>8, <2>1, <2>2
  <2>3. CASE /\ callGate' = acquire(callGate, x) /\ callSlots' = acquire(callSlots, x)
             /\ admitted' = [admitted EXCEPT ![x] = Arriving(x).call]
    <3>1. CASE x # e
      BY <1>1, <1>8, <2>1, <2>3, <3>1 DEF acquire
    <3>2. CASE x = e
      <4>1. PICK k \in Calls : Arriving(e).call = {k} /\ Callee(k) = e /\ serving[k] = "none"
        BY <1>1, <2>1, <3>2, OpenArrives
      <4>2. admitted[e] = {} /\ admitted'[e] = {k}
        BY <1>1, <1>5, <2>1, <2>3, <3>2, <4>1 DEF AdmitInv
      <4>3. callGate'[e] = callGate[e] + 1 /\ callSlots'[e] = callSlots[e] + 1
        BY <1>1, <2>3, <3>2 DEF acquire
      <4>4. /\ k \notin G /\ k \notin S
            /\ \A j \in Calls : (j \in G2 <=> j \in G \/ j = k) /\ (j \in S2 <=> j \in S \/ j = k)
        BY <1>4, <2>1, <4>1, <4>2
      <4> QED
        BY <1>2, <1>6, <1>7, <4>3, <4>4 DEF Tally
    <3> QED
      BY <3>1, <3>2
  <2> QED
    BY <1>9, <2>2, <2>3 DEF ReadOpenCall
<1>10. ASSUME NEW x \in Endpoints, TrackCall(x) PROVE callGate'[e] = Cardinality(G2) /\ callSlots'[e] = Cardinality(S2)
  <2>1. /\ UNCHANGED <<callGate, callSlots>> /\ admitted' = [admitted EXCEPT ![x] = {}]
        /\ \A k \in Calls : serving'[k] = IF k \in admitted[x] THEN "running" ELSE serving[k]
    BY <1>10 DEF TrackCall
  <2>2. \A k \in admitted[x] : Callee(k) = x
    BY DEF ServedInv, AdmitInv
  <2>3. CASE x # e
    <3>1. admitted'[e] = admitted[e] /\ \A k \in Calls : Callee(k) = e => serving'[k] = serving[k]
      BY <1>1, <2>1, <2>2, <2>3
    <3> QED
      BY <1>8, <2>1, <3>1
  <2>4. CASE x = e
    <3>1. admitted'[e] = {} /\ \A k \in admitted[e] : k \in Calls /\ Callee(k) = e /\ serving[k] = "none"
      BY <1>1, <2>1, <2>2, <2>4 DEF ServedInv, ServeInv
    <3>2. \A k \in Calls : (k \in G2 <=> k \in G) /\ (k \in S2 <=> k \in S)
      BY <1>4, <2>1, <2>4, <3>1
    <3> QED
      BY <1>2, <1>6, <1>7, <2>1, <3>2 DEF Tally
  <2> QED
    BY <2>3, <2>4, SMTT(200)
<1>11. ASSUME NEW k \in Calls, HandlerReturn(k) \/ HandlerRelease(k)
      PROVE  callGate'[e] = Cardinality(G2) /\ callSlots'[e] = Cardinality(S2)
  <2>1. /\ admitted' = admitted
        /\ \/ /\ serving[k] = "running" /\ serving' = [serving EXCEPT ![k] = "releasing"]
              /\ callGate' = callGate /\ callSlots' = release(callSlots, Callee(k))
           \/ /\ serving[k] = "releasing" /\ serving' = [serving EXCEPT ![k] = "done"]
              /\ callSlots' = callSlots /\ callGate' = release(callGate, Callee(k))
    BY <1>11 DEF HandlerReturn, HandlerRelease
  <2>2. \A j \in Calls : j # k => serving'[j] = serving[j]
    BY <1>1, <2>1
  <2>3. CASE Callee(k) # e
    <3>1. callGate'[e] = callGate[e] /\ callSlots'[e] = callSlots[e]
      BY <1>1, <2>1, <2>3 DEF release
    <3> QED
      BY <1>8, <2>1, <2>2, <2>3, <3>1
  <2>4. CASE Callee(k) = e
    <3>1. k \notin admitted[e]
      <4>1. serving[k] # "none" /\ ServeInv(k)
        BY <2>1 DEF ServedInv
      <4> QED
        BY <2>4, <4>1 DEF ServeInv
    <3>2. CASE serving[k] = "running"
      <4>1. serving'[k] = "releasing" /\ callGate'[e] = callGate[e] /\ callSlots'[e] = callSlots[e] - 1
        BY <1>1, <2>1, <2>4, <3>2 DEF release
      <4>2. /\ \A j \in Calls : j \in G2 <=> j \in G
            /\ k \in S /\ \A j \in Calls : j \in S2 <=> j \in S /\ j # k
        BY <1>4, <2>1, <2>2, <2>4, <3>1, <3>2, <4>1
      <4> QED
        BY <1>2, <1>6, <1>7, <4>1, <4>2 DEF Tally
    <3>3. CASE serving[k] = "releasing"
      <4>1. serving'[k] = "done" /\ callSlots'[e] = callSlots[e] /\ callGate'[e] = callGate[e] - 1
        BY <1>1, <2>1, <2>4, <3>3 DEF release
      <4>2. /\ \A j \in Calls : j \in S2 <=> j \in S
            /\ k \in G /\ \A j \in Calls : j \in G2 <=> j \in G /\ j # k
        BY <1>4, <2>1, <2>2, <2>4, <3>1, <3>3, <4>1
      <4> QED
        BY <1>2, <1>6, <1>7, <4>1, <4>2 DEF Tally
    <3> QED
      BY <2>1, <3>2, <3>3
  <2> QED
    BY <2>3, <2>4
<1>12. CASE UNCHANGED <<callGate, callSlots, serving, admitted>>
  BY <1>8, <1>12
<1>13. CASE UNCHANGED vars \/ LoseLink \/ \E t \in Threads : EndStep(t)
  BY <1>12, <1>13 DEF vars, LoseLink, EndStep, EndClose, EndRelease
<1>14. ASSUME NEW k \in Calls, CallCheck(k) \/ CallAbandon(k) \/ CallStep(k)
       PROVE  callGate'[e] = Cardinality(G2) /\ callSlots'[e] = Cardinality(S2)
  BY <1>12, <1>14 DEF CallCheck, CallAbandon, CallStep, CallRegister, CallWrite, CallSettled,
                            CallNotifyCancelled, CallReturn
<1>15. ASSUME NEW x \in Endpoints, ReadCallResult(x) \/ ReadStreamEnd(x) \/ ReadClose(x) \/ ReadEOF(x)
                                   \/ ReadError(x) \/ Close(x)
       PROVE  callGate'[e] = Cardinality(G2) /\ callSlots'[e] = Cardinality(S2)
  BY <1>12, <1>15 DEF ReadCallResult, ReadStreamEnd, ReadClose, ReadEOF, ReadError, Close, StopReading
<1> QED
  BY <1>9, <1>10, <1>11, <1>13, <1>14, <1>15 DEF Next, ReadStep

\* The gate and the slots count the calls under way exactly, whatever refusals,
\* cancellations and endings of the session come in between (openCall).
THEOREM BudgetCounts == Spec => []BudgetExact
<1>1. Init => BudgetExact
  BY InitBudget
<1>2. TypeOK /\ ServedInv /\ TypeOK' /\ BudgetExact /\ [Next]_vars => BudgetExact'
  BY NextBudget, SMTT(200)
<1> QED
  BY <1>1, <1>2, ServedInvariant, PTL DEF Spec

-----------------------------------------------------------------------------
(* What a call is told.  The contract of a call needs one more inductive     *)
(* invariant: the numbers of an endpoint's calls are different, and every    *)
(* answer, on the wire, in the channel of a call or returned, is true of the *)
(* handler of the call that takes it.                                        *)

\* The steps of a calling goroutine.
Calling(k) ==
    \/ CallCheck(k) \/ CallRegister(k) \/ CallWrite(k) \/ CallSettled(k)
    \/ CallAbandon(k) \/ CallNotifyCancelled(k) \/ CallReturn(k)

\* A calling goroutine leaves the serving side and the end of its session alone.
LEMMA CallingLeaves ==
    ASSUME NEW k \in Calls, Calling(k)
    PROVE  UNCHANGED <<serving, admitted, ended, terminal>>
<1> USE DEF connVars, callVars, mapVars, sessVars, loopVars, serveVars
<1>1. ASSUME CallCheck(k) \/ CallRegister(k) \/ CallWrite(k) PROVE UNCHANGED <<serving, admitted, ended, terminal>>
  BY <1>1 DEF CallCheck, CallRegister, CallWrite
<1>2. ASSUME CallSettled(k) \/ CallAbandon(k) PROVE UNCHANGED <<serving, admitted, ended, terminal>>
  BY <1>2 DEF CallSettled, CallAbandon
<1>3. ASSUME CallNotifyCancelled(k) \/ CallReturn(k) PROVE UNCHANGED <<serving, admitted, ended, terminal>>
  BY <1>3 DEF CallNotifyCancelled, CallReturn
<1> QED
  BY <1>1, <1>2, <1>3 DEF Calling

\* Nobody else moves a calling goroutine, numbers its call or writes what it returns.
LEMMA OthersLeave ==
    ASSUME [Next]_vars
    PROVE  (\E k \in Calls : Calling(k)) \/ UNCHANGED <<pc, streamID, ret, nextStreamID>>
<1> USE DEF connVars, callVars, mapVars, sessVars, loopVars, serveVars
<1>1. ASSUME NEW k \in Calls, HandlerReturn(k) \/ HandlerRelease(k) PROVE UNCHANGED <<pc, streamID, ret, nextStreamID>>
  BY <1>1 DEF HandlerReturn, HandlerRelease
<1>2. ASSUME NEW e \in Endpoints, ReadOpenCall(e) \/ TrackCall(e) PROVE UNCHANGED <<pc, streamID, ret, nextStreamID>>
  BY <1>2 DEF ReadOpenCall, TrackCall
<1>3. ASSUME NEW e \in Endpoints, ReadCallResult(e) \/ ReadStreamEnd(e) PROVE UNCHANGED <<pc, streamID, ret, nextStreamID>>
  BY <1>3 DEF ReadCallResult, ReadStreamEnd
<1>4. ASSUME NEW e \in Endpoints, ReadClose(e) \/ ReadEOF(e) \/ ReadError(e) \/ Close(e)
      PROVE  UNCHANGED <<pc, streamID, ret, nextStreamID>>
  BY <1>4 DEF ReadClose, ReadEOF, ReadError, StopReading, Close
<1>5. ASSUME NEW t \in Threads, EndStep(t) PROVE UNCHANGED <<pc, streamID, ret, nextStreamID>>
  BY <1>5 DEF EndStep, EndClose, EndRelease
<1>6. LoseLink \/ UNCHANGED vars => UNCHANGED <<pc, streamID, ret, nextStreamID>>
  BY DEF LoseLink, vars
<1> QED
  BY <1>1, <1>2, <1>3, <1>4, <1>5, <1>6 DEF Next, CallStep, ReadStep, Calling

\* The steps of one call's goroutine: its place, its number, what it returns.
Still(k) == pc'[k] = pc[k] /\ streamID'[k] = streamID[k] /\ ret'[k] = ret[k]
Moves(k) ==
    LET c == Caller(k) IN
    \/ /\ pc[k] = "idle" /\ pc'[k] = "usable" /\ streamID'[k] = streamID[k]
    \/ /\ pc[k] = "idle" /\ pc'[k] = "returned" /\ streamID'[k] = streamID[k]
       /\ \/ ended[c] /\ ret'[k] = Failure(terminal[c])
          \/ ret'[k] = Failure("tooLarge")
    \/ /\ pc[k] = "usable" /\ pc'[k] = "registered"
       /\ streamID'[k] = nextStreamID[c] /\ nextStreamID'[c] = nextStreamID[c] + 2
    \/ /\ pc[k] = "registered" /\ pc'[k] = "waiting" /\ streamID'[k] = streamID[k]
    \/ /\ pc[k] = "waiting" /\ pc'[k] = "cancelling" /\ streamID'[k] = streamID[k]
    \/ /\ pc[k] \in {"registered", "cancelling"} /\ pc'[k] = "returning" /\ streamID'[k] = streamID[k]
       /\ ret'[k] \in {Failure("broken"), Failure("tooLarge"), Failure("canceled")}
    \/ /\ pc[k] = "waiting" /\ pc'[k] = "returned" /\ streamID'[k] = streamID[k]
       /\ outcome[k] # <<>> /\ ret'[k] = Head(outcome[k])
    \/ /\ pc[k] = "returning" /\ pc'[k] = "returned" /\ streamID'[k] = streamID[k] /\ ret'[k] = ret[k]

\* A step of a calling goroutine is one of those, and leaves the other calls alone.
LEMMA CallingMoves ==
    ASSUME TypeOK, NEW k \in Calls, Calling(k)
    PROVE  /\ Moves(k)
           /\ \A j \in Calls : j # k => Still(j)
           /\ (UNCHANGED nextStreamID) \/ nextStreamID' = [nextStreamID EXCEPT ![Caller(k)] = @ + 2]
<1>1. /\ pc \in [Calls -> {"idle", "usable", "registered", "waiting", "cancelling", "returning", "returned"}]
      /\ streamID \in [Calls -> Nat] /\ ret \in [Calls -> Outcomes]
      /\ nextStreamID \in [Endpoints -> Nat] /\ Caller(k) \in Endpoints
  BY EndpointFacts DEF TypeOK, CallTypeOK, MapTypeOK
<1> USE DEF mapVars, sessVars
<1>2. CASE CallCheck(k)
  <2>1. UNCHANGED <<streamID, nextStreamID>> /\ pc[k] = "idle"
    BY <1>2 DEF CallCheck
  <2>2. \/ pc' = [pc EXCEPT ![k] = "usable"] /\ ret' = ret
        \/ /\ pc' = [pc EXCEPT ![k] = "returned"]
           /\ \/ ended[Caller(k)] /\ ret' = [ret EXCEPT ![k] = Failure(terminal[Caller(k)])]
              \/ ret' = [ret EXCEPT ![k] = Failure("tooLarge")]
    BY <1>2 DEF CallCheck
  <2>3. \A j \in Calls : j # k => Still(j)
    BY <1>1, <2>1, <2>2 DEF Still
  <2>4. Moves(k)
    BY <1>1, <2>1, <2>2 DEF Moves
  <2> QED
    BY <2>1, <2>3, <2>4
<1>3. CASE CallRegister(k)
  <2>1. /\ UNCHANGED ret /\ pc[k] = "usable" /\ pc' = [pc EXCEPT ![k] = "registered"]
        /\ streamID' = [streamID EXCEPT ![k] = nextStreamID[Caller(k)]]
        /\ nextStreamID' = [nextStreamID EXCEPT ![Caller(k)] = @ + 2]
    BY <1>3 DEF CallRegister, allocateStreamID
  <2>2. \A j \in Calls : j # k => Still(j)
    BY <1>1, <2>1 DEF Still
  <2>3. Moves(k)
    BY <1>1, <2>1 DEF Moves
  <2> QED
    BY <2>1, <2>2, <2>3
<1>4. CASE CallWrite(k)
  <2>1. UNCHANGED <<streamID, nextStreamID>> /\ pc[k] = "registered"
    BY <1>4 DEF CallWrite
  <2>2. \/ pc' = [pc EXCEPT ![k] = "waiting"] /\ ret' = ret
        \/ /\ pc' = [pc EXCEPT ![k] = "returning"]
           /\ ret' = [ret EXCEPT ![k] = Failure("broken")] \/ ret' = [ret EXCEPT ![k] = Failure("tooLarge")]
    BY <1>4 DEF CallWrite
  <2>3. \A j \in Calls : j # k => Still(j)
    BY <1>1, <2>1, <2>2 DEF Still
  <2>4. Moves(k)
    BY <1>1, <2>1, <2>2 DEF Moves
  <2> QED
    BY <2>1, <2>3, <2>4
<1>5. CASE CallSettled(k)
  <2>1. /\ UNCHANGED <<streamID, nextStreamID>> /\ pc[k] = "waiting" /\ outcome[k] # <<>>
        /\ pc' = [pc EXCEPT ![k] = "returned"] /\ ret' = [ret EXCEPT ![k] = Head(outcome[k])]
    BY <1>5 DEF CallSettled
  <2>2. \A j \in Calls : j # k => Still(j)
    BY <1>1, <2>1 DEF Still
  <2>3. Moves(k)
    BY <1>1, <2>1 DEF Moves
  <2> QED
    BY <2>1, <2>2, <2>3
<1>6. CASE CallAbandon(k) \/ CallReturn(k)
  <2>1. /\ UNCHANGED <<streamID, nextStreamID, ret>>
        /\ \/ pc[k] = "waiting" /\ pc' = [pc EXCEPT ![k] = "cancelling"]
           \/ pc[k] = "returning" /\ pc' = [pc EXCEPT ![k] = "returned"]
    BY <1>6 DEF CallAbandon, CallReturn
  <2>2. \A j \in Calls : j # k => Still(j)
    BY <1>1, <2>1 DEF Still
  <2>3. Moves(k)
    BY <1>1, <2>1 DEF Moves
  <2> QED
    BY <2>1, <2>2, <2>3
<1>7. CASE CallNotifyCancelled(k)
  <2>1. /\ UNCHANGED <<streamID, nextStreamID>> /\ pc[k] = "cancelling"
        /\ pc' = [pc EXCEPT ![k] = "returning"] /\ ret' = [ret EXCEPT ![k] = Failure("canceled")]
    BY <1>7 DEF CallNotifyCancelled
  <2>2. \A j \in Calls : j # k => Still(j)
    BY <1>1, <2>1 DEF Still
  <2>3. Moves(k)
    BY <1>1, <2>1 DEF Moves
  <2> QED
    BY <2>1, <2>2, <2>3
<1> QED
  BY <1>2, <1>3, <1>4, <1>5, <1>6, <1>7 DEF Calling

\* So every call stands still or moves, whatever the step.
LEMMA NextMoves ==
    ASSUME TypeOK, [Next]_vars, NEW k \in Calls
    PROVE  Still(k) \/ Moves(k)
<1>1. CASE \E j \in Calls : Calling(j)
  BY <1>1, CallingMoves
<1>2. CASE UNCHANGED <<pc, streamID, ret, nextStreamID>>
  BY <1>2 DEF Still
<1> QED
  BY <1>1, <1>2, OthersLeave

\* A handler starts when its call was admitted, returns, and gives up its slot.
ServeMoves(k) ==
    \/ serving'[k] = serving[k]
    \/ serving[k] = "none" /\ serving'[k] = "running" /\ k \in admitted[Callee(k)]
    \/ serving[k] = "running" /\ serving'[k] = "releasing"
    \/ serving[k] = "releasing" /\ serving'[k] = "done"

\* Only the read loop and the serving goroutine move the serving of a call.
LEMMA ServingLeft ==
    ASSUME [Next]_vars
    PROVE  \/ \E k \in Calls : HandlerReturn(k) \/ HandlerRelease(k)
           \/ \E e \in Endpoints : ReadOpenCall(e) \/ TrackCall(e)
           \/ UNCHANGED <<serving, admitted>>
<1> USE DEF connVars, callVars, mapVars, sessVars, loopVars, serveVars
<1>1. ASSUME NEW k \in Calls, Calling(k) PROVE UNCHANGED <<serving, admitted>>
  BY <1>1, CallingLeaves
<1>2. ASSUME NEW e \in Endpoints, ReadCallResult(e) \/ ReadStreamEnd(e) PROVE UNCHANGED <<serving, admitted>>
  BY <1>2 DEF ReadCallResult, ReadStreamEnd
<1>3. ASSUME NEW e \in Endpoints, ReadClose(e) \/ ReadEOF(e) \/ ReadError(e) \/ Close(e)
      PROVE  UNCHANGED <<serving, admitted>>
  BY <1>3 DEF ReadClose, ReadEOF, ReadError, StopReading, Close
<1>4. ASSUME NEW t \in Threads, EndStep(t) PROVE UNCHANGED <<serving, admitted>>
  BY <1>4 DEF EndStep, EndClose, EndRelease
<1>5. LoseLink \/ UNCHANGED vars => UNCHANGED <<serving, admitted>>
  BY DEF LoseLink, vars
<1> QED
  BY <1>1, <1>2, <1>3, <1>4, <1>5 DEF Next, CallStep, ReadStep, Calling

\* The handlers move one step at a time, and only an OpenCall that is read is admitted.
LEMMA NextServes ==
    ASSUME TypeOK, ServedInv, [Next]_vars, NEW k \in Calls
    PROVE  /\ ServeMoves(k)
           /\ k \in admitted'[Callee(k)] => k \in admitted[Callee(k)] \/ HasOpen(wire[Caller(k)], k)
<1>1. /\ serving \in [Calls -> {"none", "running", "releasing", "done"}]
      /\ admitted \in [Endpoints -> SUBSET Calls] /\ Callee(k) \in Endpoints
  BY EndpointFacts DEF TypeOK, LoopTypeOK
<1>2. ASSUME NEW j \in Calls, HandlerReturn(j) \/ HandlerRelease(j) PROVE ServeMoves(k) /\ admitted' = admitted
  <2>1. \/ serving[j] = "running" /\ serving' = [serving EXCEPT ![j] = "releasing"]
        \/ serving[j] = "releasing" /\ serving' = [serving EXCEPT ![j] = "done"]
    BY <1>2 DEF HandlerReturn, HandlerRelease
  <2>2. admitted' = admitted
    BY <1>2 DEF HandlerReturn, HandlerRelease, loopVars
  <2> QED
    BY <1>1, <2>1, <2>2 DEF ServeMoves
<1>3. ASSUME NEW e \in Endpoints, TrackCall(e)
      PROVE  ServeMoves(k) /\ (k \in admitted'[Callee(k)] => k \in admitted[Callee(k)])
  <2>1. /\ admitted' = [admitted EXCEPT ![e] = {}]
        /\ serving'[k] = IF k \in admitted[e] THEN "running" ELSE serving[k]
    BY <1>3 DEF TrackCall
  <2>2. k \in admitted[e] => Callee(k) = e /\ serving[k] = "none"
    BY DEF ServedInv, AdmitInv, ServeInv
  <2> QED
    BY <1>1, <2>1, <2>2 DEF ServeMoves
<1>4. ASSUME NEW e \in Endpoints, ReadOpenCall(e)
      PROVE  /\ ServeMoves(k)
             /\ k \in admitted'[Callee(k)] => k \in admitted[Callee(k)] \/ HasOpen(wire[Caller(k)], k)
  <2>1. /\ serving' = serving /\ wire[Other(e)] # <<>> /\ Arriving(e).type = "OpenCall"
        /\ admitted' = admitted \/ admitted' = [admitted EXCEPT ![e] = Arriving(e).call]
    BY <1>4 DEF ReadOpenCall, ArrivesAt, serveVars
  <2>2. wire[Other(e)] \in Seq(Frames) /\ Arriving(e) = Head(wire[Other(e)])
    BY EndpointFacts DEF TypeOK, ConnTypeOK, Arriving
  <2>3. 1 \in DOMAIN wire[Other(e)] /\ Arriving(e) = wire[Other(e)][1]
    BY <2>1, <2>2, TailAt
  <2>4. Callee(k) = e => Caller(k) = Other(e)
    BY EndpointFacts, SMTT(200) DEF Callee, Other, Caller, Endpoints
  <2>5. Callee(k) = e /\ k \in Arriving(e).call => HasOpen(wire[Caller(k)], k)
    BY <2>1, <2>3, <2>4 DEF HasOpen, Opens
  <2> QED
    BY <1>1, <2>1, <2>5 DEF ServeMoves
<1>5. ASSUME UNCHANGED <<serving, admitted>> PROVE ServeMoves(k) /\ admitted' = admitted
  BY <1>5 DEF ServeMoves
<1> QED
  BY <1>2, <1>3, <1>4, <1>5, ServingLeft

-----------------------------------------------------------------------------
(* What the goroutines write.                                                *)

\* A frame that endpoint x had sent before.
Sent(x, f) == \E j \in DOMAIN wire[x] : f = wire[x][j]

\* The frames of a step: of a call that begins, of one that is given up, of a
\* handler that returns, and of a call that is refused.
WroteOpen(x, f) ==
    \E k \in Calls : /\ Caller(k) = x /\ f = OpenCall(streamID[k], k)
                     /\ pc[k] = "registered" /\ pc'[k] = "waiting"
WroteCancel(x, f) ==
    \E k \in Calls : Caller(k) = x /\ f = StreamEnd(streamID[k], k, "canceled") /\ pc[k] = "cancelling"
WroteResult(x, f) ==
    \E k \in Calls : /\ Callee(k) = x /\ serving[k] = "running" /\ serving'[k] = "releasing"
                     /\ \/ f = CallResult(streamID[k], k)
                        \/ \E s \in {"failed", "canceled", "tooLarge"} : f = StreamEnd(streamID[k], k, s)
WroteRefusal(x, f) ==
    /\ wire[Other(x)] # <<>> /\ Arriving(x).type = "OpenCall" /\ wire'[Other(x)] = Tail(wire[Other(x)])
    /\ UNCHANGED <<serving, admitted, pc, streamID>>
    /\ \E k \in Arriving(x).call, s \in {"overloaded", "refused", "canceled"} : f = StreamEnd(Arriving(x).id, k, s)
Wrote(x, f) ==
    f = CloseFrame \/ WroteOpen(x, f) \/ WroteCancel(x, f) \/ WroteResult(x, f) \/ WroteRefusal(x, f)

\* A wire that was left alone, read from or lost holds nothing new; one that
\* was written to holds one frame more.
LEMMA WireFrames ==
    ASSUME NEW x, wire[x] \in Seq(Frames), NEW g \in Frames,
           \/ wire'[x] = wire[x] \/ wire'[x] = <<>>
           \/ wire[x] # <<>> /\ wire'[x] = Tail(wire[x])
           \/ wire'[x] = Append(wire[x], g) /\ Wrote(x, g)
    PROVE  \A i \in DOMAIN wire'[x] : Sent(x, wire'[x][i]) \/ Wrote(x, wire'[x][i])
<1> DEFINE w == wire[x]
<1> HIDE DEF w
<1>1. w \in Seq(Frames)
  BY DEF w
<1>2. \A i \in DOMAIN w : \E j \in DOMAIN w : w[i] = w[j]
  OBVIOUS
<1>3. \A i \in DOMAIN <<>> : FALSE
  BY SMTT(200)
<1>4. ASSUME w # <<>> PROVE \A i \in DOMAIN Tail(w) : \E j \in DOMAIN w : Tail(w)[i] = w[j]
  BY <1>1, <1>4, TailAt
<1>5. \A i \in DOMAIN Append(w, g) : (\E j \in DOMAIN w : Append(w, g)[i] = w[j]) \/ Append(w, g)[i] = g
  BY <1>1, AppendAt, SMTT(200)
<1> QED
  BY <1>2, <1>3, <1>4, <1>5 DEF w, Sent

\* The frame a goroutine hands to writeFrame is one of those.
LEMMA FrameWritten ==
    ASSUME ConnTypeOK, NEW t \in Threads, NEW g \in Frames, writeFrame(wire, t, g), Wrote(Home(t), g), NEW x \in Endpoints
    PROVE  \A i \in DOMAIN wire'[x] : Sent(x, wire'[x][i]) \/ Wrote(x, wire'[x][i])
<1>1. /\ x # Home(t) => wire'[x] = wire[x]
      /\ x = Home(t) => wire'[x] = wire[x] \/ wire'[x] = Append(wire[x], g)
  BY WrittenFrame DEF ConnTypeOK
<1>2. wire[x] \in Seq(Frames)
  BY DEF ConnTypeOK
<1> QED
  BY <1>1, <1>2, WireFrames

\* Every frame that is on a wire after a step was there before, or is one of those.
LEMMA NextWrites ==
    ASSUME TypeOK, [Next]_vars, NEW x \in Endpoints
    PROVE  \A i \in DOMAIN wire'[x] : Sent(x, wire'[x][i]) \/ Wrote(x, wire'[x][i])
<1> DEFINE Goal == \A i \in DOMAIN wire'[x] : Sent(x, wire'[x][i]) \/ Wrote(x, wire'[x][i])
<1> HIDE DEF Goal
<1> SUFFICES Goal
  BY DEF Goal
<1> USE DEF connVars, callVars, mapVars, sessVars, loopVars, serveVars
<1>1. ConnTypeOK /\ CallTypeOK /\ LoopTypeOK /\ wire[x] \in Seq(Frames) /\ CloseFrame \in Frames
  BY ValueTypes DEF TypeOK, ConnTypeOK
<1>2. \/ wire'[x] = wire[x] \/ wire'[x] = <<>> \/ (wire[x] # <<>> /\ wire'[x] = Tail(wire[x]))
      => Goal
  BY <1>1, WireFrames DEF Goal
<1>3. ASSUME NEW k \in Calls, CallWrite(k) PROVE Goal
  <2> DEFINE g == OpenCall(streamID[k], k)
             c == Caller(k)
  <2>1. g \in Frames /\ c \in Endpoints
    BY <1>1, EndpointFacts, ValueTypes DEF CallTypeOK
  <2>2. \/ wire' = wire
        \/ wire' = Transmit(wire, c, g) /\ pc[k] = "registered" /\ pc' = [pc EXCEPT ![k] = "waiting"]
    BY <1>3 DEF CallWrite
  <2>3. CASE wire' = Transmit(wire, c, g) /\ pc[k] = "registered" /\ pc' = [pc EXCEPT ![k] = "waiting"]
    <3>1. Wrote(c, g)
      BY <1>1, <2>3 DEF Wrote, WroteOpen, CallTypeOK
    <3>2. wire'[x] = wire[x] \/ (x = c /\ wire'[x] = Append(wire[x], g))
      BY <1>1, <2>3 DEF Transmit, ConnTypeOK
    <3> QED
      BY <1>1, <2>1, <3>1, <3>2, WireFrames DEF Goal
  <2> QED
    BY <1>2, <2>2, <2>3
<1>4. ASSUME NEW k \in Calls, CallNotifyCancelled(k) PROVE Goal
  <2> DEFINE g == StreamEnd(streamID[k], k, "canceled")
  <2>1. g \in Frames /\ CallerOf(k) \in Threads /\ Home(CallerOf(k)) = Caller(k)
    BY <1>1, EndpointFacts, ValueTypes DEF CallTypeOK, CallerOf, Home
  <2>2. writeFrame(wire, CallerOf(k), g) /\ Wrote(Caller(k), g)
    BY <1>4 DEF CallNotifyCancelled, Wrote, WroteCancel
  <2> QED
    BY <1>1, <2>1, <2>2, FrameWritten DEF Goal
<1>5. ASSUME NEW k \in Calls, HandlerReturn(k) PROVE Goal
  <2>1. HandlerOf(k) \in Threads /\ Home(HandlerOf(k)) = Callee(k)
    BY EndpointFacts, SMTT(200) DEF HandlerOf, Home
  <2>2. serving[k] = "running" /\ serving'[k] = "releasing"
    BY <1>1, <1>5 DEF HandlerReturn, LoopTypeOK
  <2>3. \/ wire' = wire
        \/ writeFrame(wire, HandlerOf(k), CallResult(streamID[k], k))
        \/ \E s \in {"failed", "canceled", "tooLarge"} : writeFrame(wire, HandlerOf(k), StreamEnd(streamID[k], k, s))
    BY <1>5 DEF HandlerReturn
  <2>4. /\ CallResult(streamID[k], k) \in Frames
        /\ \A s \in {"failed", "canceled", "tooLarge"} : StreamEnd(streamID[k], k, s) \in Frames
    BY <1>1, ValueTypes DEF CallTypeOK
  <2>5. /\ Wrote(Callee(k), CallResult(streamID[k], k))
        /\ \A s \in {"failed", "canceled", "tooLarge"} : Wrote(Callee(k), StreamEnd(streamID[k], k, s))
    BY <2>2 DEF Wrote, WroteResult
  <2>6. CASE writeFrame(wire, HandlerOf(k), CallResult(streamID[k], k))
    BY <1>1, <2>1, <2>4, <2>5, <2>6, FrameWritten DEF Goal
  <2>7. ASSUME NEW s \in {"failed", "canceled", "tooLarge"}, writeFrame(wire, HandlerOf(k), StreamEnd(streamID[k], k, s))
        PROVE  Goal
    BY <1>1, <2>1, <2>4, <2>5, <2>7, FrameWritten DEF Goal
  <2> QED
    BY <1>2, <2>3, <2>6, <2>7
<1>6. ASSUME NEW e \in Endpoints, wire[Other(e)] # <<>>, wire' = Consumed(e) PROVE Goal
  <2>1. wire'[x] = wire[x] \/ (wire[x] # <<>> /\ wire'[x] = Tail(wire[x]))
    BY <1>1, <1>6 DEF Consumed, ConnTypeOK
  <2> QED
    BY <1>2, <2>1
<1>7. ASSUME NEW e \in Endpoints, ReadOpenCall(e) PROVE Goal
  <2>1. wire[Other(e)] # <<>> /\ Arriving(e).type = "OpenCall" /\ UNCHANGED <<serving, pc, streamID>>
    BY <1>7 DEF ReadOpenCall, ArrivesAt
  <2>2. \/ wire' = Consumed(e)
        \/ /\ UNCHANGED admitted
           /\ \E k \in Arriving(e).call, s \in {"overloaded", "refused", "canceled"} :
                 writeFrame(Consumed(e), Reader(e), StreamEnd(Arriving(e).id, k, s))
    BY <1>7 DEF ReadOpenCall, ReplyTo
  <2>3. /\ Consumed(e) \in [Endpoints -> Seq(Frames)] /\ Arriving(e) \in Frames
        /\ Reader(e) \in Threads /\ Home(Reader(e)) = e /\ Other(e) \in Endpoints /\ Other(e) # e
    BY <1>1, <2>1, ConsumedType, EndpointFacts DEF Home, Reader
  <2>4. Consumed(e)[Other(e)] = Tail(wire[Other(e)]) /\ \A y \in Endpoints : y # Other(e) => Consumed(e)[y] = wire[y]
    BY <1>1, <2>1, ConsumedWire
  <2>5. ASSUME UNCHANGED admitted, NEW k \in Arriving(e).call, NEW s \in {"overloaded", "refused", "canceled"},
               writeFrame(Consumed(e), Reader(e), StreamEnd(Arriving(e).id, k, s))
        PROVE  Goal
    <3> DEFINE g == StreamEnd(Arriving(e).id, k, s)
    <3>1. g \in Frames
      BY <2>3, ValueTypes
    <3>2. /\ \A y \in Endpoints : y # e => wire'[y] = Consumed(e)[y]
          /\ wire'[e] = Consumed(e)[e] \/ wire'[e] = Append(Consumed(e)[e], g)
      BY <2>3, <2>5, WrittenFrame
    <3>3. wire'[Other(e)] = Tail(wire[Other(e)]) /\ (wire'[e] = wire[e] \/ wire'[e] = Append(wire[e], g))
      BY <2>3, <2>4, <3>2
    <3>4. Wrote(e, g)
      BY <2>1, <2>5, <3>3 DEF Wrote, WroteRefusal
    <3>5. CASE x = e
      BY <1>1, <3>1, <3>3, <3>4, <3>5, WireFrames DEF Goal
    <3>6. CASE x = Other(e)
      BY <1>2, <2>1, <3>3, <3>6
    <3>7. x = e \/ x = Other(e)
      BY SMTT(200) DEF Endpoints, Other
    <3> QED
      BY <3>5, <3>6, <3>7
  <2> QED
    BY <1>6, <2>1, <2>2, <2>5
<1>8. ASSUME NEW e \in Endpoints, ReadCallResult(e) \/ ReadStreamEnd(e) PROVE Goal
  <2>1. wire[Other(e)] # <<>> /\ wire' = Consumed(e)
    BY <1>8 DEF ReadCallResult, ReadStreamEnd, ArrivesAt
  <2> QED
    BY <1>6, <2>1
<1>9. ASSUME NEW e \in Endpoints, ReadClose(e) \/ ReadEOF(e) \/ ReadError(e) PROVE Goal
  <2>1. wire' = [wire EXCEPT ![Other(e)] = <<>>]
    BY <1>9 DEF ReadClose, ReadEOF, ReadError, StopReading
  <2>2. wire'[x] = wire[x] \/ wire'[x] = <<>>
    BY <1>1, <2>1 DEF ConnTypeOK
  <2> QED
    BY <1>2, <2>2
<1>10. ASSUME NEW e \in Endpoints, Close(e) PROVE Goal
  <2>1. wire' = wire \/ wire' = Transmit(wire, e, CloseFrame)
    BY <1>10 DEF Close
  <2>2. wire'[x] = wire[x] \/ wire'[x] = Append(wire[x], CloseFrame)
    BY <1>1, <2>1 DEF Transmit, ConnTypeOK
  <2>3. Wrote(x, CloseFrame)
    BY DEF Wrote
  <2> QED
    BY <1>1, <2>2, <2>3, WireFrames DEF Goal
<1>11. ASSUME wire' = wire PROVE Goal
  BY <1>2, <1>11
<1>12. ASSUME NEW k \in Calls, CallCheck(k) \/ CallRegister(k) \/ CallSettled(k) PROVE wire' = wire
  BY <1>12 DEF CallCheck, CallRegister, CallSettled
<1>13. ASSUME NEW k \in Calls, CallAbandon(k) \/ CallReturn(k) \/ HandlerRelease(k) PROVE wire' = wire
  BY <1>13 DEF CallAbandon, CallReturn, HandlerRelease
<1>14. ASSUME NEW e \in Endpoints, TrackCall(e) PROVE wire' = wire
  BY <1>14 DEF TrackCall
<1>15. ASSUME NEW t \in Threads, EndStep(t) PROVE wire' = wire
  BY <1>15 DEF EndStep, EndClose, EndRelease
<1>16. LoseLink \/ UNCHANGED vars => wire' = wire
  BY DEF LoseLink, vars
<1> QED
  BY <1>3, <1>4, <1>5, <1>7, <1>8, <1>9, <1>10, <1>11, <1>12, <1>13, <1>14, <1>15, <1>16 DEF Next, CallStep, ReadStep

-----------------------------------------------------------------------------
(* What a call is told.  The refinement of CallContract rests on a third     *)
(* inductive invariant: the IDs of an endpoint's calls differ, and an answer *)
(* on its way to a call, sent to it or returned by it is true of its handler.*)

\* The handler is past its work; the call was read and will not be served.
Finished(k) == serving[k] \in {"releasing", "done"}
Refused(k) ==
    /\ serving[k] = "none" /\ k \notin admitted[Callee(k)]
    /\ ~HasOpen(wire[Caller(k)], k) /\ pc[k] \notin {"idle", "usable", "registered"}

Told(k, err, payload) ==
    /\ err = "ok" => payload = {k} /\ Finished(k)
    /\ err \in {"refused", "overloaded"} => Refused(k)

Replies(f, k) == f.type \in {"CallResult", "StreamEnd"} /\ k \in f.call
TrueReply(f, k) ==
    /\ f.call = {k} /\ f.id = streamID[k] /\ streamID[k] # 0
    /\ f.type = "CallResult" => Finished(k)
    /\ f.type = "StreamEnd" => f.status # "ok" /\ Told(k, f.status, {})

NumberInv(k) ==
    /\ pc[k] \in {"idle", "usable"} => streamID[k] = 0
    /\ \/ pc[k] \in {"registered", "waiting", "cancelling", "returning"}
       \/ HasOpen(wire[Caller(k)], k) \/ k \in admitted[Callee(k)] \/ serving[k] # "none"
       => streamID[k] # 0
    /\ streamID[k] < nextStreamID[Caller(k)]
    /\ \A j \in Calls : Caller(j) = Caller(k) /\ streamID[j] = streamID[k] /\ streamID[k] # 0 => j = k

AnswerInv(k) ==
    /\ \A i \in DOMAIN wire[Callee(k)] : Replies(wire[Callee(k)][i], k) => TrueReply(wire[Callee(k)][i], k)
    /\ outcome[k] # <<>> => Told(k, Head(outcome[k]).err, Head(outcome[k]).payload)
    /\ pc[k] = "returning" => ret[k].err \in {"broken", "tooLarge", "canceled"}
    /\ pc[k] = "returned" /\ streamID[k] # 0 => Told(k, ret[k].err, ret[k].payload)

\* What the end of a session says, and whom the answers on a wire are for.
TerminalInv(e) == ended[e] => terminal[e] \in {"closed", "broken", "tooLarge"}
LabelInv(e) ==
    \A i \in DOMAIN wire[e] : wire[e][i].type \in {"CallResult", "StreamEnd"} =>
        \E k \in Calls : wire[e][i].call = {k} /\ (wire[e][i].type = "CallResult" => Callee(k) = e)

AnsweredInv ==
    /\ \A e \in Endpoints : TerminalInv(e) /\ LabelInv(e)
    /\ \A k \in Calls : NumberInv(k) /\ AnswerInv(k)

\* Nothing has been sent and nobody was told anything.
LEMMA InitAnsweredInv == Init => AnsweredInv
<1> SUFFICES ASSUME Init PROVE AnsweredInv
  OBVIOUS
<1>1. ASSUME NEW e \in Endpoints PROVE wire[e] = <<>> /\ DOMAIN wire[e] = {} /\ ~ended[e] /\ nextStreamID[e] = parity(e)
  <2>1. wire[e] = <<>> /\ ended[e] = FALSE /\ nextStreamID[e] = parity(e)
    BY <1>1 DEF Init
  <2>2. DOMAIN wire[e] = {}
    BY <2>1, SMTT(200)
  <2> QED
    BY <2>1, <2>2
<1>2. ASSUME NEW k \in Calls
      PROVE  /\ pc[k] = "idle" /\ streamID[k] = 0 /\ outcome[k] = <<>> /\ serving[k] = "none"
             /\ k \notin admitted[Callee(k)]
  BY <1>2, EndpointFacts DEF Init
<1>3. ASSUME NEW k \in Calls PROVE NumberInv(k)
  <2>1. 0 < parity(Caller(k))
    BY SMTT(200) DEF parity
  <2>2. ~HasOpen(wire[Caller(k)], k)
    BY <1>1, EndpointFacts DEF HasOpen
  <2> QED
    BY <1>1, <1>2, <2>1, <2>2, EndpointFacts DEF NumberInv
<1>4. ASSUME NEW k \in Calls PROVE AnswerInv(k)
  BY <1>1, <1>2, <1>4, EndpointFacts DEF AnswerInv
<1>5. ASSUME NEW e \in Endpoints PROVE TerminalInv(e) /\ LabelInv(e)
  BY <1>1, <1>5 DEF TerminalInv, LabelInv
<1> QED
  BY <1>3, <1>4, <1>5 DEF AnsweredInv

\* What the frames that are written say.
LEMMA FrameFields ==
    /\ CloseFrame.type = "Close"
    /\ \A n, k : /\ OpenCall(n, k).type = "OpenCall" /\ OpenCall(n, k).call = {k} /\ OpenCall(n, k).id = n
                 /\ CallResult(n, k).type = "CallResult" /\ CallResult(n, k).call = {k} /\ CallResult(n, k).id = n
    /\ \A n, k, s : LET f == StreamEnd(n, k, s) IN f.type = "StreamEnd" /\ f.call = {k} /\ f.id = n /\ f.status = s
  BY DEF CloseFrame, OpenCall, CallResult, StreamEnd

\* The other frames open no call.
LEMMA OtherFrames ==
    ASSUME NEW x, NEW f, f = CloseFrame \/ WroteCancel(x, f) \/ WroteResult(x, f) \/ WroteRefusal(x, f)
    PROVE  f.type # "OpenCall"
<1>1. CASE f = CloseFrame
  BY <1>1, FrameFields
<1>2. CASE \E n, k, s : f = StreamEnd(n, k, s)
  <2>1. PICK n, k, s : f = StreamEnd(n, k, s)
    BY <1>2
  <2>2. StreamEnd(n, k, s).type = "StreamEnd"
    BY DEF StreamEnd
  <2> QED
    BY <2>1, <2>2
<1>3. CASE \E n, k : f = CallResult(n, k)
  <2>1. PICK n, k : f = CallResult(n, k)
    BY <1>3
  <2>2. CallResult(n, k).type = "CallResult"
    BY DEF CallResult
  <2> QED
    BY <2>1, <2>2
<1> QED
  BY <1>1, <1>2, <1>3 DEF WroteCancel, WroteResult, WroteRefusal

\* Only the goroutine of a call writes the frame that opens it.
LEMMA OpenWritten ==
    ASSUME TypeOK, [Next]_vars, NEW k \in Calls, HasOpen(wire'[Caller(k)], k)
    PROVE  HasOpen(wire[Caller(k)], k) \/ pc[k] = "registered"
<1>1. PICK i \in DOMAIN wire'[Caller(k)] : Opens(wire'[Caller(k)][i], k)
  BY DEF HasOpen
<1> DEFINE f == wire'[Caller(k)][i]
<1>2. Sent(Caller(k), f) \/ Wrote(Caller(k), f)
  BY <1>1, EndpointFacts, NextWrites
<1>3. f.type = "OpenCall" /\ k \in f.call
  BY <1>1 DEF Opens
<1> HIDE DEF f
<1>4. CASE Sent(Caller(k), f)
  <2>1. PICK j \in DOMAIN wire[Caller(k)] : f = wire[Caller(k)][j]
    BY <1>4 DEF Sent
  <2>2. Opens(wire[Caller(k)][j], k)
    BY <1>3, <2>1 DEF Opens
  <2> QED
    BY <2>2 DEF HasOpen
<1>5. CASE WroteOpen(Caller(k), f)
  <2>1. PICK j \in Calls : f = OpenCall(streamID[j], j) /\ pc[j] = "registered"
    BY <1>5 DEF WroteOpen
  <2>2. f.call = {j}
    BY <2>1 DEF OpenCall
  <2> QED
    BY <1>3, <2>1, <2>2
<1>6. ~(f = CloseFrame \/ WroteCancel(Caller(k), f) \/ WroteResult(Caller(k), f) \/ WroteRefusal(Caller(k), f))
  BY <1>3, OtherFrames
<1> QED
  BY <1>2, <1>4, <1>5, <1>6 DEF Wrote

\* A handler that is past its work stays so, and a call that was turned away
\* is never served.
LEMMA ToldStays ==
    ASSUME TypeOK, ServedInv, [Next]_vars, NEW k \in Calls
    PROVE  (Finished(k) => Finished(k)') /\ (Refused(k) => Refused(k)')
<1>1. ServeMoves(k) /\ (k \in admitted'[Callee(k)] => k \in admitted[Callee(k)] \/ HasOpen(wire[Caller(k)], k))
  BY NextServes
<1>2. Finished(k) => Finished(k)'
  BY <1>1 DEF ServeMoves, Finished
<1>3. ASSUME Refused(k) PROVE Refused(k)'
  <2>1. serving'[k] = "none" /\ k \notin admitted'[Callee(k)]
    BY <1>1, <1>3 DEF ServeMoves, Refused
  <2>2. pc'[k] \notin {"idle", "usable", "registered"}
    BY <1>3, NextMoves DEF Still, Moves, Refused
  <2>3. ~HasOpen(wire'[Caller(k)], k)
    BY <1>3, OpenWritten DEF Refused
  <2> QED
    BY <2>1, <2>2, <2>3 DEF Refused
<1> QED
  BY <1>2, <1>3

\* A number once given stays, and every later one is larger.
LEMMA NextNumbers ==
    ASSUME TypeOK, AnsweredInv, [Next]_vars
    PROVE  /\ \A k \in Calls : streamID'[k] = streamID[k] \/ (streamID[k] = 0 /\ streamID'[k] = nextStreamID[Caller(k)]
                                                             /\ nextStreamID'[Caller(k)] = nextStreamID[Caller(k)] + 2)
           /\ \A j, k \in Calls : j # k => streamID'[j] = streamID[j] \/ streamID'[k] = streamID[k]
           /\ \A e \in Endpoints : nextStreamID'[e] \in Nat /\ nextStreamID[e] \in Nat /\ nextStreamID'[e] >= nextStreamID[e]
<1>1. ASSUME NEW k \in Calls
      PROVE  streamID'[k] = streamID[k] \/ (streamID[k] = 0 /\ streamID'[k] = nextStreamID[Caller(k)]
                                            /\ nextStreamID'[Caller(k)] = nextStreamID[Caller(k)] + 2)
  <2>1. pc[k] = "usable" => streamID[k] = 0
    BY DEF AnsweredInv, NumberInv
  <2> QED
    BY <2>1, NextMoves DEF Still, Moves
<1>2. ASSUME NEW j \in Calls, NEW k \in Calls, j # k PROVE streamID'[j] = streamID[j] \/ streamID'[k] = streamID[k]
  <2>1. CASE \E i \in Calls : Calling(i)
    BY <1>2, <2>1, CallingMoves DEF Still
  <2> QED
    BY <2>1, OthersLeave
<1>3. ASSUME NEW e \in Endpoints
      PROVE nextStreamID'[e] \in Nat /\ nextStreamID[e] \in Nat /\ nextStreamID'[e] >= nextStreamID[e]
  <2>1. nextStreamID \in [Endpoints -> Nat]
    BY DEF TypeOK, MapTypeOK
  <2>2. CASE UNCHANGED nextStreamID
    BY <2>1, <2>2, SMTT(200)
  <2>3. CASE \E k \in Calls : nextStreamID' = [nextStreamID EXCEPT ![Caller(k)] = @ + 2]
    <3>1. nextStreamID'[e] = nextStreamID[e] \/ nextStreamID'[e] = nextStreamID[e] + 2
      BY <2>1, <2>3
    <3> QED
      BY <2>1, <3>1, SMTT(200)
  <2> QED
    BY <2>2, <2>3, OthersLeave, CallingMoves
<1> QED
  BY <1>1, <1>2, <1>3

\* The numbers of an endpoint's calls stay different.
LEMMA NumberKept ==
    ASSUME TypeOK, ServedInv, AnsweredInv, [Next]_vars, NEW k \in Calls
    PROVE  NumberInv(k)'
<1> DEFINE c == Caller(k)
<1>1. /\ c \in Endpoints /\ NumberInv(k)
      /\ streamID \in [Calls -> Nat] /\ \A j \in Calls : NumberInv(j)
  BY EndpointFacts DEF TypeOK, CallTypeOK, AnsweredInv
<1>2. /\ streamID'[k] = streamID[k] \/ (streamID[k] = 0 /\ streamID'[k] = nextStreamID[c]
                                        /\ nextStreamID'[c] = nextStreamID[c] + 2)
      /\ nextStreamID'[c] \in Nat /\ nextStreamID[c] \in Nat /\ nextStreamID'[c] >= nextStreamID[c]
  BY <1>1, NextNumbers
<1>3. /\ streamID[k] \in Nat /\ streamID[k] < nextStreamID[c]
  BY <1>1 DEF NumberInv
<1>4. streamID'[k] < nextStreamID'[c] /\ (streamID[k] # 0 => streamID'[k] = streamID[k])
  BY <1>2, <1>3, SMTT(200)
<1>5. pc'[k] \in {"idle", "usable"} => streamID'[k] = 0
  <2>1. pc[k] \in {"idle", "usable"} => streamID[k] = 0
    BY <1>1 DEF NumberInv
  <2>2. CASE Still(k)
    BY <2>1, <2>2 DEF Still
  <2>3. CASE Moves(k)
    <3>1. pc'[k] = "idle" => FALSE
      BY <2>3 DEF Moves
    <3>2. pc'[k] = "usable" => pc[k] = "idle" /\ streamID'[k] = streamID[k]
      BY <2>3 DEF Moves
    <3> QED
      BY <2>1, <3>1, <3>2
  <2> QED
    BY <2>2, <2>3, NextMoves
<1>6. pc'[k] \in {"registered", "waiting", "cancelling", "returning"} => streamID'[k] # 0
  <2>1. nextStreamID[c] # 0
    BY <1>2, <1>3, SMTT(200)
  <2> QED
    BY <1>1, <2>1, NextMoves DEF Still, Moves, NumberInv
<1>7. HasOpen(wire'[c], k) \/ k \in admitted'[Callee(k)] \/ serving'[k] # "none" => streamID'[k] # 0
  <2>1. HasOpen(wire'[c], k) => streamID[k] # 0
    BY <1>1, OpenWritten DEF NumberInv
  <2>2. k \in admitted'[Callee(k)] => streamID[k] # 0
    BY <1>1, NextServes DEF NumberInv
  <2>3. serving'[k] # "none" => streamID[k] # 0
    BY <1>1, NextServes DEF NumberInv, ServeMoves
  <2> QED
    BY <1>4, <2>1, <2>2, <2>3
<1>8. ASSUME NEW j \in Calls, Caller(j) = c, streamID'[j] = streamID'[k], streamID'[k] # 0, j # k PROVE FALSE
  <2>1. /\ streamID[j] \in Nat /\ streamID[j] < nextStreamID[c]
    BY <1>1, <1>8 DEF NumberInv
  <2>2. streamID'[j] = streamID[j] \/ streamID'[j] = nextStreamID[c]
    BY <1>8, NextNumbers
  <2>3. streamID'[j] = streamID[j] \/ streamID'[k] = streamID[k]
    BY <1>8, NextNumbers
  <2>4. streamID[j] = streamID[k] => streamID[k] = 0
    BY <1>1, <1>8 DEF NumberInv
  <2> QED
    BY <1>2, <1>3, <1>8, <2>1, <2>2, <2>3, <2>4, SMTT(200)
<1> QED
  BY <1>4, <1>5, <1>6, <1>7, <1>8 DEF NumberInv

\* An answer on the wire is about one call, and a result is of the endpoint's own handler.
LEMMA LabelKept ==
    ASSUME TypeOK, ServedInv, AnsweredInv, [Next]_vars, NEW e \in Endpoints
    PROVE  LabelInv(e)'
<1> SUFFICES ASSUME NEW i \in DOMAIN wire'[e], wire'[e][i].type \in {"CallResult", "StreamEnd"}
             PROVE  \E k \in Calls : wire'[e][i].call = {k} /\ (wire'[e][i].type = "CallResult" => Callee(k) = e)
  BY DEF LabelInv
<1> DEFINE f == wire'[e][i]
<1>1. Sent(e, f) \/ Wrote(e, f)
  BY NextWrites
<1>2. f.type \in {"CallResult", "StreamEnd"}
  OBVIOUS
<1> SUFFICES \E k \in Calls : f.call = {k} /\ (f.type = "CallResult" => Callee(k) = e)
  OBVIOUS
<1> HIDE DEF f
<1>3. CASE Sent(e, f)
  BY <1>2, <1>3 DEF Sent, AnsweredInv, LabelInv
<1>4. CASE f = CloseFrame \/ WroteOpen(e, f)
  <2>1. CASE f = CloseFrame
    BY <1>2, <2>1 DEF CloseFrame
  <2>2. CASE \E k \in Calls : f = OpenCall(streamID[k], k)
    <3>1. PICK k \in Calls : f = OpenCall(streamID[k], k)
      BY <2>2
    <3>2. OpenCall(streamID[k], k).type = "OpenCall"
      BY DEF OpenCall
    <3> QED
      BY <1>2, <3>1, <3>2
  <2> QED
    BY <1>4, <2>1, <2>2 DEF WroteOpen
<1>5. ASSUME NEW n, NEW k \in Calls, NEW s, f = StreamEnd(n, k, s) PROVE f.call = {k} /\ f.type = "StreamEnd"
  <2>1. StreamEnd(n, k, s).call = {k} /\ StreamEnd(n, k, s).type = "StreamEnd"
    BY DEF StreamEnd
  <2> QED
    BY <1>5, <2>1
<1>6. CASE WroteCancel(e, f)
  BY <1>5, <1>6 DEF WroteCancel
<1>7. CASE WroteResult(e, f)
  <2>1. ASSUME NEW k \in Calls, Callee(k) = e, f = CallResult(streamID[k], k) PROVE f.call = {k}
    BY <2>1 DEF CallResult
  <2> QED
    BY <1>5, <1>7, <2>1 DEF WroteResult
<1>8. CASE WroteRefusal(e, f)
  <2>1. Arriving(e).call \in SUBSET Calls
    BY <1>8, ConsumedType, ValueTypes DEF WroteRefusal, TypeOK
  <2> QED
    BY <1>5, <1>8, <2>1 DEF WroteRefusal
<1> QED
  BY <1>1, <1>3, <1>4, <1>6, <1>7, <1>8 DEF Wrote

\* An answer on the wire is true of the call it is for.
LEMMA ReplyKept ==
    ASSUME TypeOK, ServedInv, AnsweredInv, [Next]_vars, NEW k \in Calls, NEW i \in DOMAIN wire'[Callee(k)],
           Replies(wire'[Callee(k)][i], k)
    PROVE  TrueReply(wire[Callee(k)][i], k)'
<1> DEFINE e == Callee(k)
           f == wire'[e][i]
<1>1. /\ e \in Endpoints /\ NumberInv(k) /\ e # Caller(k)
      /\ f.type \in {"CallResult", "StreamEnd"} /\ k \in f.call
  BY EndpointFacts DEF AnsweredInv, Replies, Callee
<1>2. Sent(e, f) \/ Wrote(e, f)
  BY <1>1, NextWrites
<1>3. streamID[k] # 0 => streamID'[k] = streamID[k]
  BY NextNumbers
<1> HIDE DEF f
<1>4. SUFFICES /\ f.call = {k} /\ f.id = streamID'[k] /\ streamID'[k] # 0
               /\ f.type = "CallResult" => Finished(k)'
               /\ f.type = "StreamEnd" => /\ f.status # "ok"
                                          /\ f.status \in {"refused", "overloaded"} => Refused(k)'
  BY DEF f, TrueReply, Told
<1>5. CASE Sent(e, f)
  <2>1. TrueReply(f, k)
    BY <1>1, <1>5 DEF Sent, AnsweredInv, AnswerInv, Replies
  <2> QED
    <3>1. f.call = {k} /\ f.id = streamID[k] /\ streamID[k] # 0
      BY <2>1 DEF TrueReply
    <3>2. f.type = "CallResult" => Finished(k)
      BY <2>1 DEF TrueReply
    <3>3. f.type = "StreamEnd" => f.status # "ok" /\ (f.status \in {"refused", "overloaded"} => Refused(k))
      BY <2>1 DEF TrueReply, Told
    <3>4. (Finished(k) => Finished(k)') /\ (Refused(k) => Refused(k)')
      BY ToldStays
    <3> QED
      BY <1>3, <3>1, <3>2, <3>3, <3>4
<1>6. CASE f = CloseFrame \/ WroteOpen(e, f)
  <2>1. CloseFrame.type = "Close"
    BY DEF CloseFrame
  <2>2. PICK j \in Calls : f = OpenCall(streamID[j], j)
    BY <1>1, <1>6, <2>1 DEF WroteOpen
  <2>3. OpenCall(streamID[j], j).type = "OpenCall"
    BY DEF OpenCall
  <2> QED
    BY <1>1, <2>2, <2>3
<1>7. CASE WroteCancel(e, f)
  <2>1. PICK j \in Calls : Caller(j) = e /\ f = StreamEnd(streamID[j], j, "canceled")
    BY <1>7 DEF WroteCancel
  <2>2. StreamEnd(streamID[j], j, "canceled").call = {j}
    BY DEF StreamEnd
  <2> QED
    BY <1>1, <2>1, <2>2
<1>8. CASE WroteResult(e, f)
  <2>1. PICK j \in Calls : /\ serving[j] = "running" /\ serving'[j] = "releasing"
                           /\ \/ f = CallResult(streamID[j], j)
                              \/ \E s \in {"failed", "canceled", "tooLarge"} : f = StreamEnd(streamID[j], j, s)
    BY <1>8 DEF WroteResult
  <2>2. /\ f.call = {j} /\ f.id = streamID[j]
        /\ f.type = "StreamEnd" => f.status \in {"failed", "canceled", "tooLarge"}
    <3>1. CASE f = CallResult(streamID[j], j)
      BY <3>1 DEF CallResult
    <3>2. ASSUME NEW s \in {"failed", "canceled", "tooLarge"}, f = StreamEnd(streamID[j], j, s)
          PROVE  f.call = {j} /\ f.id = streamID[j] /\ f.status = s
      BY <3>2 DEF StreamEnd
    <3> QED
      BY <2>1, <3>1, <3>2
  <2>3. j = k
    BY <1>1, <2>2
  <2>4. streamID[k] # 0 /\ Finished(k)'
    BY <1>1, <2>1, <2>3 DEF NumberInv, Finished
  <2> QED
    BY <1>3, <2>2, <2>3, <2>4
<1>9. CASE WroteRefusal(e, f)
  <2>1. /\ wire[Other(e)] # <<>> /\ Arriving(e).type = "OpenCall" /\ wire'[Other(e)] = Tail(wire[Other(e)])
        /\ UNCHANGED <<serving, admitted, pc, streamID>>
    BY <1>9 DEF WroteRefusal
  <2>2. PICK j \in Arriving(e).call, s \in {"overloaded", "refused", "canceled"} : f = StreamEnd(Arriving(e).id, j, s)
    BY <1>9 DEF WroteRefusal
  <2>3. PICK m \in Calls :
              /\ Arriving(e).call = {m} /\ Caller(m) = Other(e) /\ Callee(m) = e
              /\ serving[m] = "none" /\ m \notin admitted[e]
              /\ pc[m] \notin {"idle", "usable", "registered"}
              /\ ~HasOpen(Tail(wire[Other(e)]), m)
    BY <1>1, <2>1, OpenArrives DEF TypeOK
  <2>4. f.call = {j} /\ f.id = Arriving(e).id /\ f.status = s /\ f.type = "StreamEnd"
    BY <2>2 DEF StreamEnd
  <2>5. m = k
    BY <1>1, <2>2, <2>3, <2>4
  <2>6. Refused(k)'
    BY <2>1, <2>3, <2>5 DEF Refused
  <2>7. Arriving(e).id = streamID[k] /\ HasOpen(wire[Caller(k)], k)
    <3>1. /\ wire[Other(e)] \in Seq(Frames) /\ Arriving(e) = Head(wire[Other(e)])
          /\ Route(wire[Other(e)], k, streamID[k])
      BY <1>1, <2>3, <2>5, EndpointFacts DEF TypeOK, ConnTypeOK, Arriving, ServedInv, ServeInv
    <3>2. 1 \in DOMAIN wire[Other(e)] /\ Arriving(e) = wire[Other(e)][1]
      BY <2>1, <3>1, TailAt
    <3>3. Opens(wire[Other(e)][1], k)
      BY <2>1, <2>3, <2>5, <3>2 DEF Opens
    <3>4. HasOpen(wire[Other(e)], k)
      BY <3>2, <3>3 DEF HasOpen
    <3>5. wire[Other(e)][1].id = streamID[k]
      BY <3>1, <3>2, <3>3 DEF Route
    <3> QED
      BY <2>3, <2>5, <3>2, <3>4, <3>5
  <2>8. streamID[k] # 0
    BY <1>1, <2>7 DEF NumberInv
  <2>9. f.call = {k}
    BY <1>1, <2>4
  <2>10. f.status # "ok" /\ f.type # "CallResult"
    BY <2>2, <2>4
  <2> QED
    BY <1>3, <2>4, <2>6, <2>7, <2>8, <2>9, <2>10
<1> QED
  BY <1>2, <1>5, <1>6, <1>7, <1>8, <1>9 DEF Wrote

\* What reaches the channel of a call: nothing, its own answer, or the end of the session.
Heard(k) ==
    LET e == Caller(k)
        f == Arriving(e) IN
    /\ k \in calls[e] /\ wire[Other(e)] # <<>> /\ f.id = streamID[k]
    /\ \/ f.type = "CallResult" /\ outcome'[k] = Append(outcome[k], [err |-> "ok", payload |-> f.call])
       \/ f.type = "StreamEnd" /\ outcome'[k] = Append(outcome[k], Failure(f.status))
Ended(k) ==
    \E t \in Threads : /\ ~Ready(t) /\ Home(t) = Caller(k) /\ k \in calls[Caller(k)]
                       /\ outcome'[k] = Append(outcome[k], Failure(EndFailure(t)))
Emptied(k) == outcome[k] # <<>> /\ outcome'[k] = Tail(outcome[k])

\* What a caller is told changes when it reads it, hears of it, or the session ends.
LEMMA NextOutcome ==
    ASSUME TypeOK, CallerInv, [Next]_vars, NEW k \in Calls
    PROVE  outcome'[k] = outcome[k] \/ Emptied(k) \/ Heard(k) \/ Ended(k)
<1> USE DEF connVars, callVars, mapVars, sessVars, loopVars, serveVars
<1>1. outcome \in [Calls -> Seq(Outcomes)] /\ \A e \in Endpoints : k \in calls[e] => Caller(k) = e
  BY DEF TypeOK, CallTypeOK, CallerInv, CallsHome
<1>2. ASSUME NEW j \in Calls, CallCheck(j) \/ CallRegister(j) \/ CallWrite(j) \/ CallAbandon(j)
      PROVE  outcome' = outcome
  BY <1>2 DEF CallCheck, CallRegister, CallWrite, CallAbandon
<1>3. ASSUME NEW j \in Calls, CallNotifyCancelled(j) \/ CallReturn(j) \/ HandlerReturn(j) \/ HandlerRelease(j)
      PROVE  outcome' = outcome
  BY <1>3 DEF CallNotifyCancelled, CallReturn, HandlerReturn, HandlerRelease
<1>4. ASSUME NEW j \in Calls, CallSettled(j) PROVE outcome'[k] = outcome[k] \/ Emptied(k)
  <2>1. outcome[j] # <<>> /\ outcome' = [outcome EXCEPT ![j] = Tail(@)]
    BY <1>4 DEF CallSettled
  <2> QED
    BY <1>1, <2>1 DEF Emptied
<1>5. ASSUME NEW e \in Endpoints, ReadOpenCall(e) \/ TrackCall(e) \/ Close(e) PROVE outcome' = outcome
  BY <1>5 DEF ReadOpenCall, TrackCall, Close
<1>6. ASSUME NEW e \in Endpoints, ReadClose(e) \/ ReadEOF(e) \/ ReadError(e) PROVE outcome' = outcome
  BY <1>6 DEF ReadClose, ReadEOF, ReadError, StopReading
<1>7. ASSUME NEW e \in Endpoints, ReadCallResult(e) PROVE outcome'[k] = outcome[k] \/ Heard(k)
  <2>1. /\ wire[Other(e)] # <<>> /\ Arriving(e).type = "CallResult"
        /\ outcome'[k] = IF k \in PendingWith(e, Arriving(e).id)
                         THEN Append(outcome[k], [err |-> "ok", payload |-> Arriving(e).call]) ELSE outcome[k]
    BY <1>7 DEF ReadCallResult, ArrivesAt
  <2>2. k \in PendingWith(e, Arriving(e).id) => k \in calls[e] /\ streamID[k] = Arriving(e).id /\ Caller(k) = e
    BY <1>1 DEF PendingWith
  <2> QED
    BY <2>1, <2>2 DEF Heard
<1>8. ASSUME NEW e \in Endpoints, ReadStreamEnd(e) PROVE outcome'[k] = outcome[k] \/ Heard(k)
  <2>1. /\ wire[Other(e)] # <<>> /\ Arriving(e).type = "StreamEnd"
        /\ outcome'[k] = IF k \in PendingWith(e, Arriving(e).id)
                         THEN Append(outcome[k], Failure(Arriving(e).status)) ELSE outcome[k]
    BY <1>8 DEF ReadStreamEnd, ArrivesAt
  <2>2. k \in PendingWith(e, Arriving(e).id) => k \in calls[e] /\ streamID[k] = Arriving(e).id /\ Caller(k) = e
    BY <1>1 DEF PendingWith
  <2> QED
    BY <2>1, <2>2 DEF Heard
<1>9. ASSUME NEW t \in Threads, EndRelease(t) PROVE outcome'[k] = outcome[k] \/ Ended(k)
  <2>1. ~Ready(t) /\ outcome'[k] = IF k \in calls[Home(t)] THEN Append(outcome[k], Failure(EndFailure(t))) ELSE outcome[k]
    BY <1>9 DEF EndRelease, FailPending
  <2> QED
    BY <1>1, <2>1, EndpointFacts DEF Ended
<1>10. ASSUME NEW t \in Threads, EndClose(t) PROVE outcome' = outcome
  BY <1>10 DEF EndClose
<1>11. LoseLink \/ UNCHANGED vars => outcome' = outcome
  BY DEF LoseLink, vars
<1> QED
  BY <1>2, <1>3, <1>4, <1>5, <1>6, <1>7, <1>8, <1>9, <1>10, <1>11 DEF Next, CallStep, ReadStep, EndStep

\* The answer that a call takes by its number is the answer to that call.
LEMMA HeardTrue ==
    ASSUME TypeOK, CallerInv, ServedInv, AnsweredInv, NEW k \in Calls, Heard(k)
    PROVE  TrueReply(Arriving(Caller(k)), k)
<1> DEFINE e == Caller(k)
           x == Other(e)
           f == Arriving(e)
<1>1. /\ e \in Endpoints /\ x \in Endpoints /\ x # e /\ Callee(k) = x /\ wire[x] \in Seq(Frames) /\ wire[x] # <<>>
      /\ k \in calls[e] /\ f.type \in {"CallResult", "StreamEnd"} /\ f.id = streamID[k]
  BY EndpointFacts DEF Heard, Callee, TypeOK, ConnTypeOK
<1>2. 1 \in DOMAIN wire[x] /\ f = wire[x][1]
  BY <1>1, TailAt DEF Arriving
<1> HIDE DEF f
<1>3. PICK j \in Calls : f.call = {j} /\ (f.type = "CallResult" => Callee(j) = x)
  BY <1>1, <1>2 DEF AnsweredInv, LabelInv
<1>4. CASE Callee(j) = x
  <2>1. Replies(f, j)
    BY <1>1, <1>3 DEF Replies
  <2>2. TrueReply(f, j)
    BY <1>2, <1>4, <2>1 DEF AnsweredInv, AnswerInv
  <2>3. streamID[j] = streamID[k] /\ streamID[k] # 0
    BY <1>1, <2>2 DEF TrueReply
  <2>4. Caller(j) = Caller(k)
    BY <1>1, <1>4, EndpointFacts DEF Callee, Other, Endpoints
  <2>5. j = k
    BY <2>3, <2>4 DEF AnsweredInv, NumberInv
  <2> QED
    BY <2>2, <2>5 DEF f
<1>5. CASE Callee(j) # x
  <2>1. Caller(j) = x
    BY <1>1, <1>5, EndpointFacts DEF Callee, Other, Endpoints
  <2>2. Cancels(f, j)
    BY <1>1, <1>3, <1>5 DEF Cancels
  <2>3. ServeInv(j) /\ ServeInv(k)
    BY DEF ServedInv
  <2>4. f.id = streamID[j]
    BY <1>2, <2>1, <2>2, <2>3 DEF ServeInv, Route
  <2>5. HasCancel(wire[x], j)
    BY <1>2, <2>2 DEF HasCancel
  <2>6. Numbered(j) /\ Numbered(k)
    BY <1>1, <2>1, <2>3, <2>5 DEF ServeInv
  <2>7. parity(e) % 2 = parity(x) % 2
    BY <1>1, <2>1, <2>4, <2>6 DEF Numbered
  <2> QED
    BY <1>1, <2>7, Parities
<1> QED
  BY <1>4, <1>5

\* What a call finds in its channel is true of its handler.
LEMMA OutcomeKept ==
    ASSUME TypeOK, CallerInv, ServedInv, AnsweredInv, [Next]_vars, NEW k \in Calls, outcome'[k] # <<>>
    PROVE  Told(k, Head(outcome[k]).err, Head(outcome[k]).payload)'
<1> DEFINE h == Head(outcome'[k])
<1>1. CallInv(k) /\ outcome[k] \in Seq(Outcomes) /\ AnswerInv(k)
  BY DEF CallerInv, TypeOK, CallTypeOK, AnsweredInv
<1>2. k \in calls[Caller(k)] => outcome[k] = <<>>
  BY <1>1 DEF CallInv
<1>3. ASSUME NEW o PROVE Head(Append(<<>>, o)) = o
  BY SMTT(200)
<1>4. (Finished(k) => Finished(k)') /\ (Refused(k) => Refused(k)')
  BY ToldStays
<1>5. SUFFICES (h.err = "ok" => h.payload = {k} /\ Finished(k)') /\ (h.err \in {"refused", "overloaded"} => Refused(k)')
  BY DEF Told
<1> HIDE DEF h
<1>6. CASE outcome'[k] = outcome[k]
  <2>1. Told(k, h.err, h.payload)
    BY <1>1, <1>6 DEF AnswerInv, h
  <2> QED
    BY <1>4, <2>1 DEF Told
<1>7. CASE Emptied(k)
  <2>1. Len(outcome[k]) <= 1 => Tail(outcome[k]) = <<>>
    BY <1>1, <1>7, SMTT(200) DEF Emptied
  <2> QED
    BY <1>1, <1>7, <2>1 DEF Emptied, CallInv
<1>8. CASE Heard(k)
  <2> DEFINE f == Arriving(Caller(k))
  <2>1. TrueReply(f, k)
    BY <1>8, HeardTrue
  <2>2. \/ f.type = "CallResult" /\ h = [err |-> "ok", payload |-> f.call]
        \/ f.type = "StreamEnd" /\ h = Failure(f.status)
    BY <1>2, <1>3, <1>8 DEF Heard, h
  <2> HIDE DEF f
  <2>3. CASE f.type = "CallResult" /\ h = [err |-> "ok", payload |-> f.call]
    <3>1. h.err = "ok" /\ h.payload = f.call
      BY <2>3
    <3> QED
      BY <1>4, <2>1, <2>3, <3>1 DEF TrueReply
  <2>4. CASE f.type = "StreamEnd" /\ h = Failure(f.status)
    <3>1. h.err = f.status
      BY <2>4 DEF Failure
    <3>2. f.status # "ok" /\ (f.status \in {"refused", "overloaded"} => Refused(k))
      BY <2>1, <2>4 DEF TrueReply, Told
    <3> QED
      BY <1>4, <3>1, <3>2
  <2> QED
    BY <2>2, <2>3, <2>4
<1>9. CASE Ended(k)
  <2>1. PICK t \in Threads : h = Failure(EndFailure(t))
    BY <1>2, <1>3, <1>9 DEF Ended, h
  <2>2. EndFailure(t) \in {"closed", "broken", "tooLarge"}
    BY EndpointFacts DEF EndFailure, terminalOf, AnsweredInv, TerminalInv
  <2>3. h.err = EndFailure(t)
    BY <2>1 DEF Failure
  <2> QED
    BY <2>2, <2>3
<1> QED
  BY <1>6, <1>7, <1>8, <1>9, NextOutcome

\* What the end of a session records, stays.
LEMMA TerminalKept ==
    ASSUME TypeOK, AnsweredInv, [Next]_vars, NEW e \in Endpoints
    PROVE  TerminalInv(e)'
<1> USE DEF connVars, callVars, mapVars, sessVars, loopVars, serveVars
<1>1. ended \in [Endpoints -> BOOLEAN] /\ terminal \in [Endpoints -> Errors] /\ TerminalInv(e)
  BY DEF TypeOK, MapTypeOK, AnsweredInv
<1>2. UNCHANGED <<ended, terminal>> => TerminalInv(e)'
  BY <1>1 DEF TerminalInv
<1>3. ASSUME NEW k \in Calls, Calling(k) PROVE UNCHANGED <<ended, terminal>>
  BY <1>3, CallingLeaves
<1>4. ASSUME NEW k \in Calls, HandlerReturn(k) \/ HandlerRelease(k) PROVE UNCHANGED <<ended, terminal>>
  BY <1>4 DEF HandlerReturn, HandlerRelease
<1>5. ASSUME NEW x \in Endpoints, ReadOpenCall(x) \/ TrackCall(x) \/ ReadCallResult(x) PROVE UNCHANGED <<ended, terminal>>
  BY <1>5 DEF ReadOpenCall, TrackCall, ReadCallResult
<1>6. ASSUME NEW x \in Endpoints, ReadStreamEnd(x) \/ ReadClose(x) \/ ReadEOF(x) \/ ReadError(x) \/ Close(x)
      PROVE  UNCHANGED <<ended, terminal>>
  BY <1>6 DEF ReadStreamEnd, ReadClose, ReadEOF, ReadError, StopReading, Close
<1>7. ASSUME NEW t \in Threads, EndClose(t) PROVE UNCHANGED <<ended, terminal>>
  BY <1>7 DEF EndClose
<1>8. ASSUME NEW t \in Threads, EndRelease(t) PROVE TerminalInv(e)'
  <2>1. ended' = [ended EXCEPT ![Home(t)] = TRUE] /\ terminal' = [terminal EXCEPT ![Home(t)] = EndFailure(t)]
    BY <1>8 DEF EndRelease
  <2>2. EndFailure(t) \in {"closed", "broken", "tooLarge"}
    BY EndpointFacts DEF EndFailure, terminalOf, AnsweredInv, TerminalInv
  <2> QED
    BY <1>1, <2>1, <2>2 DEF TerminalInv
<1>9. LoseLink \/ UNCHANGED vars => UNCHANGED <<ended, terminal>>
  BY DEF LoseLink, vars
<1> QED
  BY <1>2, <1>3, <1>4, <1>5, <1>6, <1>7, <1>8, <1>9 DEF Next, CallStep, ReadStep, EndStep, Calling

\* What a call is told, on the wire, in its channel and when it returns.
LEMMA AnswerKept ==
    ASSUME TypeOK, CallerInv, ServedInv, AnsweredInv, [Next]_vars, NEW k \in Calls
    PROVE  AnswerInv(k)'
<1>1. AnswerInv(k) /\ NumberInv(k) /\ (Still(k) \/ Moves(k)) /\ ret[k] \in Outcomes
  BY NextMoves DEF AnsweredInv, TypeOK, CallTypeOK
<1>2. (Finished(k) => Finished(k)') /\ (Refused(k) => Refused(k)')
  BY ToldStays
<1>3. \A i \in DOMAIN wire'[Callee(k)] : Replies(wire'[Callee(k)][i], k) => TrueReply(wire[Callee(k)][i], k)'
  BY ReplyKept
<1>4. outcome'[k] # <<>> => Told(k, Head(outcome[k]).err, Head(outcome[k]).payload)'
  BY OutcomeKept
<1>5. ASSUME pc'[k] = "returning" PROVE ret'[k].err \in {"broken", "tooLarge", "canceled"}
  <2>1. CASE Still(k)
    BY <1>1, <1>5, <2>1 DEF Still, AnswerInv
  <2>2. CASE Moves(k)
    <3>1. ret'[k] \in {Failure("broken"), Failure("tooLarge"), Failure("canceled")}
      BY <1>5, <2>2 DEF Moves
    <3>2. ASSUME NEW err PROVE Failure(err).err = err
      BY DEF Failure
    <3> QED
      BY <3>1, <3>2
  <2> QED
    BY <1>1, <2>1, <2>2
<1>6. ASSUME pc'[k] = "returned", streamID'[k] # 0 PROVE Told(k, ret[k].err, ret[k].payload)'
  <2> DEFINE r == ret'[k]
  <2>1. SUFFICES (r.err = "ok" => r.payload = {k} /\ Finished(k)') /\ (r.err \in {"refused", "overloaded"} => Refused(k)')
    BY DEF Told
  <2> HIDE DEF r
  <2>2. CASE Told(k, r.err, r.payload)
    BY <1>2, <2>2 DEF Told
  <2>3. CASE Still(k)
    BY <1>1, <1>6, <2>2, <2>3 DEF Still, AnswerInv, r
  <2>4. CASE Moves(k)
    <3>1. pc[k] = "idle" => streamID'[k] = 0
      <4>1. pc[k] = "idle" => streamID[k] = 0
        BY <1>1 DEF NumberInv
      <4> QED
        BY <1>6, <2>4, <4>1 DEF Moves
    <3>2. \/ pc[k] = "waiting" /\ outcome[k] # <<>> /\ r = Head(outcome[k])
          \/ pc[k] = "returning" /\ r = ret[k]
      BY <1>6, <2>4, <3>1 DEF Moves, r
    <3>3. CASE outcome[k] # <<>> /\ r = Head(outcome[k])
      BY <1>1, <2>2, <3>3 DEF AnswerInv
    <3>4. CASE pc[k] = "returning" /\ r = ret[k]
      BY <1>1, <3>4 DEF AnswerInv
    <3> QED
      BY <3>2, <3>3, <3>4
  <2> QED
    BY <1>1, <2>3, <2>4
<1> QED
  BY <1>3, <1>4, <1>5, <1>6 DEF AnswerInv

\* Every step keeps what a call is told true.
LEMMA NextAnsweredInv == TypeOK /\ CallerInv /\ ServedInv /\ AnsweredInv /\ [Next]_vars => AnsweredInv'
<1> SUFFICES ASSUME TypeOK, CallerInv, ServedInv, AnsweredInv, [Next]_vars PROVE AnsweredInv'
  OBVIOUS
<1>1. ASSUME NEW e \in Endpoints PROVE TerminalInv(e)' /\ LabelInv(e)'
  BY TerminalKept, LabelKept
<1>2. ASSUME NEW k \in Calls PROVE NumberInv(k)' /\ AnswerInv(k)'
  BY NumberKept, AnswerKept
<1> QED
  BY <1>1, <1>2 DEF AnsweredInv

\* The inductive invariant of what the calls are told.
THEOREM AnsweredInvariant == Spec => [](TypeOK /\ CallerInv /\ ServedInv /\ AnsweredInv)
<1>1. Init => TypeOK /\ CallerInv /\ ServedInv /\ AnsweredInv
  BY InitTypeOK, InitCallerInv, InitServedInv, InitAnsweredInv
<1>2. TypeOK /\ CallerInv /\ ServedInv /\ AnsweredInv /\ [Next]_vars
      => (TypeOK /\ CallerInv /\ ServedInv /\ AnsweredInv)'
  BY NextTypeOK, NextCallerInv, NextServedInv, NextAnsweredInv
<1> QED
  BY <1>1, <1>2, PTL DEF Spec

-----------------------------------------------------------------------------
(* The session engine implements CallContract.                               *)

\* Where the contract sees a call, before and after a step.
LEMMA CallerValues ==
    ASSUME NEW k
    PROVE  /\ pc[k] = "idle" => ContractCaller(k) = "idle"
           /\ pc[k] = "returned" => ContractCaller(k) = IF streamID[k] = 0 THEN "turnedAway" ELSE "returned"
           /\ pc[k] \notin {"idle", "returned"} => ContractCaller(k) = "pending"
  BY SMTT(200) DEF ContractCaller

\* The same after a step.
LEMMA CallerValuesNext ==
    ASSUME NEW k
    PROVE  /\ pc'[k] = "idle" => ContractCaller(k)' = "idle"
           /\ pc'[k] = "returned" => ContractCaller(k)' = IF streamID'[k] = 0 THEN "turnedAway" ELSE "returned"
           /\ pc'[k] \notin {"idle", "returned"} => ContractCaller(k)' = "pending"
  BY SMTT(200) DEF ContractCaller

\* Where the contract sees its handler.
LEMMA ExecValues ==
    ASSUME NEW k
    PROVE  /\ serving[k] = "none" => ContractExec(k) = "none"
           /\ serving[k] = "running" => ContractExec(k) = "running"
           /\ serving[k] \in {"releasing", "done"} => ContractExec(k) = "finished"
  BY SMTT(200) DEF ContractExec

\* The same after a step.
LEMMA ExecValuesNext ==
    ASSUME NEW k
    PROVE  /\ serving'[k] = "none" => ContractExec(k)' = "none"
           /\ serving'[k] = "running" => ContractExec(k)' = "running"
           /\ serving'[k] \in {"releasing", "done"} => ContractExec(k)' = "finished"
  BY SMTT(200) DEF ContractExec

\* The kinds of answers.
LEMMA Kinds ==
    ASSUME NEW err
    PROVE  /\ ContractKind(err) \in {"result", "refused", "failed"}
           /\ ContractKind(err) = "result" => err = "ok"
           /\ ContractKind(err) = "refused" => err \in {"refused", "overloaded"}
           /\ err \in {"closed", "broken", "tooLarge"} => ContractKind(err) = "failed"
  BY SMTT(200) DEF ContractKind

\* A call that stands still looks the same to the contract.
LEMMA StillMaps ==
    ASSUME NEW k
    PROVE  /\ Still(k) => ContractCaller(k)' = ContractCaller(k) /\ ContractAnswer(k)' = ContractAnswer(k)
           /\ serving'[k] = serving[k] => ContractExec(k)' = ContractExec(k)
<1>1. ASSUME Still(k) PROVE ContractCaller(k)' = ContractCaller(k)
  BY <1>1 DEF Still, ContractCaller
<1>2. ASSUME Still(k) PROVE ContractAnswer(k)' = ContractAnswer(k)
  BY <1>2 DEF Still, ContractAnswer
<1>3. ASSUME serving'[k] = serving[k] PROVE ContractExec(k)' = ContractExec(k)
  BY <1>3 DEF ContractExec
<1> QED
  BY <1>1, <1>2, <1>3

\* A function that changes at one point.
LEMMA OneChanged ==
    ASSUME NEW S, NEW f, NEW g, f = [j \in S |-> f[j]], g = [j \in S |-> g[j]], NEW k \in S, NEW v, g[k] = v,
           \A j \in S : j # k => g[j] = f[j]
    PROVE  g = [f EXCEPT ![k] = v]
  BY SMTT(200)

\* The functions of the mapping at one call.
LEMMA MapCaller ==
    ASSUME NEW k \in Calls, NEW v, ContractCaller(k)' = v,
           \A j \in Calls : j # k => ContractCaller(j)' = ContractCaller(j)
    PROVE  [j \in Calls |-> ContractCaller(j)]' = [[j \in Calls |-> ContractCaller(j)] EXCEPT ![k] = v]
<1> DEFINE f == [j \in Calls |-> ContractCaller(j)]
           g == [j \in Calls |-> ContractCaller(j)']
<1>1. \A j \in Calls : f[j] = ContractCaller(j) /\ g[j] = ContractCaller(j)'
  OBVIOUS
<1>2. f = [j \in Calls |-> f[j]] /\ g = [j \in Calls |-> g[j]]
  OBVIOUS
<1>3. [j \in Calls |-> ContractCaller(j)]' = g
  OBVIOUS
<1> HIDE DEF f, g
<1>4. g[k] = v /\ \A j \in Calls : j # k => g[j] = f[j]
  BY <1>1
<1>5. g = [f EXCEPT ![k] = v]
  BY <1>2, <1>4, OneChanged
<1> QED
  BY <1>3, <1>5 DEF f

\* One handler moves as the contract sees it.
LEMMA MapExec ==
    ASSUME NEW k \in Calls, NEW v, ContractExec(k)' = v,
           \A j \in Calls : j # k => ContractExec(j)' = ContractExec(j)
    PROVE  [j \in Calls |-> ContractExec(j)]' = [[j \in Calls |-> ContractExec(j)] EXCEPT ![k] = v]
<1> DEFINE f == [j \in Calls |-> ContractExec(j)]
           g == [j \in Calls |-> ContractExec(j)']
<1>1. \A j \in Calls : f[j] = ContractExec(j) /\ g[j] = ContractExec(j)'
  OBVIOUS
<1>2. f = [j \in Calls |-> f[j]] /\ g = [j \in Calls |-> g[j]]
  OBVIOUS
<1>3. [j \in Calls |-> ContractExec(j)]' = g
  OBVIOUS
<1> HIDE DEF f, g
<1>4. g[k] = v /\ \A j \in Calls : j # k => g[j] = f[j]
  BY <1>1
<1>5. g = [f EXCEPT ![k] = v]
  BY <1>2, <1>4, OneChanged
<1> QED
  BY <1>3, <1>5 DEF f

\* One answer is given as the contract sees it.
LEMMA MapAnswer ==
    ASSUME NEW k \in Calls, NEW v, ContractAnswer(k)' = v,
           \A j \in Calls : j # k => ContractAnswer(j)' = ContractAnswer(j)
    PROVE  [j \in Calls |-> ContractAnswer(j)]' = [[j \in Calls |-> ContractAnswer(j)] EXCEPT ![k] = v]
<1> DEFINE f == [j \in Calls |-> ContractAnswer(j)]
           g == [j \in Calls |-> ContractAnswer(j)']
<1>1. \A j \in Calls : f[j] = ContractAnswer(j) /\ g[j] = ContractAnswer(j)'
  OBVIOUS
<1>2. f = [j \in Calls |-> f[j]] /\ g = [j \in Calls |-> g[j]]
  OBVIOUS
<1>3. [j \in Calls |-> ContractAnswer(j)]' = g
  OBVIOUS
<1> HIDE DEF f, g
<1>4. g[k] = v /\ \A j \in Calls : j # k => g[j] = f[j]
  BY <1>1
<1>5. g = [f EXCEPT ![k] = v]
  BY <1>2, <1>4, OneChanged
<1> QED
  BY <1>3, <1>5 DEF f

\* Nothing moves as the contract sees it.
LEMMA MapSame ==
    /\ (\A j \in Calls : ContractCaller(j)' = ContractCaller(j))
       => [j \in Calls |-> ContractCaller(j)]' = [j \in Calls |-> ContractCaller(j)]
    /\ (\A j \in Calls : ContractExec(j)' = ContractExec(j))
       => [j \in Calls |-> ContractExec(j)]' = [j \in Calls |-> ContractExec(j)]
    /\ (\A j \in Calls : ContractAnswer(j)' = ContractAnswer(j))
       => [j \in Calls |-> ContractAnswer(j)]' = [j \in Calls |-> ContractAnswer(j)]
  BY SMTT(200)

\* The contract sees nothing of a step that leaves every call where it was.
SameCaller == \A j \in Calls : ContractCaller(j)' = ContractCaller(j) /\ ContractAnswer(j)' = ContractAnswer(j)
SameExec == \A j \in Calls : ContractExec(j)' = ContractExec(j)

\* A step that the contract does not see.
LEMMA StutterMaps ==
    ASSUME SameCaller, SameExec
    PROVE  UNCHANGED Contract!contractVars
  BY MapSame DEF SameCaller, SameExec, Contract!contractVars

\* A step of a calling goroutine: it issues the call, is turned away, returns,
\* or is somewhere in between.
LEMMA CallingMaps ==
    ASSUME TypeOK, TypeOK', AnsweredInv, AnsweredInv', NEW k \in Calls, Calling(k)
    PROVE  [Contract!ContractNext]_(Contract!contractVars)
<1>1. Moves(k) /\ (\A j \in Calls : j # k => Still(j)) /\ serving' = serving
  BY CallingMoves, CallingLeaves
<1>2. \A j \in Calls : j # k => ContractCaller(j)' = ContractCaller(j) /\ ContractAnswer(j)' = ContractAnswer(j)
  BY <1>1, StillMaps
<1>3. SameExec
  BY <1>1, StillMaps DEF SameExec
<1>4. [j \in Calls |-> ContractExec(j)]' = [j \in Calls |-> ContractExec(j)]
  BY <1>3, MapSame DEF SameExec
<1>5. NumberInv(k) /\ AnswerInv(k)'
  BY DEF AnsweredInv
<1>6. \/ pc[k] = "idle" /\ pc'[k] = "usable"
      \/ pc[k] = "idle" /\ pc'[k] = "returned"
      \/ pc[k] \in {"waiting", "returning"} /\ pc'[k] = "returned" /\ streamID'[k] = streamID[k]
      \/ pc[k] \notin {"idle", "returned"} /\ pc'[k] \notin {"idle", "returned"}
  BY <1>1 DEF Moves
<1>7. CASE pc[k] = "idle" /\ pc'[k] = "usable"
  <2>1. ContractCaller(k) = "idle" /\ ContractCaller(k)' = "pending"
    BY <1>7, CallerValues, CallerValuesNext
  <2>2. ContractAnswer(k)' = ContractAnswer(k)
    BY <1>7 DEF ContractAnswer
  <2>3. [j \in Calls |-> ContractCaller(j)]' = [[j \in Calls |-> ContractCaller(j)] EXCEPT ![k] = "pending"]
    BY <1>2, <2>1, MapCaller
  <2>4. [j \in Calls |-> ContractAnswer(j)]' = [j \in Calls |-> ContractAnswer(j)]
    BY <1>2, <2>2, MapSame
  <2>5. Contract!Issue(k)
    BY <1>4, <2>1, <2>3, <2>4 DEF Contract!Issue
  <2> QED
    BY <2>5 DEF Contract!ContractNext
<1>8. CASE pc[k] = "idle" /\ pc'[k] = "returned"
  <2>1. streamID'[k] = 0
    <3>1. streamID[k] = 0
      BY <1>5, <1>8 DEF NumberInv
    <3> QED
      BY <1>1, <1>8, <3>1 DEF Moves
  <2>2. ContractCaller(k) = "idle" /\ ContractCaller(k)' = "turnedAway"
    BY <1>8, <2>1, CallerValues, CallerValuesNext
  <2>3. PICK err \in {"closed", "broken", "tooLarge"} : ret'[k] = Failure(err)
    <3>1. (ended[Caller(k)] /\ ret'[k] = Failure(terminal[Caller(k)])) \/ ret'[k] = Failure("tooLarge")
      BY <1>1, <1>8 DEF Moves
    <3>2. ended[Caller(k)] => terminal[Caller(k)] \in {"closed", "broken", "tooLarge"}
      BY EndpointFacts DEF AnsweredInv, TerminalInv
    <3> QED
      BY <3>1, <3>2
  <2>4. Failure(err).err = err /\ Failure(err).payload = {} /\ ContractKind(err) = "failed"
    BY Kinds DEF Failure
  <2>5. ContractAnswer(k)' = [kind |-> ContractKind(ret'[k].err), payload |-> ret'[k].payload]
    BY <1>8 DEF ContractAnswer
  <2>6. ContractAnswer(k)' = [kind |-> "failed", payload |-> {}]
    BY <2>3, <2>4, <2>5
  <2>7. [j \in Calls |-> ContractCaller(j)]' = [[j \in Calls |-> ContractCaller(j)] EXCEPT ![k] = "turnedAway"]
    BY <1>2, <2>2, MapCaller
  <2>8. [j \in Calls |-> ContractAnswer(j)]'
        = [[j \in Calls |-> ContractAnswer(j)] EXCEPT ![k] = [kind |-> "failed", payload |-> {}]]
    BY <1>2, <2>6, MapAnswer
  <2>9. Contract!TurnAway(k)
    BY <1>4, <2>2, <2>7, <2>8 DEF Contract!TurnAway
  <2> QED
    BY <2>9 DEF Contract!ContractNext
<1>9. CASE pc[k] \in {"waiting", "returning"} /\ pc'[k] = "returned" /\ streamID'[k] = streamID[k]
  <2> DEFINE r == ret'[k]
             a == [kind |-> ContractKind(r.err), payload |-> r.payload]
  <2>1. streamID'[k] # 0
    BY <1>5, <1>9 DEF NumberInv
  <2>2. ContractCaller(k) = "pending" /\ ContractCaller(k)' = "returned"
    BY <1>9, <2>1, CallerValues, CallerValuesNext
  <2>3. ContractAnswer(k)' = a
    BY <1>9 DEF ContractAnswer
  <2>4. (r.err = "ok" => r.payload = {k} /\ Finished(k)') /\ (r.err \in {"refused", "overloaded"} => Refused(k)')
    BY <1>5, <1>9, <2>1 DEF AnswerInv, Told
  <2>5. r.payload \in SUBSET Calls
    <3>1. r \in Outcomes
      BY DEF TypeOK, CallTypeOK
    <3> QED
      BY <3>1, SMTT(200) DEF Outcomes
  <2> HIDE DEF r
  <2>6. a.kind = ContractKind(r.err) /\ a.payload = r.payload
    OBVIOUS
  <2>7. a \in [kind: {"result", "refused", "failed"}, payload: SUBSET Calls]
    BY <2>5, Kinds
  <2> HIDE DEF a
  <2>8. a.kind = "result" => ContractExec(k) = "finished" /\ a.payload = {k}
    BY <1>1, <2>4, <2>6, Kinds, ExecValues DEF Finished
  <2>9. a.kind = "refused" => ContractExec(k) = "none"
    BY <1>1, <2>4, <2>6, Kinds, ExecValues DEF Refused
  <2>10. [j \in Calls |-> ContractCaller(j)]' = [[j \in Calls |-> ContractCaller(j)] EXCEPT ![k] = "returned"]
    BY <1>2, <2>2, MapCaller
  <2>11. [j \in Calls |-> ContractAnswer(j)]' = [[j \in Calls |-> ContractAnswer(j)] EXCEPT ![k] = a]
    BY <1>2, <2>3, MapAnswer
  <2>12. Contract!Return(k)
    BY <1>4, <2>2, <2>7, <2>8, <2>9, <2>10, <2>11 DEF Contract!Return, Contract!Answers
  <2> QED
    BY <2>12 DEF Contract!ContractNext
<1>10. CASE pc[k] \notin {"idle", "returned"} /\ pc'[k] \notin {"idle", "returned"}
  <2>1. ContractCaller(k)' = ContractCaller(k)
    BY <1>10, CallerValues, CallerValuesNext
  <2>2. ContractAnswer(k)' = ContractAnswer(k)
    BY <1>10 DEF ContractAnswer
  <2>3. SameCaller
    BY <1>2, <2>1, <2>2 DEF SameCaller
  <2> QED
    BY <1>3, <2>3, StutterMaps
<1> QED
  BY <1>6, <1>7, <1>8, <1>9, <1>10

\* A call whose handler starts is under way or has failed, never refused.
LEMMA ExecuteMaps ==
    ASSUME TypeOK, ServedInv, AnsweredInv, UNCHANGED <<pc, streamID, ret>>, NEW k \in Calls, k \in admitted[Callee(k)],
           serving'[k] = "running", \A j \in Calls : j # k => serving'[j] = serving[j]
    PROVE  Contract!Execute(k)
<1>1. ServeInv(k) /\ NumberInv(k) /\ AnswerInv(k)
  BY DEF ServedInv, AnsweredInv
<1>2. serving[k] = "none" /\ pc[k] \notin {"idle", "usable", "registered"}
  BY <1>1 DEF ServeInv
<1>3. streamID[k] # 0
  BY <1>1 DEF NumberInv
<1>4. ContractCaller(k) \in {"pending", "returned"} /\ ContractExec(k) = "none" /\ ContractExec(k)' = "running"
  BY <1>2, <1>3, CallerValues, ExecValues, ExecValuesNext
<1>5. ContractAnswer(k).kind # "refused"
  <2>1. CASE pc[k] = "returned"
    <3>1. ContractAnswer(k).kind = ContractKind(ret[k].err)
      BY <2>1 DEF ContractAnswer
    <3>2. ret[k].err \notin {"refused", "overloaded"}
      BY <1>1, <1>3, <2>1 DEF AnswerInv, Told, Refused
    <3> QED
      BY <3>1, <3>2, Kinds
  <2>2. CASE pc[k] # "returned"
    BY <2>2 DEF ContractAnswer
  <2> QED
    BY <2>1, <2>2
<1>6. SameCaller
  BY StillMaps DEF SameCaller, Still
<1>7. /\ [j \in Calls |-> ContractCaller(j)]' = [j \in Calls |-> ContractCaller(j)]
      /\ [j \in Calls |-> ContractAnswer(j)]' = [j \in Calls |-> ContractAnswer(j)]
  BY <1>6, MapSame DEF SameCaller
<1>8. \A j \in Calls : j # k => ContractExec(j)' = ContractExec(j)
  BY StillMaps
<1>9. [j \in Calls |-> ContractExec(j)]' = [[j \in Calls |-> ContractExec(j)] EXCEPT ![k] = "running"]
  BY <1>4, <1>8, MapExec
<1> QED
  BY <1>4, <1>5, <1>7, <1>9 DEF Contract!Execute

\* A handler starts once, and finishes.
LEMMA ServingMaps ==
    ASSUME TypeOK, ServedInv, AnsweredInv, [Next]_vars, UNCHANGED <<pc, streamID, ret>>
    PROVE  [Contract!ContractNext]_(Contract!contractVars)
<1>1. serving \in [Calls -> {"none", "running", "releasing", "done"}]
  BY DEF TypeOK, LoopTypeOK
<1>2. SameCaller
  BY StillMaps DEF SameCaller, Still
<1>3. ASSUME NEW k \in Calls, HandlerReturn(k) PROVE Contract!Finish(k)
  <2>1. serving[k] = "running" /\ serving' = [serving EXCEPT ![k] = "releasing"]
    BY <1>3 DEF HandlerReturn
  <2>2. serving'[k] = "releasing" /\ \A j \in Calls : j # k => serving'[j] = serving[j]
    BY <1>1, <2>1
  <2>3. ContractExec(k) = "running" /\ ContractExec(k)' = "finished"
    BY <2>1, <2>2, ExecValues, ExecValuesNext
  <2>4. \A j \in Calls : j # k => ContractExec(j)' = ContractExec(j)
    BY <2>2, StillMaps
  <2>5. [j \in Calls |-> ContractExec(j)]' = [[j \in Calls |-> ContractExec(j)] EXCEPT ![k] = "finished"]
    BY <2>3, <2>4, MapExec
  <2>6. /\ [j \in Calls |-> ContractCaller(j)]' = [j \in Calls |-> ContractCaller(j)]
        /\ [j \in Calls |-> ContractAnswer(j)]' = [j \in Calls |-> ContractAnswer(j)]
    BY <1>2, MapSame DEF SameCaller
  <2> QED
    BY <2>3, <2>5, <2>6 DEF Contract!Finish
<1>4. ASSUME NEW k \in Calls, HandlerRelease(k) PROVE SameExec
  <2>1. serving[k] = "releasing" /\ serving' = [serving EXCEPT ![k] = "done"]
    BY <1>4 DEF HandlerRelease
  <2>2. serving'[k] = "done" /\ \A j \in Calls : j # k => serving'[j] = serving[j]
    BY <1>1, <2>1
  <2>3. ContractExec(k)' = ContractExec(k)
    BY <2>1, <2>2, ExecValues, ExecValuesNext
  <2> QED
    BY <2>2, <2>3, StillMaps DEF SameExec
<1>5. ASSUME NEW e \in Endpoints, TrackCall(e) PROVE SameExec \/ \E k \in Calls : Contract!Execute(k)
  <2>1. \A j \in Calls : serving'[j] = IF j \in admitted[e] THEN "running" ELSE serving[j]
    BY <1>5 DEF TrackCall
  <2>2. CASE admitted[e] = {}
    BY <2>1, <2>2, StillMaps DEF SameExec
  <2>3. CASE admitted[e] # {}
    <3>1. PICK k \in Calls : admitted[e] = {k} /\ Callee(k) = e
      BY <2>3 DEF ServedInv, AdmitInv, TypeOK, LoopTypeOK
    <3>2. serving'[k] = "running" /\ \A j \in Calls : j # k => serving'[j] = serving[j]
      BY <2>1, <3>1
    <3>3. k \in admitted[Callee(k)]
      BY <3>1
    <3> QED
      BY <3>2, <3>3, ExecuteMaps
  <2> QED
    BY <2>2, <2>3
<1>6. ASSUME serving' = serving PROVE SameExec
  BY <1>6, StillMaps DEF SameExec
<1>7. ASSUME NEW e \in Endpoints, ReadOpenCall(e) PROVE serving' = serving
  BY <1>7 DEF ReadOpenCall, serveVars
<1>8. SameExec => [Contract!ContractNext]_(Contract!contractVars)
  BY <1>2, StutterMaps
<1> QED
  BY <1>3, <1>4, <1>5, <1>6, <1>7, <1>8, ServingLeft DEF Contract!ContractNext

\* The session engine implements CallContract: in every behaviour, for any
\* calls, limits and environments, each step of the callers, read loops,
\* handlers and teardowns is a step of the contract or invisible to it.  A call
\* returns once, a result only from its own handler, and a refused call never
\* runs.
THEOREM ContractImplemented == Spec => ImplementsCallContract
<1>1. Init => Contract!ContractInit
  <2> SUFFICES ASSUME Init PROVE Contract!ContractInit
    OBVIOUS
  <2>1. ASSUME NEW k \in Calls PROVE pc[k] = "idle" /\ serving[k] = "none"
    BY <2>1 DEF Init
  <2>2. ASSUME NEW k \in Calls
        PROVE  /\ ContractCaller(k) = "idle" /\ ContractExec(k) = "none"
               /\ ContractAnswer(k) = [kind |-> "none", payload |-> {}]
    BY <2>1, CallerValues, ExecValues DEF ContractAnswer
  <2> QED
    BY <2>2 DEF Contract!ContractInit, Contract!NoAnswer
<1>2. /\ TypeOK /\ TypeOK' /\ ServedInv /\ AnsweredInv /\ AnsweredInv' /\ [Next]_vars
      => [Contract!ContractNext]_(Contract!contractVars)
  BY OthersLeave, CallingMaps, ServingMaps
<1> QED
  BY <1>1, <1>2, AnsweredInvariant, PTL DEF Spec, ImplementsCallContract, Contract!ContractSpec
=============================================================================
