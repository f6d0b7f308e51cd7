----------------------------- MODULE UnaryCalls -----------------------------
(***************************************************************************)
(* Unary calls of the session engine (infrastructure/peer/conn), both      *)
(* directions over one connection: the calling goroutine (Session.Call),   *)
(* the read loop and its dispatch, the goroutine that serves an inbound    *)
(* call, Close, and the teardown end() that any of them may run.           *)
(*                                                                         *)
(* The maps of a Session are guarded by its mutex, so an access is one     *)
(* step.  end() is three steps, because other goroutines run between them: *)
(* cancel (taken with the failure that leads to it, which only its own     *)
(* goroutine knows of), close the transport, and swap and notify.          *)
(***************************************************************************)
EXTENDS Integers, Sequences, FiniteSets

CONSTANTS
    ClientCalls,         \* invocations issued by the dialing endpoint
    ServerCalls,         \* invocations issued by the accepting endpoint
    MaxConcurrentCalls,  \* Limits.MaxConcurrentCalls
    Environments         \* what the applications and the network may do

Calls == ClientCalls \cup ServerCalls

\* "fits": the encoded frame body is within MaxMessageBytes; "edge": the
\* payload is, the body with its protobuf header is not; "over": neither.
Sizes == {"fits", "edge", "over"}

ASSUME CallsAssumption ==
    /\ ClientCalls \cap ServerCalls = {}
    /\ IsFiniteSet(ClientCalls) /\ IsFiniteSet(ServerCalls)

ASSUME LimitAssumption == MaxConcurrentCalls \in Nat \ {0}

Endpoints == {"client", "server"}

\* An environment: the calls that may be issued, the size classes of requests
\* and results, the endpoints that may Close, and whether the network may fail.
ASSUME EnvironmentAssumption ==
    Environments \subseteq [calls: SUBSET Calls, requests: SUBSET Sizes, replies: SUBSET Sizes,
                            closing: SUBSET Endpoints, linkMayFail: BOOLEAN]

Other(e) == IF e = "client" THEN "server" ELSE "client"
Caller(k) == IF k \in ClientCalls THEN "client" ELSE "server"
Callee(k) == Other(Caller(k))

\* Goroutines that write frames and may therefore run end().
Threads == ({"reader", "closer"} \X Endpoints) \cup ({"caller", "handler"} \X Calls)
Reader(e) == <<"reader", e>>
Closer(e) == <<"closer", e>>
CallerOf(k) == <<"caller", k>>
HandlerOf(k) == <<"handler", k>>
Home(t) == IF t[1] \in {"reader", "closer"} THEN t[2]
           ELSE IF t[1] = "caller" THEN Caller(t[2]) ELSE Callee(t[2])

Statuses == {"ok", "canceled", "overloaded", "refused", "failed", "tooLarge"}
Errors == Statuses \cup {"closed", "broken"}
\* What end() is called with.
Causes == {"nil", "eof", "error", "tooLarge"}
\* What a call returns: the payload of one invocation's result, or an error.
Outcomes == [err: Errors, payload: SUBSET Calls]
Result(k) == [err |-> "ok", payload |-> {k}]
Failure(err) == [err |-> err, payload |-> {}]

\* call is the request or result payload; of a StreamEnd it is only a label.
Frames == [type: {"OpenCall", "CallResult", "StreamEnd", "Close"},
           id: Nat, call: SUBSET Calls, status: Statuses]
OpenCall(id, k) == [type |-> "OpenCall", id |-> id, call |-> {k}, status |-> "ok"]
CallResult(id, k) == [type |-> "CallResult", id |-> id, call |-> {k}, status |-> "ok"]
StreamEnd(id, k, s) == [type |-> "StreamEnd", id |-> id, call |-> {k}, status |-> s]
CloseFrame == [type |-> "Close", id |-> 0, call |-> {}, status |-> "ok"]

VARIABLES
    \* the connection
    wire,          \* wire[e]: frames e sent that Other(e) has not read
    open,          \* open[e]: e has not closed its transport
    linkUp,        \* the network has not failed
    \* the calling goroutines
    pc, streamID, outcome, ret,
    \* the sessions
    nextStreamID, calls, inflight, ended, terminal, ctxDone, callGate,
    \* the router's slots taken by this connection's calls
    callSlots,
    \* the read loops, Close and end()
    reader, admitted, closer, ending, stage,
    \* the goroutines that serve inbound calls
    serving, callDone,
    \* history: the calls whose cancellation the serving endpoint has read
    cancelRead,
    \* the environment of this behaviour
    env

connVars == <<wire, open, linkUp>>
callVars == <<pc, streamID, outcome, ret>>
mapVars == <<nextStreamID, calls, inflight, ended, terminal, callGate, callSlots>>
sessVars == <<mapVars, ctxDone>>
loopVars == <<reader, admitted, closer>>
endVars == <<ending, stage>>
serveVars == <<serving, callDone>>
vars == <<connVars, callVars, sessVars, loopVars, endVars, serveVars, cancelRead, env>>

\* Faulty variant: both roles start at the same ID.
parityShared(e) == 1

parity(e) == IF e = "client" THEN 1 ELSE 2

Init ==
    /\ wire = [e \in Endpoints |-> <<>>]
    /\ open = [e \in Endpoints |-> TRUE]
    /\ linkUp = TRUE
    /\ pc = [k \in Calls |-> "idle"]
    /\ streamID = [k \in Calls |-> 0]
    /\ outcome = [k \in Calls |-> <<>>]
    /\ ret = [k \in Calls |-> Failure("ok")]
    /\ nextStreamID = [e \in Endpoints |-> parity(e)]
    /\ calls = [e \in Endpoints |-> {}]
    /\ inflight = [e \in Endpoints |-> {}]
    /\ ended = [e \in Endpoints |-> FALSE]
    /\ terminal = [e \in Endpoints |-> "ok"]
    /\ ctxDone = [e \in Endpoints |-> FALSE]
    /\ callGate = [e \in Endpoints |-> 0]
    /\ callSlots = [e \in Endpoints |-> 0]
    /\ reader = [e \in Endpoints |-> "read"]
    /\ admitted = [e \in Endpoints |-> {}]
    /\ closer = [e \in Endpoints |-> "idle"]
    /\ ending = [t \in Threads |-> <<>>]
    /\ stage = [t \in Threads |-> "close"]
    /\ serving = [k \in Calls |-> "none"]
    /\ callDone = [k \in Calls |-> FALSE]
    /\ cancelRead = [k \in Calls |-> FALSE]
    /\ env \in Environments

-----------------------------------------------------------------------------
(* Writing a frame.  writeFrame ends the session when the write fails, so a  *)
(* failed write leaves its goroutine inside end() for each cause listed.     *)

\* Bytes written after the network failed, or after the peer closed or stopped
\* reading, reach nobody.  w is the content of both directions.
Transmit(w, e, f) ==
    IF linkUp /\ open[Other(e)] /\ reader[Other(e)] # "stopped"
    THEN [w EXCEPT ![e] = Append(@, f)] ELSE w

WriteCanFail(e) == ~open[e] \/ ~open[Other(e)] \/ ~linkUp

\* end() begins: the session context is cancelled.  Closing a transport that
\* is closed already changes nothing.
CloseStage(e) == IF open[e] THEN "close" ELSE "release"
StartEnd(t, causes) ==
    /\ ending' = [ending EXCEPT ![t] = causes]
    /\ stage' = [stage EXCEPT ![t] = CloseStage(Home(t))]
    /\ ctxDone' = [ctxDone EXCEPT ![Home(t)] = TRUE]

\* writeFrame by goroutine t, the directions holding w before the write.
writeFrame(w, t, f) ==
    \/ /\ open[Home(t)]
       /\ wire' = Transmit(w, Home(t), f)
       /\ UNCHANGED <<endVars, ctxDone>>
    \/ /\ WriteCanFail(Home(t))
       /\ wire' = w
       /\ StartEnd(t, <<"error">>)

Ready(t) == ending[t] = <<>>

-----------------------------------------------------------------------------
(* The calling goroutine: Session.Call.                                      *)

\* The first call of usable(), and the payload bound.
CallCheck(k) ==
    LET e == Caller(k) IN
    /\ pc[k] = "idle" /\ k \in env.calls
    /\ \/ /\ ended[e]
          /\ pc' = [pc EXCEPT ![k] = "returned"]
          /\ ret' = [ret EXCEPT ![k] = Failure(terminal[e])]
       \/ /\ ~ended[e] /\ "over" \in env.requests
          /\ pc' = [pc EXCEPT ![k] = "returned"]
          /\ ret' = [ret EXCEPT ![k] = Failure("tooLarge")]
       \/ /\ ~ended[e] /\ env.requests # {"over"}
          /\ pc' = [pc EXCEPT ![k] = "usable"]
          /\ UNCHANGED ret
    /\ UNCHANGED <<connVars, streamID, outcome, sessVars, loopVars, endVars, serveVars, cancelRead, env>>

\* Faulty variant: the ID is read and not advanced.
allocateStreamIDSame(e) == nextStreamID

\* One atomic Add.
allocateStreamID(e) == [nextStreamID EXCEPT ![e] = @ + 2]

\* allocateStreamID and registerCall.
CallRegister(k) ==
    LET e == Caller(k) IN
    /\ pc[k] = "usable"
    /\ streamID' = [streamID EXCEPT ![k] = nextStreamID[e]]
    /\ nextStreamID' = allocateStreamID(e)
    /\ calls' = [calls EXCEPT ![e] = @ \cup {k}]
    /\ pc' = [pc EXCEPT ![k] = "registered"]
    /\ UNCHANGED <<connVars, outcome, ret, inflight, ended, terminal, ctxDone, callGate, callSlots,
                   loopVars, endVars, serveVars, cancelRead, env>>

\* The OpenCall frame.  The writer refuses a body beyond the limit, and
\* writeFrame ends the session for that refusal as for any other.
CallWrite(k) ==
    LET t == CallerOf(k)
        e == Caller(k) IN
    /\ pc[k] = "registered"
    /\ \/ /\ "fits" \in env.requests /\ open[e]
          /\ wire' = Transmit(wire, e, OpenCall(streamID[k], k))
          /\ pc' = [pc EXCEPT ![k] = "waiting"]
          /\ UNCHANGED <<endVars, ctxDone, ret>>
       \/ /\ "fits" \in env.requests /\ WriteCanFail(e)
          /\ StartEnd(t, <<"error">>)
          /\ pc' = [pc EXCEPT ![k] = "returning"]
          /\ ret' = [ret EXCEPT ![k] = Failure("broken")]
          /\ UNCHANGED wire
       \/ /\ "edge" \in env.requests
          /\ StartEnd(t, <<"tooLarge">>)
          /\ pc' = [pc EXCEPT ![k] = "returning"]
          /\ ret' = [ret EXCEPT ![k] = Failure("tooLarge")]
          /\ UNCHANGED wire
    /\ UNCHANGED <<open, linkUp, streamID, outcome, mapVars, loopVars, serveVars, cancelRead, env>>

\* await: the outcome is ready.  Whoever settled the call took its entry, so
\* the deferred discardCall finds none.
CallSettled(k) ==
    /\ pc[k] = "waiting"
    /\ outcome[k] # <<>>
    /\ ret' = [ret EXCEPT ![k] = Head(outcome[k])]
    /\ outcome' = [outcome EXCEPT ![k] = Tail(@)]
    /\ pc' = [pc EXCEPT ![k] = "returned"]
    /\ UNCHANGED <<connVars, streamID, sessVars, loopVars, endVars, serveVars, cancelRead, env>>

\* await: the caller's context is cancelled or its deadline passes, which is
\* looked at before the select and by it.  An outcome that is ready as well
\* does not prevent this branch.
CallAbandon(k) ==
    /\ pc[k] = "waiting"
    /\ pc' = [pc EXCEPT ![k] = "cancelling"]
    /\ UNCHANGED <<connVars, streamID, outcome, ret, sessVars, loopVars, endVars, serveVars, cancelRead, env>>

\* notifyCancelled
CallNotifyCancelled(k) ==
    /\ pc[k] = "cancelling"
    /\ writeFrame(wire, CallerOf(k), StreamEnd(streamID[k], k, "canceled"))
    /\ pc' = [pc EXCEPT ![k] = "returning"]
    /\ ret' = [ret EXCEPT ![k] = Failure("canceled")]
    /\ UNCHANGED <<open, linkUp, streamID, outcome, mapVars, loopVars, serveVars, cancelRead, env>>

\* The deferred discardCall, once any end() this goroutine ran is over.
CallReturn(k) ==
    LET e == Caller(k) IN
    /\ pc[k] = "returning"
    /\ Ready(CallerOf(k))
    /\ calls' = [calls EXCEPT ![e] = @ \ {k}]
    /\ pc' = [pc EXCEPT ![k] = "returned"]
    /\ UNCHANGED <<connVars, streamID, outcome, ret, nextStreamID, inflight, ended, terminal, ctxDone,
                   callGate, callSlots, loopVars, endVars, serveVars, cancelRead, env>>

-----------------------------------------------------------------------------
(* The read loop.                                                            *)

Reading(e) == reader[e] = "read" /\ Ready(Reader(e))
Arriving(e) == Head(wire[Other(e)])
ArrivesAt(e, type) == Reading(e) /\ wire[Other(e)] # <<>> /\ Arriving(e).type = type
Consumed(e) == [wire EXCEPT ![Other(e)] = Tail(@)]

\* The read loop takes a frame and answers it itself.
ReplyTo(e, f) == writeFrame(Consumed(e), Reader(e), f)

\* The entries with a given stream ID.
PendingWith(e, id) == {k \in calls[e] : streamID[k] = id}

\* Faulty variant: the entry of a settled call stays registered.
takeCallKeep(e, id) == calls

takeCall(e, id) == [calls EXCEPT ![e] = @ \ PendingWith(e, id)]

\* Faulty variant: no running call is found.
InflightWithNone(e, id) == {}

InflightWith(e, id) == {k \in inflight[e] : streamID[k] = id}

\* Faulty variant: a session that ends returns no slots.
releaseLive(gate, e) == IF ctxDone[e] THEN gate ELSE [gate EXCEPT ![e] = @ - 1]

release(gate, e) == [gate EXCEPT ![e] = @ - 1]
acquire(gate, e) == [gate EXCEPT ![e] = @ + 1]

\* openCall up to PrepareCall.  A refusal is reported with its terminal frame
\* and leaves the gate as it was.  The router refuses a call whose context
\* ended, and for reasons of its own: an unknown method, a denied caller,
\* slots taken by other connections.
ReadOpenCall(e) ==
    LET f == Arriving(e)
        full == callGate[e] = MaxConcurrentCalls
        refusals == {"overloaded"} \cup (IF full THEN {} ELSE {"refused"})
                                   \cup (IF ~full /\ ctxDone[e] THEN {"canceled"} ELSE {})
    IN
    /\ ArrivesAt(e, "OpenCall")
    /\ \/ /\ \E k \in f.call, s \in refusals : ReplyTo(e, StreamEnd(f.id, k, s))
          /\ UNCHANGED <<callGate, callSlots, reader, admitted>>
       \/ /\ ~full /\ ~ctxDone[e] /\ callSlots[e] < MaxConcurrentCalls
          /\ callGate' = acquire(callGate, e)
          /\ callSlots' = acquire(callSlots, e)
          /\ reader' = [reader EXCEPT ![e] = "track"]
          /\ admitted' = [admitted EXCEPT ![e] = f.call]
          /\ wire' = Consumed(e)
          /\ UNCHANGED <<endVars, ctxDone>>
    /\ UNCHANGED <<open, linkUp, callVars, nextStreamID, calls, inflight, ended, terminal, closer, serveVars, cancelRead, env>>

\* openCall after PrepareCall: trackInflight, then the serving goroutine.
TrackCall(e) ==
    /\ reader[e] = "track"
    /\ reader' = [reader EXCEPT ![e] = "read"]
    /\ admitted' = [admitted EXCEPT ![e] = {}]
    /\ inflight' = [inflight EXCEPT ![e] = @ \cup admitted[e]]
    /\ serving' = [k \in Calls |-> IF k \in admitted[e] THEN "running" ELSE serving[k]]
    /\ UNCHANGED <<connVars, callVars, nextStreamID, calls, ended, terminal, ctxDone, callGate, callSlots,
                   closer, endVars, callDone, cancelRead, env>>

\* settleCall, or the reply that lost its race and is ignored.
ReadCallResult(e) ==
    LET f == Arriving(e)
        pending == PendingWith(e, f.id) IN
    /\ ArrivesAt(e, "CallResult")
    /\ wire' = Consumed(e)
    /\ calls' = takeCall(e, f.id)
    /\ outcome' = [k \in Calls |-> IF k \in pending
                                   THEN Append(outcome[k], [err |-> "ok", payload |-> f.call])
                                   ELSE outcome[k]]
    /\ UNCHANGED <<open, linkUp, pc, streamID, ret, nextStreamID, inflight, ended, terminal, ctxDone,
                   callGate, callSlots, loopVars, endVars, serveVars, cancelRead, env>>

\* A terminal frame settles a pending call, and otherwise cancels the handler
\* serving that ID, if one is running.
ReadStreamEnd(e) ==
    LET f == Arriving(e)
        pending == PendingWith(e, f.id)
        running == IF pending = {} THEN InflightWith(e, f.id) ELSE {} IN
    /\ ArrivesAt(e, "StreamEnd")
    /\ wire' = Consumed(e)
    /\ calls' = takeCall(e, f.id)
    /\ outcome' = [k \in Calls |-> IF k \in pending
                                   THEN Append(outcome[k], Failure(f.status))
                                   ELSE outcome[k]]
    /\ inflight' = [inflight EXCEPT ![e] = @ \ running]
    /\ callDone' = [k \in Calls |-> callDone[k] \/ k \in running]
    /\ cancelRead' = [k \in Calls |-> cancelRead[k] \/ (k \in f.call /\ Callee(k) = e)]
    /\ UNCHANGED <<open, linkUp, pc, streamID, ret, nextStreamID, ended, terminal, ctxDone, callGate,
                   callSlots, loopVars, endVars, serving, env>>

\* readLoop ends the session and returns; what was not read is lost.
StopReading(e, causes) ==
    /\ reader' = [reader EXCEPT ![e] = "stopped"]
    /\ wire' = [wire EXCEPT ![Other(e)] = <<>>]
    /\ StartEnd(Reader(e), causes)
    /\ UNCHANGED <<open, linkUp, callVars, mapVars, admitted, closer, serveVars, cancelRead, env>>

\* The peer's orderly close: dispatch ends the session with io.EOF and returns
\* io.EOF, for which readLoop ends it once more.
ReadClose(e) ==
    /\ ArrivesAt(e, "Close")
    /\ StopReading(e, <<"eof", "eof">>)

\* io.EOF once the peer has closed and everything it sent is read.
ReadEOF(e) ==
    /\ Reading(e)
    /\ wire[Other(e)] = <<>>
    /\ ~open[Other(e)]
    /\ StopReading(e, <<"eof">>)

\* A read fails once either side has closed or the network has failed.
ReadError(e) ==
    /\ Reading(e)
    /\ WriteCanFail(e)
    /\ StopReading(e, <<"error">>)

-----------------------------------------------------------------------------
(* Close and end().                                                          *)

\* Session.Close: the best-effort Close frame, then end(nil).  closeOnce lets
\* one goroutine of an endpoint through.  The step is the end of the write, which
\* has no deadline; nothing says that it is taken.
Close(e) ==
    LET t == Closer(e) IN
    /\ e \in env.closing
    /\ closer[e] = "idle"
    /\ closer' = [closer EXCEPT ![e] = "closing"]
    /\ \/ open[e] /\ wire' = Transmit(wire, e, CloseFrame) /\ StartEnd(t, <<"nil">>)
       \/ WriteCanFail(e) /\ UNCHANGED wire /\ StartEnd(t, <<"error", "nil">>)
    /\ UNCHANGED <<open, linkUp, callVars, mapVars, reader, admitted, serveVars, cancelRead, env>>

EndClose(t) ==
    /\ ~Ready(t) /\ stage[t] = "close"
    /\ open' = [open EXCEPT ![Home(t)] = FALSE]
    /\ stage' = [stage EXCEPT ![t] = "release"]
    /\ UNCHANGED <<wire, linkUp, callVars, sessVars, loopVars, ending, serveVars, cancelRead, env>>

terminalOf(cause) == IF cause \in {"nil", "eof"} THEN "closed"
                     ELSE IF cause = "tooLarge" THEN "tooLarge" ELSE "broken"

\* Faulty variant: the latest cause replaces the first.
EndFailureLatest(t) == terminalOf(Head(ending[t]))

\* What the waiters observe: the first end() records its cause.
EndFailure(t) == IF ended[Home(t)] THEN terminal[Home(t)] ELSE terminalOf(Head(ending[t]))

\* Faulty variant: pending calls are dropped silently.
FailPendingSilent(e, failure) == outcome

FailPending(e, failure) ==
    [k \in Calls |-> IF k \in calls[e] THEN Append(outcome[k], Failure(failure)) ELSE outcome[k]]

\* The critical section and the notifications after it.  The swapped-out
\* entries are reachable by nobody else, so the sends belong to this step.
EndRelease(t) ==
    LET e == Home(t)
        failure == EndFailure(t) IN
    /\ ~Ready(t) /\ stage[t] = "release"
    /\ ended' = [ended EXCEPT ![e] = TRUE]
    /\ terminal' = [terminal EXCEPT ![e] = failure]
    /\ calls' = [calls EXCEPT ![e] = {}]
    /\ inflight' = [inflight EXCEPT ![e] = {}]
    /\ outcome' = FailPending(e, failure)
    /\ callDone' = [k \in Calls |-> callDone[k] \/ k \in inflight[e]]
    /\ ending' = [ending EXCEPT ![t] = Tail(@)]
    /\ stage' = [stage EXCEPT ![t] = IF Len(ending[t]) = 1 THEN "close" ELSE "release"]
    /\ UNCHANGED <<connVars, pc, streamID, ret, nextStreamID, ctxDone, callGate, callSlots,
                   loopVars, serving, cancelRead, env>>

\* The network fails.
LoseLink ==
    /\ env.linkMayFail
    /\ linkUp
    /\ linkUp' = FALSE
    /\ UNCHANGED <<wire, open, callVars, sessVars, loopVars, endVars, serveVars, cancelRead, env>>

-----------------------------------------------------------------------------
(* The goroutine serving an inbound call.                                    *)

HandlerCtxDone(k) == callDone[k] \/ ctxDone[Callee(k)]

\* The registered handler returns, the router's wrapper releases its slot and
\* turns a result beyond the limit into ErrMessageTooLarge, and the goroutine
\* writes the result or the terminal frame.  encodeResult can make a result
\* within the limit a body beyond it, which ends the session.  "failed" is an error
\* of the handler's own, whatever StatusOf makes of it: a handler that returns
\* ErrOverloaded reaches the caller with the status of a refusal.
HandlerReturn(k) ==
    LET e == Callee(k)
        t == HandlerOf(k)
        failures == {"failed"} \cup (IF HandlerCtxDone(k) THEN {"canceled"} ELSE {})
                               \cup (IF "over" \in env.replies THEN {"tooLarge"} ELSE {})
    IN
    /\ serving[k] = "running"
    /\ serving' = [serving EXCEPT ![k] = "releasing"]
    /\ callSlots' = release(callSlots, e)
    /\ \/ "fits" \in env.replies /\ writeFrame(wire, t, CallResult(streamID[k], k))
       \/ "edge" \in env.replies /\ StartEnd(t, <<"tooLarge">>) /\ UNCHANGED wire
       \/ \E s \in failures : writeFrame(wire, t, StreamEnd(streamID[k], k, s))
    /\ UNCHANGED <<open, linkUp, callVars, nextStreamID, calls, inflight, ended, terminal, callGate,
                   loopVars, callDone, cancelRead, env>>

\* The deferred cancelCall, releaseInflight and release of the gate.
HandlerRelease(k) ==
    LET e == Callee(k) IN
    /\ serving[k] = "releasing"
    /\ Ready(HandlerOf(k))
    /\ serving' = [serving EXCEPT ![k] = "done"]
    /\ callDone' = [callDone EXCEPT ![k] = TRUE]
    /\ inflight' = [inflight EXCEPT ![e] = @ \ {k}]
    /\ callGate' = release(callGate, e)
    /\ UNCHANGED <<connVars, callVars, nextStreamID, calls, ended, terminal, ctxDone, callSlots,
                   loopVars, endVars, cancelRead, env>>

-----------------------------------------------------------------------------
CallStep(k) ==
    \/ CallRegister(k) \/ CallWrite(k) \/ CallSettled(k)
    \/ CallNotifyCancelled(k) \/ CallReturn(k)

ReadStep(e) ==
    \/ ReadOpenCall(e) \/ TrackCall(e) \/ ReadCallResult(e)
    \/ ReadStreamEnd(e) \/ ReadClose(e) \/ ReadEOF(e) \/ ReadError(e)

EndStep(t) == EndClose(t) \/ EndRelease(t)

Next ==
    \/ \E k \in Calls : CallCheck(k) \/ CallAbandon(k) \/ CallStep(k)
    \/ \E k \in Calls : HandlerReturn(k) \/ HandlerRelease(k)
    \/ \E e \in Endpoints : ReadStep(e) \/ Close(e)
    \/ \E t \in Threads : EndStep(t)
    \/ LoseLink

Spec == Init /\ [][Next]_vars

\* Every goroutine that can run eventually does.  A handler is only assumed to
\* return once its context is done; issuing, abandoning and closing are the
\* application's choice, losing the link is the network's.  A read over a lost
\* link may block for ever unless its own side closes the transport.
Fairness ==
    /\ \A k \in Calls :
          /\ WF_vars(CallStep(k))
          /\ WF_vars(HandlerCtxDone(k) /\ HandlerReturn(k))
          /\ WF_vars(HandlerRelease(k))
    /\ \A e \in Endpoints :
          /\ WF_vars((linkUp \/ ~open[e]) /\ ReadStep(e))
          /\ WF_vars(TrackCall(e))
    /\ \A t \in Threads : WF_vars(EndStep(t))

FairSpec == Spec /\ Fairness

-----------------------------------------------------------------------------
ConnTypeOK ==
    /\ wire \in [Endpoints -> Seq(Frames)]
    /\ open \in [Endpoints -> BOOLEAN]
    /\ linkUp \in BOOLEAN
CallTypeOK ==
    /\ pc \in [Calls -> {"idle", "usable", "registered", "waiting", "cancelling", "returning", "returned"}]
    /\ streamID \in [Calls -> Nat]
    /\ outcome \in [Calls -> Seq(Outcomes)]
    /\ ret \in [Calls -> Outcomes]
MapTypeOK ==
    /\ nextStreamID \in [Endpoints -> Nat]
    /\ calls \in [Endpoints -> SUBSET Calls]
    /\ inflight \in [Endpoints -> SUBSET Calls]
    /\ ended \in [Endpoints -> BOOLEAN]
    /\ terminal \in [Endpoints -> Errors]
    /\ callGate \in [Endpoints -> Int]
    /\ callSlots \in [Endpoints -> Int]
EndTypeOK ==
    /\ ctxDone \in [Endpoints -> BOOLEAN]
    /\ ending \in [Threads -> Seq(Causes)]
    /\ stage \in [Threads -> {"close", "release"}]
LoopTypeOK ==
    /\ reader \in [Endpoints -> {"read", "track", "stopped"}]
    /\ admitted \in [Endpoints -> SUBSET Calls]
    /\ closer \in [Endpoints -> {"idle", "closing"}]
    /\ serving \in [Calls -> {"none", "running", "releasing", "done"}]
    /\ callDone \in [Calls -> BOOLEAN]
    /\ cancelRead \in [Calls -> BOOLEAN]

\* Type correctness: among others, terminalOf turns every cause into an error
\* of the package, so no io.EOF leaks out of a call.
TypeOK == ConnTypeOK /\ CallTypeOK /\ MapTypeOK /\ EndTypeOK /\ LoopTypeOK

\* A settled call's channel has room: the read loop and end() never block on
\* an outcome nobody receives, because each call has at most one sender.
SettleNeverBlocks == \A k \in Calls : Len(outcome[k]) <= 1

\* A caller that waits after its transport closed has its outcome, or is still
\* registered and some goroutine is about to release the session's calls: a
\* broken connection cannot leave a caller blocked (writeFrame's comment).
NoStrandedCaller ==
    \A k \in Calls :
        pc[k] = "waiting" /\ outcome[k] = <<>> =>
            /\ k \in calls[Caller(k)]
            /\ ~open[Caller(k)] =>
                  \E t \in Threads : Home(t) = Caller(k) /\ ~Ready(t) /\ stage[t] = "release"

\* Once the serving endpoint has read a caller's cancellation, the handler of
\* that call is not left running on a live context, however early the frame
\* came and whatever calls the other direction has under way.
CancelNotLost ==
    \A k \in Calls : cancelRead[k] => ~(serving[k] = "running" /\ ~HandlerCtxDone(k))
                                      /\ k \notin admitted[Callee(k)]

\* The invocations the endpoint serves.
Serving(e) == {k \in Calls : Callee(k) = e /\ serving[k] \in {"running", "releasing"}}

\* The gate and the router's slots count exactly the invocations under way:
\* refusals, cancellations and a session that ends neither leak nor return a
\* slot twice (openCall's deferred releases).
BudgetExact ==
    \A e \in Endpoints :
        /\ callGate[e] = Cardinality(Serving(e) \cup admitted[e])
        /\ callSlots[e] = Cardinality({k \in Serving(e) : serving[k] = "running"} \cup admitted[e])

\* Every waiter that the end of the session fails observes the first cause,
\* also when several goroutines end it for different causes.
OriginalCause ==
    \A k \in Calls :
        outcome[k] # <<>> /\ Head(outcome[k]).err \in {"closed", "broken"} =>
            ended[Caller(k)] /\ Head(outcome[k]).err = terminal[Caller(k)]

\* While nobody closes and the network works, no calls, refusals, cancellations
\* or replies that lost their race end a session (dispatchScoped's comment).
SessionOutlivesCalls ==
    linkUp /\ (\A e \in Endpoints : closer[e] = "idle") => \A e \in Endpoints : ~ended[e]

\* The refinement mapping: where Session.Call and the handler are, and what
\* the call returned.
ContractCaller(k) ==
    CASE pc[k] = "idle" -> "idle"
      [] pc[k] = "returned" -> IF streamID[k] = 0 THEN "turnedAway" ELSE "returned"
      [] OTHER -> "pending"
ContractExec(k) ==
    CASE serving[k] = "none" -> "none"
      [] serving[k] = "running" -> "running"
      [] OTHER -> "finished"
ContractKind(err) ==
    CASE err = "ok" -> "result"
      [] err \in {"refused", "overloaded"} -> "refused"
      [] OTHER -> "failed"
ContractAnswer(k) ==
    IF pc[k] = "returned" THEN [kind |-> ContractKind(ret[k].err), payload |-> ret[k].payload]
    ELSE [kind |-> "none", payload |-> {}]
Contract == INSTANCE CallContract WITH
    caller <- [k \in Calls |-> ContractCaller(k)],
    exec <- [k \in Calls |-> ContractExec(k)],
    answer <- [k \in Calls |-> ContractAnswer(k)]

\* The session engine keeps the promises of CallContract: a call returns once,
\* a result is its own handler's, a refused call never reaches a handler.
ImplementsCallContract == Contract!ContractSpec

\* A call under way when either side closes the session returns.
CloseReleasesCallers ==
    \A k \in Calls :
        (pc[k] # "idle" /\ \E e \in Endpoints : closer[e] = "closing") ~> (pc[k] = "returned")

\* A handler whose caller abandoned the call, or whose session either side
\* closes, is told to stop, and its slot comes back.
BudgetReturned ==
    \A k \in Calls :
        (serving[k] = "running" /\ (pc[k] = "cancelling" \/ \E e \in Endpoints : closer[e] = "closing"))
            ~> (serving[k] = "done")
=============================================================================
