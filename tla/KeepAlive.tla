----------------------------- MODULE KeepAlive ------------------------------
(***************************************************************************)
(* The liveness probes of two connected sessions (probeLoop, answerPing    *)
(* and the Pong case of dispatch in infrastructure/peer/conn/dispatch.go)  *)
(* in real time: when a session ends for a peer's silence, and when not.   *)
(*                                                                         *)
(* Time is a discrete clock.  A timestamp is kept as the time that has     *)
(* passed since, and a counter stops at a horizon beyond every value the   *)
(* code compares it with, so that no bound ends a behaviour.  A probe loop *)
(* whose tick has come runs within Lag, and a frame is dispatched within   *)
(* the network's delay unless its reader is blocked.                       *)
(*                                                                         *)
(* The transport holds Capacity frames each way; a write waits for room.   *)
(* Apart from probes it carries data, of which only its being read matters.*)
(***************************************************************************)
EXTENDS Integers, Sequences

CONSTANTS
    Interval,      \* Config.KeepAlive
    Lag,           \* the longest time for which a probe loop that can run does not
    Capacity,      \* frames that the transport holds in one direction
    Networks       \* what the network, the program and the peers may do

Ends == {"client", "server"}
Other(e) == IF e = "client" THEN "server" ELSE "client"

\* A network: the longest delay of a frame, the longest time between the start
\* of the two sessions, the ends that send data, the ends whose consumers may stop
\* reading and whether a peer may vanish without closing its connection.
ASSUME KeepAliveAssumption ==
    /\ Interval \in Nat \ {0} /\ Lag \in Nat /\ Lag <= Interval /\ Capacity \in Nat \ {0}
    /\ Networks \subseteq [delay: Nat, skew: Nat, sends: SUBSET Ends, stalls: SUBSET Ends, vanishes: BOOLEAN]

\* Faulty variant: one more probe may be missed.
keepAliveTimeoutLonger == 3
keepAliveTimeout == 2
\* Beyond every value that since is compared with.
Horizon == 3 * Interval + Lag + 1

VARIABLES
    net,      \* the network, which never changes
    started,  \* the ends whose session has started
    since,    \* each end: the time since lastPong
    ticker,   \* each end: the time until its ticker fires
    fired,    \* the ends with a tick in the ticker's channel, which holds one
    late,     \* each end: how long its probe loop has been able to run
    probing,  \* the ends whose probe loop is in its write
    reader,   \* each read loop: "read", "answer" (in the write of a Pong) or "deliver"
    wire,     \* the frames on their way to each end
    gone,     \* the ends that vanished
    ended,    \* each end: "no", or why end() was called
    apart     \* the time for which one session has run without the other

probeVars == <<ticker, fired, late, probing>>
peerVars == <<started, gone, apart>>
keepAliveVars == <<net, since, probeVars, reader, wire, ended, peerVars>>

Frame == [type: {"ping", "pong", "data"}, age: Nat]

Running(e) == e \in started /\ e \notin gone /\ ended[e] = "no"
Room(e) == Len(wire[Other(e)]) < Capacity
\* A frame of this type is written to the peer.
Written(e, type) == [wire EXCEPT ![Other(e)] = Append(@, [type |-> type, age |-> 0])]

KeepAliveInit ==
    /\ net \in Networks
    /\ started = {} /\ gone = {} /\ apart = 0
    /\ since = [e \in Ends |-> 0] /\ ticker = [e \in Ends |-> Interval]
    /\ fired = {} /\ late = [e \in Ends |-> 0] /\ probing = {}
    /\ reader = [e \in Ends |-> "read"] /\ wire = [e \in Ends |-> <<>>]
    /\ ended = [e \in Ends |-> "no"]

-----------------------------------------------------------------------------
(* The session.                                                              *)

\* NewSession stores lastPong, and probeLoop makes its ticker up to Lag later.
NewSession(e) ==
    /\ e \notin started
    /\ started' = started \cup {e}
    /\ \E d \in 0..Lag : ticker' = [ticker EXCEPT ![e] = Interval + d]
    /\ since' = [since EXCEPT ![e] = 0]
    /\ UNCHANGED <<net, fired, late, probing, reader, wire, ended, gone, apart>>

\* probeLoop receives a tick and begins its write.
TakeTick(e) ==
    /\ Running(e) /\ e \in fired /\ e \notin probing
    /\ fired' = fired \ {e} /\ probing' = probing \cup {e}
    /\ late' = [late EXCEPT ![e] = 0]
    /\ UNCHANGED <<net, since, ticker, reader, wire, ended, peerVars>>

\* The ping is written, and only then the silence is measured.
probe(e) ==
    /\ Running(e) /\ e \in probing /\ Room(e)
    /\ wire' = Written(e, "ping")
    /\ probing' = probing \ {e}
    /\ ended' = IF since[e] > Interval * keepAliveTimeout THEN [ended EXCEPT ![e] = "silence"] ELSE ended
    /\ UNCHANGED <<net, since, ticker, fired, late, reader, peerVars>>

Reads(e, type) ==
    /\ Running(e) /\ reader[e] = "read" /\ wire[e] # <<>> /\ Head(wire[e]).type = type

\* Faulty variant: a ping does not count as a sign of life.
ReadPingSilently(e) ==
    /\ Reads(e, "ping")
    /\ wire' = [wire EXCEPT ![e] = Tail(@)]
    /\ reader' = [reader EXCEPT ![e] = "answer"]
    /\ UNCHANGED <<net, since, probeVars, ended, peerVars>>
\* answerPing notes the sign of life and goes to write the Pong.
ReadPing(e) ==
    /\ Reads(e, "ping")
    /\ wire' = [wire EXCEPT ![e] = Tail(@)]
    /\ since' = [since EXCEPT ![e] = 0]
    /\ reader' = [reader EXCEPT ![e] = "answer"]
    /\ UNCHANGED <<net, probeVars, ended, peerVars>>
Answer(e) ==
    /\ Running(e) /\ reader[e] = "answer" /\ Room(e)
    /\ wire' = Written(e, "pong")
    /\ reader' = [reader EXCEPT ![e] = "read"]
    /\ UNCHANGED <<net, since, probeVars, ended, peerVars>>

ReadPong(e) ==
    /\ Reads(e, "pong")
    /\ wire' = [wire EXCEPT ![e] = Tail(@)]
    /\ since' = [since EXCEPT ![e] = 0]
    /\ UNCHANGED <<net, probeVars, reader, ended, peerVars>>

\* deliver hands the message over, or waits for a consumer that does not read.
ReadData(e) ==
    /\ Reads(e, "data")
    /\ wire' = [wire EXCEPT ![e] = Tail(@)]
    /\ \/ UNCHANGED reader
       \/ e \in net.stalls /\ reader' = [reader EXCEPT ![e] = "deliver"]
    /\ UNCHANGED <<net, since, probeVars, ended, peerVars>>
Delivered(e) ==
    /\ Running(e) /\ reader[e] = "deliver"
    /\ reader' = [reader EXCEPT ![e] = "read"]
    /\ UNCHANGED <<net, since, probeVars, wire, ended, peerVars>>

\* The peer's end() has closed the transport: a read or a write of this end fails.
LinkLost(e) ==
    /\ Running(e) /\ Other(e) \notin gone /\ ended[Other(e)] # "no"
    /\ ended' = [ended EXCEPT ![e] = "error"]
    /\ UNCHANGED <<net, since, probeVars, reader, wire, peerVars>>

-----------------------------------------------------------------------------
(* The environment.                                                          *)

Send(e) ==
    /\ Running(e) /\ e \in net.sends /\ Room(e)
    /\ wire' = Written(e, "data")
    /\ UNCHANGED <<net, since, probeVars, reader, ended, peerVars>>

Vanish(e) ==
    /\ net.vanishes /\ gone = {} /\ Running(e)
    /\ gone' = {e}
    /\ UNCHANGED <<net, since, probeVars, reader, wire, ended, started, apart>>

\* What may not wait any longer.
Urgent(e) ==
    \/ Running(e) /\ late[e] = Lag /\ e \in fired \ probing
    \/ Running(e) /\ reader[e] = "read" /\ wire[e] # <<>> /\ Head(wire[e]).age = net.delay
    \/ Running(e) /\ Room(e) /\ (e \in probing \/ reader[e] = "answer")
    \/ Running(e) /\ Other(e) \notin gone /\ ended[Other(e)] # "no"
    \/ e \notin started /\ apart = net.skew

Live == {e \in Ends : Running(e)}

\* Time passes.  A ticker drops a tick that finds its channel full.
Tick ==
    /\ \A e \in Ends : ~Urgent(e)
    /\ LET Fires == {e \in Live : ticker[e] = 1} IN
       /\ fired' = fired \cup Fires
       /\ ticker' = [e \in Ends |-> IF e \in Fires THEN Interval
                                    ELSE IF e \in Live THEN ticker[e] - 1 ELSE ticker[e]]
    /\ late' = [e \in Ends |-> IF e \in Live /\ e \in fired \ probing THEN late[e] + 1 ELSE late[e]]
    /\ since' = [e \in Ends |-> IF e \in Live /\ since[e] < Horizon THEN since[e] + 1 ELSE since[e]]
    /\ wire' = [e \in Ends |-> [i \in DOMAIN wire[e] |->
                    [wire[e][i] EXCEPT !.age = IF @ < net.delay THEN @ + 1 ELSE @]]]
    /\ apart' = IF started = Ends THEN apart ELSE apart + 1
    /\ UNCHANGED <<net, probing, reader, ended, started, gone>>

-----------------------------------------------------------------------------
Step(e) ==
    \/ NewSession(e) \/ TakeTick(e) \/ probe(e) \/ ReadPing(e) \/ Answer(e) \/ ReadPong(e)
    \/ ReadData(e) \/ Delivered(e) \/ LinkLost(e) \/ Send(e) \/ Vanish(e)
KeepAliveNext == Tick \/ \E e \in Ends : Step(e)
KeepAliveSpec == KeepAliveInit /\ [][KeepAliveNext]_keepAliveVars

-----------------------------------------------------------------------------
\* Type correctness.
KeepAliveTypeOK ==
    /\ net \in Networks
    /\ started \subseteq Ends /\ gone \subseteq Ends /\ apart \in Nat
    /\ since \in [Ends -> Nat] /\ ticker \in [Ends -> Nat] /\ late \in [Ends -> Nat]
    /\ fired \subseteq Ends /\ probing \subseteq Ends
    /\ reader \in [Ends -> {"read", "answer", "deliver"}]
    /\ wire \in [Ends -> Seq(Frame)]
    /\ ended \in [Ends -> {"no", "silence", "error"}]

\* A session whose probe is not held up in its write has heard of its peer within
\* three intervals: a peer that vanishes, or whose read loop is blocked, is
\* detected however ticks, frames and goroutines are timed (probeLoop, and the
\* comment on Config.KeepAlive).
SilenceDetected ==
    \A e \in Ends : Running(e) /\ e \notin probing => since[e] <= 3 * Interval + Lag

\* The timing under which probes are answered in time.
InTime == net.delay + 2 * Lag + net.skew <= Interval

\* No session ends for silence while its peer is alive, both read loops keep
\* reading and the network keeps its time: also not when the sessions start apart
\* and the first answer comes after the second tick (lastPong's initial value, the
\* strict comparison in probeLoop, answerPing's store).
NoFalseAlarm ==
    [][\A e \in Ends : ended[e] = "no" /\ ended'[e] = "silence" /\ InTime /\ net.sends = {} =>
            Other(e) \in gone]_keepAliveVars
=============================================================================
