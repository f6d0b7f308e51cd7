------------------------------ MODULE Endpoint ------------------------------
(***************************************************************************)
(* From a socket to a served session: Server.Sessions and Server.Close of  *)
(* the facade (presentation/peer/endpoint.go), the listeners of the four   *)
(* carriers (infrastructure/peer/{tcp,unix,quic,pipe}) and the dialers at  *)
(* the other end of their connections.                                     *)
(*                                                                         *)
(* The TCP, Unix and QUIC listeners accept and authenticate in the         *)
(* goroutine that calls Accept.  The pipe listener has a goroutine of its  *)
(* own, the accept loop, which takes requests from Accept over one         *)
(* unbuffered channel and answers over another.  The steps that the two    *)
(* have in common are written once, for a goroutine g.                     *)
(*                                                                         *)
(* Accept checks the context that Sessions has just checked; the two are   *)
(* one step.  What a certificate, an identity or a checkpoint says of a    *)
(* peer is the peer's kind, and the byte stream of a handshake is left     *)
(* out: it ends well, badly, or at its deadline.                           *)
(***************************************************************************)
EXTENDS Integers, FiniteSets

CONSTANTS
    Conns,         \* connections that peers dial
    Callers,       \* goroutines that call Sessions
    Environments   \* what peers and the embedding program may do

Carriers == {"tcp", "loopback", "unix", "quic", "pipe"}
\* A good peer authenticates and, on QUIC, writes a first frame before anyone loses
\* patience.  A bad one is refused, a wary one refuses this endpoint, a hasty one
\* gives up at any time and a silent one never completes its handshake.  A mute one
\* authenticates and may never write: a conforming dialer without keep-alive whose
\* program makes no call.  OpenStreamSync sends nothing and neither does starting a
\* session, so that no stream of it reaches AcceptStream.
Kinds == {"good", "bad", "wary", "hasty", "silent", "mute"}

\* An environment: the carrier that buildCarrier chose ("loopback" is TCP under the
\* plaintext profile), the kind of each peer, whether the program cancels a
\* Sessions call, closes the server, whether system calls may fail, and whether
\* this endpoint's KeepAlive keeps an idle QUIC connection alive.
ASSUME EnvironmentAssumption ==
    /\ Environments \subseteq [carrier: Carriers, kind: [Conns -> Kinds], callers: SUBSET Callers,
                               cancels: BOOLEAN, closes: BOOLEAN, faults: BOOLEAN, probing: BOOLEAN]
    /\ "loop" \notin Callers

Goroutines == Callers \cup {"loop"}

VARIABLES
    env,        \* the environment, which never changes
    conn,       \* each connection at this endpoint
    dial,       \* Dial at the other end
    at,         \* where each goroutine is
    ret,        \* what a Sessions call returned
    raw,        \* the connections a goroutine holds: at most one
    cancelled,  \* the Sessions calls whose context is done
    request,    \* the callers whose request the accept loop serves: at most one
    answer,     \* what the accept loop is about to answer
    socketOpen, \* the listening socket
    closing     \* Close: "open", "signalled", "draining" or "closed"

acceptVars == <<at, ret, raw, request, answer>>
closeVars == <<socketOpen, closing>>
vars == <<env, conn, dial, acceptVars, cancelled, closeVars>>

Encrypted == env.carrier # "loopback"
Pipe == env.carrier = "pipe"
Quic == env.carrier = "quic"

Init ==
    /\ env \in Environments
    /\ conn = [c \in Conns |-> "away"] /\ dial = [c \in Conns |-> "idle"]
    /\ at = [g \in Goroutines |-> IF g = "loop" THEN "select" ELSE "idle"]
    /\ ret = [a \in Callers |-> "none"]
    /\ raw = [g \in Goroutines |-> {}]
    /\ cancelled = {} /\ request = {} /\ answer = "none"
    /\ socketOpen = TRUE /\ closing = "open"

\* The context of the call that a goroutine works for.
Done(g) == IF g = "loop" THEN request \cap cancelled # {} ELSE g \in cancelled

\* Sessions and Accept return r; the accept loop goes to answer it.
Report(g, r) ==
    /\ at' = [at EXCEPT ![g] = IF g = "loop" THEN "respond" ELSE "returned"]
    /\ ret' = IF g = "loop" THEN ret ELSE [ret EXCEPT ![g] = r]
    /\ answer' = IF g = "loop" THEN r ELSE answer
Go(g, where) == at' = [at EXCEPT ![g] = where] /\ UNCHANGED <<ret, answer>>

-----------------------------------------------------------------------------
(* Sessions and Accept up to the system call.                                *)

Start(a) ==
    /\ at[a] = "idle" /\ a \in env.callers
    /\ Go(a, "check")
    /\ UNCHANGED <<env, conn, dial, raw, cancelled, request, closeVars>>

\* The context is checked before every blocking accept, and only then.
Check(g) ==
    /\ at[g] = "check"
    /\ IF Done(g) THEN Report(g, "canceled")
                  ELSE Go(g, IF Pipe /\ g # "loop" THEN "request" ELSE "accept")
    /\ UNCHANGED <<env, conn, dial, raw, cancelled, request, closeVars>>

\* The blocking accept returns a connection: already authenticated by the
\* transport for QUIC, raw otherwise.
AcceptConn(g, c) ==
    /\ at[g] = "accept" /\ conn[c] = "waiting"
    /\ Quic => dial[c] = "session"
    /\ Go(g, IF Quic THEN "stream" ELSE "authenticate")
    /\ conn' = [conn EXCEPT ![c] = "taken"] /\ raw' = [raw EXCEPT ![g] = {c}]
    /\ UNCHANGED <<env, dial, cancelled, request, closeVars>>

\* It fails because the socket is closed.  The pipe's loop takes every error for
\* that one.
AcceptClosed(g) ==
    /\ at[g] = "accept" /\ (~socketOpen \/ (Pipe /\ env.faults))
    /\ Report(g, "closed")
    /\ UNCHANGED <<env, conn, dial, raw, cancelled, request, closeVars>>

\* Faulty variant: QUIC's does not listen to the context either.
AcceptFailsDeaf(g) ==
    /\ at[g] = "accept" /\ env.faults /\ ~Pipe /\ Report(g, "error")
    /\ UNCHANGED <<env, conn, dial, raw, cancelled, request, closeVars>>
\* It fails otherwise.  Only QUIC's listens to the context.
AcceptFails(g) ==
    /\ at[g] = "accept"
    /\ \/ Quic /\ Done(g) /\ Report(g, "canceled")
       \/ env.faults /\ ~Pipe /\ Report(g, "error")
    /\ UNCHANGED <<env, conn, dial, raw, cancelled, request, closeVars>>

-----------------------------------------------------------------------------
(* Authentication of an accepted connection.                                 *)

\* Whether authenticate of an inbound connection can end well.  The plaintext
\* profile authenticates nothing, and ignores the context.
Authentic(g, c) == Encrypted => env.kind[c] \in {"good", "hasty", "mute"} /\ dial[c] = "session" /\ ~Done(g)

\* Whether it can end badly: the certificate, the identity or the checkpoint
\* refuses the peer, the peer leaves, the context ends, or the deadline passes.
Refused(g, c) == Encrypted /\ (env.kind[c] \in {"bad", "silent"} \/ dial[c] = "failed" \/ Done(g) \/ env.faults)

\* The session is started and returned to Sessions, which gives it to serve.
Serve(g, c) ==
    /\ Go(g, "check")
    /\ conn' = [conn EXCEPT ![c] = "served"]
    /\ raw' = [raw EXCEPT ![g] = {}]

\* The connection is closed and the next one is accepted.  An error of Close ends
\* the accept; the loop looks at the context before it goes on.
Reject(g, c) ==
    /\ conn' = [conn EXCEPT ![c] = "closed"]
    /\ raw' = [raw EXCEPT ![g] = {}]
    /\ \/ env.faults /\ Report(g, "error")
       \/ IF g = "loop" /\ Done(g) THEN Report(g, "canceled") ELSE Go(g, "check")

\* The accept loop has to hand its session over.
AuthenticateOK(g, c) ==
    /\ at[g] = "authenticate" /\ c \in raw[g] /\ Authentic(g, c)
    /\ IF g = "loop" THEN Report(g, "session") /\ UNCHANGED <<conn, raw>> ELSE Serve(g, c)
    /\ UNCHANGED <<env, dial, cancelled, request, closeVars>>
AuthenticateFails(g, c) ==
    /\ at[g] = "authenticate" /\ c \in raw[g] /\ Refused(g, c)
    /\ Reject(g, c)
    /\ UNCHANGED <<env, dial, cancelled, request, closeVars>>

\* AcceptStream returns the peer's stream, once the peer has written to it;
\* VerifyPeer and TrackConnection follow.
StreamOK(g, c) ==
    /\ at[g] = "stream" /\ c \in raw[g] /\ env.kind[c] \in {"good", "hasty", "mute"}
    /\ Serve(g, c)
    /\ UNCHANGED <<env, dial, cancelled, request, closeVars>>
\* AcceptStream fails as the context or the connection ends, or one of the two
\* refuses.  MaxIdleTimeout ends the connection of a mute peer, unless KeepAlive
\* keeps it alive: then the peer can stay for ever.
StreamFails(g, c) ==
    /\ at[g] = "stream" /\ c \in raw[g]
    /\ \/ env.kind[c] \in {"bad", "hasty"} \/ Done(g) \/ dial[c] = "failed"
       \/ env.kind[c] = "mute" /\ ~env.probing
    /\ Reject(g, c)
    /\ UNCHANGED <<env, dial, cancelled, request, closeVars>>

-----------------------------------------------------------------------------
(* The pipe's rendezvous.                                                    *)

\* Accept's send and the loop's receive of a request.
TakeRequest(a) ==
    /\ Pipe /\ at[a] = "request" /\ at["loop"] = "select"
    /\ at' = [at EXCEPT ![a] = "await", !["loop"] = "check"]
    /\ request' = {a}
    /\ UNCHANGED <<env, conn, dial, ret, raw, answer, cancelled, closeVars>>

\* Accept's other choices while it offers its request, and while it waits.
RequestGivenUp(a) ==
    /\ at[a] = "request"
    /\ \/ a \in cancelled /\ Report(a, "canceled")
       \/ closing # "open" /\ Report(a, "closed")
    /\ UNCHANGED <<env, conn, dial, raw, cancelled, request, closeVars>>
\* Faulty variant: Accept does not wait for the loop's exit.
AwaitGivenUpCancelledOnly(a) ==
    /\ at[a] = "await"
    /\ a \in cancelled /\ Report(a, "canceled")
    /\ UNCHANGED <<env, conn, dial, raw, cancelled, request, closeVars>>
AwaitGivenUp(a) ==
    /\ at[a] = "await"
    /\ \/ a \in cancelled /\ Report(a, "canceled")
       \/ at["loop"] = "exited" /\ Report(a, "closed")
    /\ UNCHANGED <<env, conn, dial, raw, cancelled, request, closeVars>>

\* respond: the answer is taken by the Accept that waits for it.
RespondTaken(a) ==
    /\ at["loop"] = "respond" /\ request = {a} /\ at[a] = "await"
    /\ at' = [at EXCEPT !["loop"] = "select", ![a] = IF answer = "session" THEN "check" ELSE "returned"]
    /\ ret' = [ret EXCEPT ![a] = IF answer = "session" THEN @ ELSE answer]
    /\ conn' = [c \in Conns |-> IF c \in raw["loop"] THEN "served" ELSE conn[c]]
    /\ raw' = [raw EXCEPT !["loop"] = {}]
    /\ request' = {} /\ answer' = "none"
    /\ UNCHANGED <<env, dial, cancelled, closeVars>>

\* Faulty variant: a session nobody takes is left open.
RespondDroppedOpen ==
    /\ at["loop"] = "respond" /\ (Done("loop") \/ closing # "open")
    /\ at' = [at EXCEPT !["loop"] = "select"]
    /\ raw' = [raw EXCEPT !["loop"] = {}] /\ request' = {} /\ answer' = "none"
    /\ UNCHANGED <<env, conn, dial, ret, cancelled, closeVars>>
\* respond: the request's context or the listener is done, and a session that
\* nobody takes is closed.
RespondDropped ==
    /\ at["loop"] = "respond" /\ (Done("loop") \/ closing # "open")
    /\ at' = [at EXCEPT !["loop"] = "select"]
    /\ conn' = [c \in Conns |-> IF c \in raw["loop"] THEN "closed" ELSE conn[c]]
    /\ raw' = [raw EXCEPT !["loop"] = {}]
    /\ request' = {} /\ answer' = "none"
    /\ UNCHANGED <<env, dial, ret, cancelled, closeVars>>

LoopExits ==
    /\ Pipe /\ at["loop"] = "select" /\ closing # "open"
    /\ Go("loop", "exited")
    /\ UNCHANGED <<env, conn, dial, raw, cancelled, request, closeVars>>

-----------------------------------------------------------------------------
(* The embedding program.                                                    *)

Cancel(a) ==
    /\ env.cancels /\ at[a] \notin {"idle", "returned"} /\ a \notin cancelled
    /\ cancelled' = cancelled \cup {a}
    /\ UNCHANGED <<env, conn, dial, acceptVars, closeVars>>

\* The operating system resets what nobody accepted; QUIC hands out what it has
\* authenticated and drops the rest.
CloseSocket ==
    /\ socketOpen' = FALSE
    /\ conn' = [c \in Conns |-> IF conn[c] = "waiting" /\ ~(Quic /\ dial[c] = "session") THEN "closed" ELSE conn[c]]

Close ==
    /\ env.closes /\ ~Pipe /\ closing = "open"
    /\ closing' = "closed" /\ CloseSocket
    /\ UNCHANGED <<env, dial, acceptVars, cancelled>>

\* The pipe's Close: the channel, the listener, the loop's exit.
PipeCloseSignal ==
    /\ env.closes /\ Pipe /\ closing = "open"
    /\ closing' = "signalled"
    /\ UNCHANGED <<env, conn, dial, acceptVars, cancelled, socketOpen>>
PipeCloseListener ==
    /\ closing = "signalled"
    /\ closing' = "draining" /\ CloseSocket
    /\ UNCHANGED <<env, dial, acceptVars, cancelled>>
\* Faulty variant: Close does not wait for the accept loop.
PipeCloseReturnEarly ==
    /\ closing = "draining"
    /\ closing' = "closed"
    /\ UNCHANGED <<env, conn, dial, acceptVars, cancelled, socketOpen>>
PipeCloseReturn ==
    /\ closing = "draining" /\ at["loop"] = "exited"
    /\ closing' = "closed"
    /\ UNCHANGED <<env, conn, dial, acceptVars, cancelled, socketOpen>>

-----------------------------------------------------------------------------
(* The dialer.                                                               *)

\* Dial is called.
Dial(c) ==
    /\ dial[c] = "idle"
    /\ dial' = [dial EXCEPT ![c] = "connecting"]
    /\ UNCHANGED <<env, conn, acceptVars, cancelled, closeVars>>

\* Whether the operating system lets a connection through.  A socket queues it; a
\* pipe has an instance to connect to only while the accept loop is in
\* listener.Accept, and every instance serves one connection.
Connectable ==
    Pipe => at["loop"] = "accept" /\ \A d \in Conns : conn[d] # "waiting"

\* The connection is made, and the handshake deadline is set.  Until then Dial
\* is bounded by its context alone.
DialConnect(c) ==
    /\ dial[c] = "connecting" /\ socketOpen /\ Connectable
    /\ dial' = [dial EXCEPT ![c] = IF Encrypted THEN "handshake" ELSE "session"]
    /\ conn' = [conn EXCEPT ![c] = "waiting"]
    /\ UNCHANGED <<env, acceptVars, cancelled, closeVars>>

\* The handshake ends well for the dialer, in TLS 1.3 before this endpoint has
\* judged the dialer's certificate.  QUIC's needs no Accept.
DialOK(c) ==
    /\ dial[c] = "handshake" /\ env.kind[c] \in {"good", "bad", "mute", "hasty"}
    /\ conn[c] = "taken" \/ (Quic /\ conn[c] = "waiting")
    /\ dial' = [dial EXCEPT ![c] = "session"]
    /\ UNCHANGED <<env, conn, acceptVars, cancelled, closeVars>>

\* A silent peer in the hands of this endpoint, or nobody serving, can keep a
\* handshake waiting beyond its deadline.  QUIC's handshakes wait for neither.
HeldUp(c) ==
    /\ ~Quic
    /\ \/ \E d \in Conns \ {c} : conn[d] = "taken" /\ env.kind[d] = "silent"
       \/ \A a \in Callers : at[a] \in {"idle", "returned"} \/ a \in cancelled

\* Faulty variant: the dialer sets no deadline.
DialFailsUntimed(c) ==
    /\ \/ dial[c] = "connecting" /\ (env.kind[c] = "hasty" \/ ~socketOpen)
       \/ dial[c] = "handshake" /\ (env.kind[c] \in {"wary", "hasty", "silent"} \/ conn[c] = "closed")
    /\ dial' = [dial EXCEPT ![c] = "failed"]
    /\ conn' = [conn EXCEPT ![c] = IF @ \in {"away", "waiting"} THEN "closed" ELSE @]
    /\ UNCHANGED <<env, acceptVars, cancelled, closeVars>>
\* It fails: there is nothing to connect to, this endpoint or its QUIC transport
\* refuses the connection, the dialer does or gives up, or the deadline passes.  The
\* dialer closes the connection; one that nobody has taken is gone from the queue.
DialFails(c) ==
    /\ \/ dial[c] = "connecting" /\ (env.kind[c] = "hasty" \/ ~socketOpen)
       \/ /\ dial[c] = "handshake"
          /\ \/ env.kind[c] \in {"wary", "hasty", "silent"} \/ (Quic /\ env.kind[c] = "bad")
             \/ conn[c] = "closed" \/ HeldUp(c) \/ ~socketOpen
    /\ dial' = [dial EXCEPT ![c] = "failed"]
    /\ conn' = [conn EXCEPT ![c] = IF @ \in {"away", "waiting"} THEN "closed" ELSE @]
    /\ UNCHANGED <<env, acceptVars, cancelled, closeVars>>

-----------------------------------------------------------------------------
Accepting(g) ==
    \/ Check(g) \/ AcceptClosed(g) \/ AcceptFails(g)
    \/ \E c \in Conns : AcceptConn(g, c) \/ AuthenticateOK(g, c) \/ AuthenticateFails(g, c)
                            \/ StreamOK(g, c) \/ StreamFails(g, c)
Calling(a) == TakeRequest(a) \/ RequestGivenUp(a) \/ AwaitGivenUp(a) \/ RespondTaken(a)
Looping == RespondDropped \/ LoopExits
PipeClosing == PipeCloseListener \/ PipeCloseReturn
Dialing(c) == DialConnect(c) \/ DialOK(c) \/ DialFails(c)

Next ==
    \/ \E g \in Goroutines : Accepting(g)
    \/ \E a \in Callers : Start(a) \/ Calling(a) \/ Cancel(a)
    \/ \E c \in Conns : Dial(c) \/ Dialing(c)
    \/ Looping \/ Close \/ PipeCloseSignal \/ PipeClosing

Spec == Init /\ [][Next]_vars

\* AcceptStream of a mute peer returns when the peer writes, if it ever does.
Unheard(g) == at[g] = "stream" /\ \E c \in raw[g] : env.kind[c] = "mute"

\* Goroutines are scheduled, handshakes and idle connections end by their
\* deadlines, and Close, once called, runs to its end.
Fairness ==
    /\ \A g \in Goroutines : WF_vars(~Unheard(g) /\ Accepting(g)) /\ WF_vars(\E c \in Conns : StreamFails(g, c))
    /\ \A a \in Callers : WF_vars(Calling(a))
    /\ \A c \in Conns : WF_vars(Dialing(c))
    /\ WF_vars(Looping) /\ WF_vars(PipeClosing)
FairSpec == Spec /\ Fairness

-----------------------------------------------------------------------------
\* Type correctness.
TypeOK ==
    /\ env \in Environments
    /\ conn \in [Conns -> {"away", "waiting", "taken", "served", "closed"}]
    /\ dial \in [Conns -> {"idle", "connecting", "handshake", "session", "failed"}]
    /\ at \in [Goroutines -> {"idle", "check", "accept", "authenticate", "stream", "request", "await", "returned",
                              "select", "respond", "exited"}]
    /\ ret \in [Callers -> {"none", "canceled", "closed", "error"}]
    /\ raw \in [Goroutines -> SUBSET Conns]
    /\ cancelled \subseteq Callers /\ request \subseteq Callers
    /\ answer \in {"none", "session", "canceled", "closed", "error"}
    /\ socketOpen \in BOOLEAN /\ closing \in {"open", "signalled", "draining", "closed"}

\* A connection taken from the socket is in the hands of exactly one goroutine
\* until it is served or closed: no authenticated session is left without an
\* owner by a refusal, a cancelled Accept or Close, and none has two (Accept,
\* acceptRequest, respond).
Owned ==
    \A c \in Conns :
        /\ conn[c] = "taken" => \E g \in Goroutines : raw[g] = {c}
        /\ \A g \in Goroutines : c \in raw[g] => conn[c] = "taken"
        /\ \A g, h \in Goroutines : c \in raw[g] \cap raw[h] => g = h

\* Once the pipe's Close has returned, no session is handed to Sessions any more
\* (Close waits for the accept loop).
NothingServedAfterClose ==
    [][Pipe /\ closing = "closed" => \A c \in Conns : conn'[c] = "served" => conn[c] = "served"]_vars

Active(a) == at[a] \notin {"idle", "returned"}
\* A mute QUIC peer that is kept alive holds up the goroutine that accepted it.
Stuck(a) == Unheard(a) /\ env.probing

\* A peer that can make others wait beyond their patience: one that is silent to a
\* serial accept, and one that is mute and kept alive.
Obstructs(d) ==
    \/ env.carrier \in {"tcp", "unix"} /\ env.kind[d] = "silent"
    \/ Quic /\ env.probing /\ env.kind[d] = "mute"

\* What excuses that a Dial does not end in a session at both ends.
Excused(c) ==
    \/ env.kind[c] # "good" \/ closing # "open" \/ cancelled # {} \/ env.faults
    \/ \A a \in Callers : ~Active(a)
    \/ \E d \in Conns : Obstructs(d)

\* A Dial ends in a session at both ends unless something excuses it, and returns
\* even so: a server that goes on serving reaches every good peer, past bad, wary
\* and hasty ones and past a mute one that is not kept alive.  Only the Dial of a
\* pipe on which nobody accepts any more waits for its context (Dial, authenticate's
\* deadlines, the accept loops' continue).
DialsEnd ==
    \A c \in Conns :
        dial[c] \in {"connecting", "handshake"} ~>
            \/ conn[c] = "served" /\ dial[c] = "session"
            \/ Excused(c) /\ dial[c] \in {"session", "failed"}
            \/ [](Pipe /\ socketOpen /\ dial[c] = "connecting" /\ \A a \in Callers : ~Active(a))

\* Close returns, and so does every Sessions call, but for one that is stuck with
\* a mute QUIC peer that is kept alive (Close, Accept, acceptLoop).
CloseStops ==
    closing # "open" ~> closing = "closed" /\ \A a \in Callers : ~Active(a) \/ Stuck(a)

\* On QUIC and on pipes a cancelled Sessions call returns (Sessions' comment).
CancelStops ==
    \A a \in Callers : a \in cancelled /\ (Quic \/ Pipe) ~> at[a] = "returned"
=============================================================================
