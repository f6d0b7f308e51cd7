----------------------------- MODULE PeerProofs -----------------------------
(***************************************************************************)
(* Proofs about the smaller parts of a peer.  Of Endpoint, for any number  *)
(* of connections and of Sessions calls and for every environment: type    *)
(* correctness, the single owner of an accepted connection, and the        *)
(* silence after the pipe's Close.  Of UnixSocket, for any number of       *)
(* processes and of inodes: type correctness, and for a supervisor that    *)
(* starts one listener at a time that a serving listener is reachable and  *)
(* that a stale socket stops nobody.  Of KeepAlive, for every interval,    *)
(* lag, capacity and network: type correctness, and the bound on the time  *)
(* for which a session goes without a sign of life.                        *)
(***************************************************************************)
EXTENDS Endpoint, UnixSocket, KeepAlive, TLAPS

USE ZenonT(200)

-----------------------------------------------------------------------------
(* Endpoint.                                                                 *)

\* A goroutine holds a connection only while it authenticates it, waits for its
\* stream or hands it over.
Hands ==
    \A g \in Goroutines : at[g] \notin {"authenticate", "stream", "respond"} => raw[g] = {}

\* On a pipe only the accept loop touches connections, and it has left before
\* Close returns.
LoopOnly ==
    Pipe => /\ \A a \in Callers : at[a] \notin {"accept", "authenticate", "stream"}
            /\ closing = "closed" => at["loop"] = "exited"

\* A connection that was not made yet is not at this endpoint.
Reached == \A c \in Conns : dial[c] \in {"idle", "connecting"} => conn[c] = "away"

IInv == TypeOK /\ Hands /\ Owned /\ Reached /\ LoopOnly

-----------------------------------------------------------------------------
\* Init establishes the inductive invariant.
LEMMA InitInv == Init => IInv
<1> SUFFICES ASSUME Init PROVE IInv
  OBVIOUS
<1>1. TypeOK
  BY SMTT(200) DEF Init, TypeOK
<1>2. Hands
  BY DEF Init, Hands
<1>3. Owned
  BY DEF Init, Owned
<1>4. Reached
  BY DEF Init, Reached
<1>5. LoopOnly
  BY EnvironmentAssumption, SMTT(200) DEF Init, LoopOnly, Goroutines
<1> QED
  BY <1>1, <1>2, <1>3, <1>4, <1>5 DEF IInv

\* Every step keeps the variables in their types.
LEMMA TypeStep == TypeOK /\ [Next]_vars => TypeOK'
<1> SUFFICES ASSUME TypeOK, [Next]_vars PROVE TypeOK'
  OBVIOUS
<1> USE EnvironmentAssumption DEF TypeOK, Goroutines
<1>1. ASSUME NEW g \in Goroutines, Check(g) \/ AcceptClosed(g) \/ AcceptFails(g) PROVE TypeOK'
  BY <1>1 DEF Check, AcceptClosed, AcceptFails, Report, Go, closeVars
<1>2. ASSUME NEW g \in Goroutines, NEW c \in Conns, AcceptConn(g, c) PROVE TypeOK'
  BY <1>2 DEF AcceptConn, Go, closeVars
<1>3. ASSUME NEW g \in Goroutines, NEW c \in Conns, AuthenticateOK(g, c) PROVE TypeOK'
  BY <1>3 DEF AuthenticateOK, Serve, Report, Go, closeVars
<1>4. ASSUME NEW g \in Goroutines, NEW c \in Conns, AuthenticateFails(g, c) PROVE TypeOK'
  BY <1>4 DEF AuthenticateFails, Reject, Report, Go, closeVars
<1>5. ASSUME NEW g \in Goroutines, NEW c \in Conns, StreamOK(g, c) \/ StreamFails(g, c) PROVE TypeOK'
  BY <1>5, SMTT(200) DEF StreamOK, StreamFails, Serve, Reject, Report, Go, closeVars
<1>6. ASSUME NEW a \in Callers, Start(a) \/ Cancel(a) \/ TakeRequest(a) PROVE TypeOK'
  BY <1>6 DEF Start, Cancel, TakeRequest, Go, acceptVars, closeVars
<1>7. ASSUME NEW a \in Callers, RequestGivenUp(a) \/ AwaitGivenUp(a) PROVE TypeOK'
  BY <1>7, SMTT(200) DEF RequestGivenUp, AwaitGivenUp, Report, closeVars
<1>8. ASSUME NEW a \in Callers, RespondTaken(a) PROVE TypeOK'
  BY <1>8 DEF RespondTaken, closeVars
<1>9. CASE RespondDropped \/ LoopExits
  BY <1>9, SMTT(200) DEF RespondDropped, LoopExits, Go, closeVars
<1>10. CASE Close \/ PipeCloseSignal \/ PipeCloseListener \/ PipeCloseReturn
  BY <1>10 DEF Close, PipeCloseSignal, PipeCloseListener, PipeCloseReturn, CloseSocket, acceptVars, closeVars
<1>11. ASSUME NEW c \in Conns, Dial(c) \/ DialConnect(c) \/ DialOK(c) \/ DialFails(c) PROVE TypeOK'
  BY <1>11 DEF Dial, DialConnect, DialOK, DialFails, acceptVars, closeVars
<1>12. CASE UNCHANGED vars
  BY <1>12 DEF vars, acceptVars, closeVars
<1> QED
  BY <1>1, <1>2, <1>3, <1>4, <1>5, <1>6, <1>7, <1>8, <1>9, <1>10, <1>11, <1>12
  DEF Next, Accepting, Calling, Looping, PipeClosing, Dialing

\* Hands is kept: a connection is let go of before the goroutine moves on.
LEMMA HandsStep == TypeOK /\ Hands /\ [Next]_vars => Hands'
<1> SUFFICES ASSUME TypeOK, Hands, [Next]_vars PROVE Hands'
  OBVIOUS
<1> USE EnvironmentAssumption DEF TypeOK, Goroutines, Hands
<1>1. ASSUME NEW g \in Goroutines, Check(g) \/ AcceptClosed(g) \/ AcceptFails(g) PROVE Hands'
  BY <1>1 DEF Check, AcceptClosed, AcceptFails, Report, Go
<1>2. ASSUME NEW g \in Goroutines, NEW c \in Conns, AcceptConn(g, c) PROVE Hands'
  BY <1>2 DEF AcceptConn, Go
<1>3. ASSUME NEW g \in Goroutines, NEW c \in Conns, AuthenticateOK(g, c) PROVE Hands'
  BY <1>3 DEF AuthenticateOK, Serve, Report, Go
<1>4. ASSUME NEW g \in Goroutines, NEW c \in Conns,
             AuthenticateFails(g, c) \/ StreamOK(g, c) \/ StreamFails(g, c)
      PROVE  Hands'
  BY <1>4 DEF AuthenticateFails, StreamOK, StreamFails, Serve, Reject, Report, Go
<1>5. ASSUME NEW a \in Callers, Start(a) \/ Cancel(a) \/ TakeRequest(a) PROVE Hands'
  BY <1>5 DEF Start, Cancel, TakeRequest, Go, acceptVars
<1>6. ASSUME NEW a \in Callers, RequestGivenUp(a) \/ AwaitGivenUp(a) PROVE Hands'
  BY <1>6 DEF RequestGivenUp, AwaitGivenUp, Report
<1>7. ASSUME NEW a \in Callers, RespondTaken(a) PROVE Hands'
  BY <1>7 DEF RespondTaken
<1>8. CASE RespondDropped \/ LoopExits
  BY <1>8 DEF RespondDropped, LoopExits, Go
<1>9. CASE Close \/ PipeCloseSignal \/ PipeCloseListener \/ PipeCloseReturn
  BY <1>9 DEF Close, PipeCloseSignal, PipeCloseListener, PipeCloseReturn, acceptVars
<1>10. ASSUME NEW c \in Conns, Dial(c) \/ DialConnect(c) \/ DialOK(c) \/ DialFails(c) PROVE Hands'
  BY <1>10 DEF Dial, DialConnect, DialOK, DialFails, acceptVars
<1>11. CASE UNCHANGED vars
  BY <1>11 DEF vars, acceptVars
<1> QED
  BY <1>1, <1>2, <1>3, <1>4, <1>5, <1>6, <1>7, <1>8, <1>9, <1>10, <1>11
  DEF Next, Accepting, Calling, Looping, PipeClosing, Dialing

\* A connection leaves its owner's hands only as it is served or closed, and
\* enters them only from the socket.
LEMMA OwnedStep == TypeOK /\ Hands /\ Owned /\ Reached /\ [Next]_vars => Owned'
<1> SUFFICES ASSUME TypeOK, Hands, Owned, Reached, [Next]_vars PROVE Owned'
  OBVIOUS
<1> USE EnvironmentAssumption DEF TypeOK, Goroutines
\* Whoever holds a connection holds no other.
<1>0. ASSUME NEW g \in Goroutines, NEW c \in Conns, c \in raw[g]
      PROVE  raw[g] = {c} /\ conn[c] = "taken" /\ \A h \in Goroutines : c \in raw[h] => h = g
  <2>1. conn[c] = "taken" /\ \A h \in Goroutines : c \in raw[h] => h = g
    BY <1>0 DEF Owned
  <2>2. PICK h \in Goroutines : raw[h] = {c}
    BY <2>1 DEF Owned
  <2> QED
    BY <2>1, <2>2
<1>1. CASE UNCHANGED <<conn, raw>>
  BY <1>1 DEF Owned
<1>2. ASSUME NEW g \in Goroutines, NEW c \in Conns, AcceptConn(g, c) PROVE Owned'
  <2>1. conn[c] = "waiting" /\ raw[g] = {} /\ \A h \in Goroutines : c \notin raw[h]
    BY <1>2 DEF AcceptConn, Hands, Owned
  <2>2. conn' = [conn EXCEPT ![c] = "taken"] /\ raw' = [raw EXCEPT ![g] = {c}]
    BY <1>2 DEF AcceptConn
  <2>3. ASSUME NEW d \in Conns, conn'[d] = "taken" PROVE \E h \in Goroutines : raw'[h] = {d}
    <3>1. CASE d = c
      BY <2>2, <3>1
    <3>2. CASE d # c
      <4>1. PICK h \in Goroutines : raw[h] = {d}
        BY <2>2, <2>3, <3>2 DEF Owned
      <4> QED
        BY <2>1, <2>2, <4>1
    <3> QED
      BY <3>1, <3>2
  <2>4. \A d \in Conns : \A h \in Goroutines : d \in raw'[h] => conn'[d] = "taken"
    BY <2>1, <2>2, SMTT(200) DEF Owned
  <2>5. \A d \in Conns : \A h \in Goroutines : d \in raw'[h] <=> d \in raw[h] \/ (h = g /\ d = c)
    BY <2>1, <2>2
  <2>6. \A d \in Conns : \A h, k \in Goroutines : d \in raw'[h] \cap raw'[k] => h = k
    BY <2>1, <2>5, SMTT(200) DEF Owned
  <2> QED
    BY <2>3, <2>4, <2>6 DEF Owned
\* Whatever the goroutine does with it, its connection is not "taken" any more.
<1>3. ASSUME NEW g \in Goroutines, NEW c \in Conns, NEW s \in {"served", "closed"}, c \in raw[g],
             conn' = [conn EXCEPT ![c] = s], raw' = [raw EXCEPT ![g] = {}]
      PROVE  Owned'
  <2>1. raw[g] = {c} /\ conn[c] = "taken" /\ \A h \in Goroutines : c \in raw[h] => h = g
    BY <1>0, <1>3
  <2>2. \A d \in Conns : conn'[d] = IF d = c THEN s ELSE conn[d]
    BY <1>3
  <2>3. \A h \in Goroutines : raw'[h] = IF h = g THEN {} ELSE raw[h]
    BY <1>3
  <2>4. ASSUME NEW d \in Conns, conn'[d] = "taken" PROVE \E h \in Goroutines : raw'[h] = {d}
    <3>1. d # c /\ conn[d] = "taken"
      BY <2>2, <2>4
    <3>2. PICK h \in Goroutines : raw[h] = {d}
      BY <3>1 DEF Owned
    <3> QED
      BY <2>1, <2>3, <3>1, <3>2
  <2>5. ASSUME NEW d \in Conns, NEW h \in Goroutines, d \in raw'[h]
        PROVE  conn'[d] = "taken" /\ d \in raw[h]
    BY <2>1, <2>2, <2>3, <2>5 DEF Owned
  <2> QED
    BY <2>4, <2>5 DEF Owned
<1>4. ASSUME NEW g \in Goroutines, NEW c \in Conns, AuthenticateOK(g, c) PROVE Owned'
  BY <1>1, <1>3, <1>4 DEF AuthenticateOK, Serve
<1>5. ASSUME NEW g \in Goroutines, NEW c \in Conns,
             AuthenticateFails(g, c) \/ StreamOK(g, c) \/ StreamFails(g, c)
      PROVE  Owned'
  BY <1>3, <1>5 DEF AuthenticateFails, StreamOK, StreamFails, Serve, Reject
<1>6. ASSUME NEW s \in {"served", "closed"},
             conn' = [c \in Conns |-> IF c \in raw["loop"] THEN s ELSE conn[c]],
             raw' = [raw EXCEPT !["loop"] = {}]
      PROVE  Owned'
  <2>2. \A d \in Conns : conn'[d] = IF d \in raw["loop"] THEN s ELSE conn[d]
    BY <1>6
  <2>3. \A h \in Goroutines : raw'[h] = IF h = "loop" THEN {} ELSE raw[h]
    BY <1>6
  <2>4. ASSUME NEW d \in Conns, conn'[d] = "taken" PROVE \E h \in Goroutines : raw'[h] = {d}
    <3>1. d \notin raw["loop"] /\ conn[d] = "taken"
      BY <2>2, <2>4
    <3>2. PICK h \in Goroutines : raw[h] = {d}
      BY <3>1 DEF Owned
    <3> QED
      BY <2>3, <3>1, <3>2
  <2>5. ASSUME NEW d \in Conns, NEW h \in Goroutines, d \in raw'[h]
        PROVE  conn'[d] = "taken" /\ d \in raw[h]
    <3>1. h # "loop" /\ d \in raw[h]
      BY <2>3, <2>5
    <3>2. d \notin raw["loop"] /\ conn[d] = "taken"
      BY <1>0, <3>1
    <3> QED
      BY <2>2, <3>1, <3>2
  <2> QED
    BY <2>4, <2>5 DEF Owned
<1>7. ASSUME NEW a \in Callers, RespondTaken(a) PROVE Owned'
  BY <1>6, <1>7 DEF RespondTaken
<1>8. CASE RespondDropped
  BY <1>6, <1>8 DEF RespondDropped
\* Neither Close nor a dialer touches a connection that was taken.
<1>9. ASSUME raw' = raw, conn' \in [Conns -> {"away", "waiting", "taken", "served", "closed"}],
             \A c \in Conns : conn[c] = "taken" <=> conn'[c] = "taken"
      PROVE  Owned'
  BY <1>9 DEF Owned
<1>10. CASE Close \/ PipeCloseListener
  BY <1>9, <1>10 DEF Close, PipeCloseListener, CloseSocket, acceptVars
<1>11. ASSUME NEW c \in Conns, DialFails(c) PROVE Owned'
  BY <1>9, <1>11 DEF DialFails, Reached, acceptVars
<1>12. ASSUME NEW c \in Conns, DialConnect(c) PROVE Owned'
  BY <1>9, <1>12 DEF DialConnect, Reached, acceptVars
<1> QED
  BY <1>1, <1>2, <1>4, <1>5, <1>7, <1>8, <1>10, <1>11, <1>12
  DEF Next, Accepting, Calling, Looping, PipeClosing, Dialing, Check, AcceptClosed, AcceptFails, Start, Cancel,
      TakeRequest, RequestGivenUp, AwaitGivenUp, LoopExits, PipeCloseSignal, PipeCloseReturn, Dial, DialOK,
      vars, acceptVars

\* A connection is never away again once it was dialed.
LEMMA ReachedStep == TypeOK /\ Owned /\ Reached /\ [Next]_vars => Reached'
<1> SUFFICES ASSUME TypeOK, Owned, Reached, [Next]_vars PROVE Reached'
  OBVIOUS
<1> USE EnvironmentAssumption DEF TypeOK, Goroutines, Reached
<1>1. CASE UNCHANGED <<conn, dial>>
  BY <1>1
\* Connections change at this endpoint only after they have been dialed.
<1>2. ASSUME dial' = dial, \A c \in Conns : conn[c] = "away" => conn'[c] = "away" PROVE Reached'
  BY <1>2
<1>3. ASSUME NEW g \in Goroutines, NEW c \in Conns, AcceptConn(g, c) PROVE Reached'
  BY <1>2, <1>3 DEF AcceptConn
<1>4. ASSUME NEW g \in Goroutines, NEW c \in Conns,
             AuthenticateOK(g, c) \/ AuthenticateFails(g, c) \/ StreamOK(g, c) \/ StreamFails(g, c)
      PROVE  Reached'
  <2>1. conn[c] = "taken"
    BY <1>4 DEF Owned, AuthenticateOK, AuthenticateFails, StreamOK, StreamFails
  <2> QED
    BY <1>2, <1>4, <2>1 DEF AuthenticateOK, AuthenticateFails, StreamOK, StreamFails, Serve, Reject
<1>5. ASSUME NEW a \in Callers, RespondTaken(a) PROVE Reached'
  BY <1>2, <1>5 DEF RespondTaken, Owned
<1>6. CASE RespondDropped
  BY <1>2, <1>6 DEF RespondDropped, Owned
<1>7. CASE Close \/ PipeCloseListener
  BY <1>2, <1>7 DEF Close, PipeCloseListener, CloseSocket
<1>8. ASSUME NEW c \in Conns, Dial(c) \/ DialConnect(c) \/ DialOK(c) \/ DialFails(c) PROVE Reached'
  BY <1>8 DEF Dial, DialConnect, DialOK, DialFails
<1> QED
  BY <1>1, <1>3, <1>4, <1>5, <1>6, <1>7, <1>8
  DEF Next, Accepting, Calling, Looping, PipeClosing, Dialing, Check, AcceptClosed, AcceptFails, Start, Cancel,
      TakeRequest, RequestGivenUp, AwaitGivenUp, LoopExits, PipeCloseSignal, PipeCloseReturn, vars

\* On a pipe the callers stay out of the accept loop's work, and the loop that has
\* left does not come back.
LEMMA LoopOnlyStep == TypeOK /\ LoopOnly /\ [Next]_vars => LoopOnly'
<1> SUFFICES ASSUME TypeOK, LoopOnly, [Next]_vars, Pipe' PROVE LoopOnly'
  BY DEF LoopOnly
<1> USE EnvironmentAssumption DEF TypeOK, Goroutines, LoopOnly, Pipe
<1>1. ASSUME NEW g \in Goroutines, Check(g) \/ AcceptClosed(g) \/ AcceptFails(g) PROVE LoopOnly'
  BY <1>1, SMTT(200) DEF Check, AcceptClosed, AcceptFails, Report, Go, Quic, closeVars
<1>2. ASSUME NEW g \in Goroutines, NEW c \in Conns, AcceptConn(g, c) PROVE LoopOnly'
  BY <1>2 DEF AcceptConn, Go, closeVars
<1>3. ASSUME NEW g \in Goroutines, NEW c \in Conns,
             AuthenticateOK(g, c) \/ AuthenticateFails(g, c) \/ StreamOK(g, c) \/ StreamFails(g, c)
      PROVE  LoopOnly'
  BY <1>3 DEF AuthenticateOK, AuthenticateFails, StreamOK, StreamFails, Serve, Reject, Report, Go, closeVars
<1>4. ASSUME NEW a \in Callers, Start(a) \/ Cancel(a) \/ TakeRequest(a) PROVE LoopOnly'
  BY <1>4 DEF Start, Cancel, TakeRequest, Go, acceptVars, closeVars
<1>5. ASSUME NEW a \in Callers, RequestGivenUp(a) \/ AwaitGivenUp(a) \/ RespondTaken(a) PROVE LoopOnly'
  BY <1>5 DEF RequestGivenUp, AwaitGivenUp, RespondTaken, Report, closeVars
<1>6. CASE RespondDropped \/ LoopExits
  BY <1>6 DEF RespondDropped, LoopExits, Go, closeVars
<1>7. CASE Close \/ PipeCloseSignal \/ PipeCloseListener \/ PipeCloseReturn
  BY <1>7 DEF Close, PipeCloseSignal, PipeCloseListener, PipeCloseReturn, acceptVars
<1>8. ASSUME NEW c \in Conns, Dial(c) \/ DialConnect(c) \/ DialOK(c) \/ DialFails(c) PROVE LoopOnly'
  BY <1>8 DEF Dial, DialConnect, DialOK, DialFails, acceptVars, closeVars
<1>9. CASE UNCHANGED vars
  BY <1>9 DEF vars, acceptVars, closeVars
<1> QED
  BY <1>1, <1>2, <1>3, <1>4, <1>5, <1>6, <1>7, <1>8, <1>9
  DEF Next, Accepting, Calling, Looping, PipeClosing, Dialing

-----------------------------------------------------------------------------
\* The inductive invariant holds of every behaviour.
LEMMA InductiveInv == Spec => []IInv
<1>1. IInv /\ [Next]_vars => IInv'
  BY TypeStep, HandsStep, OwnedStep, ReachedStep, LoopOnlyStep DEF IInv
<1> QED
  BY InitInv, <1>1, PTL DEF Spec

\* Type correctness of the accept and dial paths.
THEOREM TypeCorrect == Spec => []TypeOK
  BY InductiveInv, PTL DEF IInv

\* Every accepted connection has exactly one owner until it is served or closed,
\* on every carrier and whatever Accept, respond, Cancel and Close do.
THEOREM OneOwner == Spec => []Owned
  BY InductiveInv, PTL DEF IInv

\* Once the pipe's Close has returned, no step hands a session to Sessions.
THEOREM QuietAfterClose == Spec => NothingServedAfterClose
<1>1. ASSUME IInv, [Next]_vars, Pipe, closing = "closed", NEW c \in Conns, conn'[c] = "served"
      PROVE  conn[c] = "served"
  <2> USE EnvironmentAssumption, <1>1 DEF IInv, TypeOK, Goroutines
  <2>1. at["loop"] = "exited" /\ \A g \in Goroutines : at[g] \notin {"authenticate", "stream"}
    BY DEF LoopOnly
  <2>2. ASSUME NEW g \in Goroutines, NEW d \in Conns, AcceptConn(g, d) PROVE conn[c] = "served"
    BY <2>2 DEF AcceptConn
  <2>3. CASE \E d \in Conns : DialConnect(d) \/ DialFails(d)
    BY <2>3 DEF DialConnect, DialFails
  <2>4. CASE PipeCloseListener \/ Close
    BY <2>4 DEF PipeCloseListener, Close
  <2> QED
    BY <2>1, <2>2, <2>3, <2>4
    DEF Next, Accepting, Calling, Looping, PipeClosing, Dialing, Check, AcceptClosed, AcceptFails, AuthenticateOK,
        AuthenticateFails, StreamOK, StreamFails, Start, Cancel, TakeRequest, RequestGivenUp, AwaitGivenUp,
        RespondTaken, RespondDropped, LoopExits, PipeCloseSignal, PipeCloseReturn, Dial, DialOK, vars
<1>2. IInv /\ [Next]_vars =>
        [Pipe /\ closing = "closed" => \A c \in Conns : conn'[c] = "served" => conn[c] = "served"]_vars
  BY <1>1
<1> QED
  BY InductiveInv, <1>2, PTL DEF Spec, NothingServedAfterClose

-----------------------------------------------------------------------------
(* UnixSocket.                                                               *)

\* The path belongs to p: it serves, or is about to unlink its own file.
Owner(p) == call[p] \in {"serving", "unlink"}
\* p has found that nobody owns the path.
Cleared(p) == call[p] \in {"lstat2", "remove", "bind", "listen", "chmod"}

\* What a process knows of the path at each of its system calls, when it is the
\* only one that starts.
Knows(p) ==
    /\ Owner(p) => p \in listening /\ socket[p] = path /\ path # None
    /\ call[p] \in {"listen", "chmod"} => socket[p] = path /\ path # None
    /\ call[p] = "chmod" => p \in listening
    /\ p \in listening => call[p] \in {"chmod", "serving", "unlink", "close"}
    /\ call[p] = "probe" => path \in {before[p], None}
    /\ call[p] \in {"lstat2", "remove"} => path = before[p] /\ path # None
    /\ call[p] = "bind" => path = None
    /\ ~host.closes => call[p] \notin {"unlink", "close"} /\ (call[p] = "probe" => path # None)

Exclusive ==
    host.exclusive =>
        \A p \in Processes :
            /\ Knows(p)
            /\ \A q \in Processes \ {p} : /\ ~(Starting(p) /\ Starting(q))
                                          /\ ~(Owner(p) /\ Owner(q))
                                          /\ ~(Cleared(p) /\ Owner(q))

UnixInv == UnixTypeOK /\ Exclusive

\* Init establishes the inductive invariant.
LEMMA UnixInitInv == UnixInit => UnixInv
  BY UnixAssumption DEF UnixInit, UnixInv, UnixTypeOK, Exclusive, Knows, Owner, Cleared, Starting

\* Every step keeps the variables in their types.
LEMMA UnixTypeStep == UnixTypeOK /\ [UnixNext]_unixVars => UnixTypeOK'
<1> SUFFICES ASSUME UnixTypeOK, [UnixNext]_unixVars PROVE UnixTypeOK'
  OBVIOUS
<1> USE DEF UnixTypeOK, Proceed
<1>1. ASSUME NEW p \in Processes, Begin(p) \/ Lstat(p) \/ Probe(p) \/ Lstat2(p) PROVE UnixTypeOK'
  BY <1>1 DEF Begin, Lstat, Probe, Lstat2
<1>2. ASSUME NEW p \in Processes, Remove(p) \/ Chmod(p) \/ CloseListener(p) \/ Unlink(p) PROVE UnixTypeOK'
  BY <1>2 DEF Remove, Chmod, CloseListener, Unlink
<1>3. ASSUME NEW p \in Processes, Bind(p) PROVE UnixTypeOK'
  BY <1>3 DEF Bind, Free
<1>4. ASSUME NEW p \in Processes, ListenSocket(p) \/ CloseDescriptor(p) \/ Crash(p) PROVE UnixTypeOK'
  BY <1>4 DEF ListenSocket, CloseDescriptor, Crash
<1>5. CASE UNCHANGED unixVars
  BY <1>5 DEF unixVars
<1> QED
  BY <1>1, <1>2, <1>3, <1>4, <1>5 DEF UnixNext, Call

\* With one listener starting at a time, every process goes on knowing what it
\* knows of the path.
LEMMA ExclusiveStep == UnixTypeOK /\ Exclusive /\ [UnixNext]_unixVars => Exclusive'
<1> SUFFICES ASSUME UnixTypeOK, Exclusive, [UnixNext]_unixVars, host.exclusive PROVE Exclusive'
  BY DEF UnixNext, Call, Begin, Lstat, Probe, Lstat2, Remove, Bind, ListenSocket, Chmod, CloseListener, Unlink, CloseDescriptor,
         Crash, unixVars, Exclusive
<1> USE UnixAssumption DEF UnixTypeOK, Proceed, Exclusive, Knows, Owner, Cleared, Starting
<1>1. ASSUME NEW p \in Processes, Begin(p) PROVE Exclusive'
  BY <1>1 DEF Begin
<1>2. ASSUME NEW p \in Processes, Lstat(p) PROVE Exclusive'
  BY <1>2 DEF Lstat
<1>3. ASSUME NEW p \in Processes, Probe(p) PROVE Exclusive'
  <2>1. CASE path = None \/ Reachable
    BY <1>3, <2>1 DEF Probe
  <2>2. CASE path # None /\ ~Reachable
    <3>1. \A q \in Processes : call[q] \notin {"serving", "unlink"}
      BY <2>2 DEF Reachable
    <3>2. path = before[p] /\ UNCHANGED <<host, path, socket, listening, before>> /\ call' = [call EXCEPT ![p] = "lstat2"]
      BY <1>3, <2>2 DEF Probe
    <3> QED
      BY <1>3, <2>2, <3>1, <3>2, SMTT(200) DEF Probe
  <2> QED
    BY <2>1, <2>2
<1>4. ASSUME NEW p \in Processes, Lstat2(p) PROVE Exclusive'
  BY <1>4 DEF Lstat2
<1>5. ASSUME NEW p \in Processes, Remove(p) PROVE Exclusive'
  BY <1>5 DEF Remove
<1>6. ASSUME NEW p \in Processes, Bind(p) PROVE Exclusive'
  BY <1>6 DEF Bind, Free
<1>7. ASSUME NEW p \in Processes, ListenSocket(p) PROVE Exclusive'
  BY <1>7 DEF ListenSocket
<1>8. ASSUME NEW p \in Processes, Chmod(p) PROVE Exclusive'
  BY <1>8 DEF Chmod
<1>9. ASSUME NEW p \in Processes, CloseListener(p) PROVE Exclusive'
  BY <1>9 DEF CloseListener
<1>10. ASSUME NEW p \in Processes, Unlink(p) PROVE Exclusive'
  BY <1>10, SMTT(200) DEF Unlink
<1>11. ASSUME NEW p \in Processes, CloseDescriptor(p) \/ Crash(p) PROVE Exclusive'
  BY <1>11, SMTT(200) DEF CloseDescriptor, Crash
<1>12. CASE UNCHANGED unixVars
  BY <1>12 DEF unixVars
<1> QED
  BY <1>1, <1>2, <1>3, <1>4, <1>5, <1>6, <1>7, <1>8, <1>9, <1>10, <1>11, <1>12 DEF UnixNext, Call

\* The inductive invariant holds of every behaviour.
LEMMA UnixInductiveInv == UnixSpec => []UnixInv
<1>1. UnixInv /\ [UnixNext]_unixVars => UnixInv'
  BY UnixTypeStep, ExclusiveStep DEF UnixInv
<1> QED
  BY UnixInitInv, <1>1, PTL DEF UnixSpec

\* Type correctness of Listen and Close.
THEOREM UnixTypeCorrect == UnixSpec => []UnixTypeOK
  BY UnixInductiveInv, PTL DEF UnixInv

\* Under a supervisor that starts one listener at a time, no Listen, Close or crash
\* ever takes the path from a listener that serves.
THEOREM PathReached == UnixSpec => []ServingIsReachable
<1>1. UnixInv => ServingIsReachable
  BY DEF UnixInv, Exclusive, Knows, Owner, ServingIsReachable
<1> QED
  BY UnixInductiveInv, <1>1, PTL

\* Under such a supervisor, and with no listener closing, Listen fails only where
\* another listener serves.
THEOREM ListenReason == UnixSpec => FailsForAReason
<1>1. ASSUME UnixInv, [UnixNext]_unixVars, host.exclusive, ~host.closes, NEW p \in Processes, Fails(p)
      PROVE  \E q \in Processes \ {p} : call[q] = "serving"
  <2> USE <1>1 DEF UnixInv, UnixTypeOK, Proceed, Fails
  <2>1. Probe(p) \/ Lstat2(p) \/ Remove(p) \/ Bind(p) \/ Chmod(p)
    BY DEF UnixNext, Call, Begin, Lstat, Probe, Lstat2, Remove, Bind, ListenSocket, Chmod, CloseListener, Unlink, CloseDescriptor,
           Crash, unixVars
  <2>2. CASE Probe(p)
    <3>1. PICK q \in listening : socket[q] = path
      BY <2>2 DEF Probe, Reachable, Exclusive, Knows
    <3>2. call[q] \in {"chmod", "serving"} /\ q # p
      BY <2>2, <3>1 DEF Probe, Exclusive, Knows
    <3> QED
      BY <2>2, <3>1, <3>2 DEF Probe, Exclusive, Starting
  <2>3. CASE Lstat2(p) \/ Remove(p) \/ Bind(p) \/ Chmod(p)
    BY <2>3 DEF Lstat2, Remove, Bind, Chmod, Exclusive, Knows
  <2> QED
    BY <2>1, <2>2, <2>3
<1>2. UnixInv /\ [UnixNext]_unixVars =>
        [host.exclusive /\ ~host.closes =>
            \A p \in Processes : Fails(p) => \E q \in Processes \ {p} : call[q] = "serving"]_unixVars
  BY <1>1
<1> QED
  BY UnixInductiveInv, <1>2, PTL DEF UnixSpec, FailsForAReason

-----------------------------------------------------------------------------
(* KeepAlive.                                                                *)

\* A tick is taken within Lag, only sessions that have started have ticks, and a
\* ticker that has fired once runs for one interval at a time.
Ticking ==
    /\ fired \cup probing \subseteq started
    /\ \A e \in Ends : /\ ticker[e] >= 1 /\ late[e] <= Lag
                       /\ e \in fired \cup probing => ticker[e] <= Interval

\* Between two probes the silence grows no faster than the ticker runs down: the
\* last check found at most two intervals, and the next tick is at most one away.
Paced ==
    \A e \in Ends : Running(e) /\ e \notin probing =>
        IF e \in fired THEN since[e] <= 3 * Interval + late[e] ELSE since[e] + ticker[e] <= 3 * Interval

SilenceInv == KeepAliveTypeOK /\ Ticking /\ Paced

\* Time passes on a wire: its frames grow older and stay in their order.
LEMMA Aging ==
    ASSUME NEW s \in Seq(Frame), NEW d
    PROVE  [i \in DOMAIN s |-> [s[i] EXCEPT !.age = IF @ < d THEN @ + 1 ELSE @]] \in Seq(Frame)
<1> DEFINE t == [i \in DOMAIN s |-> [s[i] EXCEPT !.age = IF @ < d THEN @ + 1 ELSE @]]
<1>1. Len(s) \in Nat /\ DOMAIN s = 1..Len(s)
  BY SMTT(200)
<1>2. \A i \in 1..Len(s) : s[i] \in Frame
  BY SMTT(200)
<1>3. \A i \in 1..Len(s) : [s[i] EXCEPT !.age = IF @ < d THEN @ + 1 ELSE @] \in Frame
  <2> SUFFICES ASSUME NEW i \in 1..Len(s)
               PROVE  [s[i] EXCEPT !.age = IF @ < d THEN @ + 1 ELSE @] \in Frame
    OBVIOUS
  <2> DEFINE f == s[i]
  <2>1. f \in Frame
    BY <1>2
  <2>2. (IF f.age < d THEN f.age + 1 ELSE f.age) \in Nat
    <3>1. f.age \in Nat
      BY <2>1 DEF Frame
    <3> HIDE DEF f
    <3> QED
      BY ONLY <3>1, SMTT(200)
  <2> HIDE DEF f
  <2>3. [f EXCEPT !.age = IF @ < d THEN @ + 1 ELSE @] \in Frame
    BY <2>1, <2>2 DEF Frame
  <2> QED
    BY <2>3 DEF f
<1>4. t \in [1..Len(s) -> Frame]
  BY <1>1, <1>3
<1> QED
  BY <1>1, <1>4, SMTT(200)

\* KeepAliveInit establishes the inductive invariant.
LEMMA SilenceInitInv == KeepAliveInit => SilenceInv
  BY KeepAliveAssumption, SMTT(200) DEF KeepAliveInit, SilenceInv, KeepAliveTypeOK, Ticking, Paced, Running, Ends

\* Every step keeps the variables in their types.
LEMMA KeepAliveTypeStep == KeepAliveTypeOK /\ Ticking /\ [KeepAliveNext]_keepAliveVars => KeepAliveTypeOK'
<1> SUFFICES ASSUME KeepAliveTypeOK, Ticking, [KeepAliveNext]_keepAliveVars PROVE KeepAliveTypeOK'
  OBVIOUS
<1> USE KeepAliveAssumption DEF KeepAliveTypeOK
<1>1. ASSUME NEW e \in Ends, NEW type \in {"ping", "pong", "data"} PROVE Written(e, type) \in [Ends -> Seq(Frame)]
  <2>1. Append(wire[Other(e)], [type |-> type, age |-> 0]) \in Seq(Frame)
    BY SMTT(200) DEF Frame, Other, Ends
  <2> QED
    BY <2>1 DEF Written
<1>2. ASSUME NEW e \in Ends, wire[e] # <<>> PROVE [wire EXCEPT ![e] = Tail(@)] \in [Ends -> Seq(Frame)]
  BY <1>2, SMTT(200)
<1>3. CASE Tick
  <2>1. wire' \in [Ends -> Seq(Frame)]
    BY <1>3, Aging DEF Tick
  <2>2. ticker' \in [Ends -> Nat]
    BY <1>3, SMTT(200) DEF Tick, Ticking, Live
  <2> QED
    BY <1>3, <2>1, <2>2, SMTT(200) DEF Tick, Live
<1>4. ASSUME NEW e \in Ends, NewSession(e) PROVE KeepAliveTypeOK'
  <2>1. ticker' \in [Ends -> Nat] /\ since' \in [Ends -> Nat] /\ started' \subseteq Ends
    BY <1>4, SMTT(200) DEF NewSession
  <2> QED
    BY <1>4, <2>1 DEF NewSession
<1>5. ASSUME NEW e \in Ends, TakeTick(e) PROVE KeepAliveTypeOK'
  BY <1>5 DEF TakeTick, peerVars
<1>6. ASSUME NEW e \in Ends, probe(e) PROVE KeepAliveTypeOK'
  BY <1>1, <1>6 DEF probe, peerVars
<1>7. ASSUME NEW e \in Ends, ReadPing(e) \/ ReadPong(e) \/ ReadData(e) PROVE KeepAliveTypeOK'
  <2>1. wire' \in [Ends -> Seq(Frame)]
    <3>1. wire[e] # <<>> /\ wire' = [wire EXCEPT ![e] = Tail(@)]
      BY <1>7 DEF ReadPing, ReadPong, ReadData, Reads
    <3> QED
      BY <1>2, <3>1
  <2>2. reader' \in [Ends -> {"read", "answer", "deliver"}]
    BY <1>7 DEF ReadPing, ReadPong, ReadData
  <2>3. since' \in [Ends -> Nat]
    BY <1>7, SMTT(200) DEF ReadPing, ReadPong, ReadData
  <2>4. UNCHANGED <<net, probeVars, ended, peerVars>>
    BY <1>7 DEF ReadPing, ReadPong, ReadData
  <2> QED
    BY <2>1, <2>2, <2>3, <2>4 DEF probeVars, peerVars
<1>8. ASSUME NEW e \in Ends, Answer(e) \/ Send(e) PROVE KeepAliveTypeOK'
  BY <1>1, <1>8 DEF Answer, Send, probeVars, peerVars
<1>9. ASSUME NEW e \in Ends, Delivered(e) PROVE KeepAliveTypeOK'
  BY <1>9 DEF Delivered, probeVars, peerVars
<1>10. ASSUME NEW e \in Ends, LinkLost(e) PROVE KeepAliveTypeOK'
  BY <1>10 DEF LinkLost, probeVars, peerVars
<1>11. ASSUME NEW e \in Ends, Vanish(e) PROVE KeepAliveTypeOK'
  BY <1>11 DEF Vanish, probeVars
<1>12. CASE UNCHANGED keepAliveVars
  BY <1>12 DEF keepAliveVars, probeVars, peerVars
<1> QED
  BY <1>3, <1>4, <1>5, <1>6, <1>7, <1>8, <1>9, <1>10, <1>11, <1>12 DEF KeepAliveNext, Step

\* Ticks are taken in time and tickers run on.
LEMMA TickingStep == KeepAliveTypeOK /\ Ticking /\ [KeepAliveNext]_keepAliveVars => Ticking'
<1> SUFFICES ASSUME KeepAliveTypeOK, Ticking, [KeepAliveNext]_keepAliveVars PROVE Ticking'
  OBVIOUS
<1> USE KeepAliveAssumption DEF KeepAliveTypeOK, Ticking
<1>1. CASE UNCHANGED <<probeVars, started>>
  BY <1>1 DEF probeVars
<1>2. CASE Tick
  BY <1>2, SMTT(200) DEF Tick, Live, Running, Urgent
<1>3. ASSUME NEW e \in Ends, NewSession(e) PROVE Ticking'
  BY <1>3, SMTT(200) DEF NewSession
<1>4. ASSUME NEW e \in Ends, TakeTick(e) PROVE Ticking'
  BY <1>4, SMTT(200) DEF TakeTick, peerVars
<1>5. ASSUME NEW e \in Ends, probe(e) PROVE Ticking'
  BY <1>5, SMTT(200) DEF probe, peerVars
<1> QED
  BY <1>1, <1>2, <1>3, <1>4, <1>5
  DEF KeepAliveNext, Step, ReadPing, ReadPong, ReadData, Answer, Send, Delivered, LinkLost, Vanish, keepAliveVars, peerVars

\* The pace is kept: by time, by the check after a probe, and by every sign of life.
LEMMA PacedStep == KeepAliveTypeOK /\ Ticking /\ Paced /\ [KeepAliveNext]_keepAliveVars => Paced'
<1> SUFFICES ASSUME KeepAliveTypeOK, Ticking, Paced, [KeepAliveNext]_keepAliveVars, NEW e \in Ends, Running(e)', e \notin probing'
             PROVE  IF e \in fired' THEN since'[e] <= 3 * Interval + late'[e]
                                    ELSE since'[e] + ticker'[e] <= 3 * Interval
  BY DEF Paced
<1> USE KeepAliveAssumption DEF KeepAliveTypeOK, Running
<1>0. Interval \in Nat
  OBVIOUS
\* Steps that leave the probe loop alone and at most hear of the peer.
<1>1. ASSUME UNCHANGED <<probeVars, started>>, gone \subseteq gone', \A d \in Ends : since'[d] \in {0, since[d]},
             \A d \in Ends : ended'[d] = "no" => ended[d] = "no"
      PROVE  IF e \in fired' THEN since'[e] <= 3 * Interval + late'[e]
                             ELSE since'[e] + ticker'[e] <= 3 * Interval
  <2>1. Running(e) /\ e \notin probing
    BY <1>1 DEF probeVars
  <2>2. IF e \in fired THEN since[e] <= 3 * Interval + late[e] ELSE since[e] + ticker[e] <= 3 * Interval
    BY <2>1 DEF Paced
  <2>3. since'[e] <= since[e] /\ since'[e] \in Nat
    <3>1. since[e] \in Nat /\ since'[e] \in {0, since[e]}
      BY <1>1
    <3> QED
      BY <3>1, SMTT(200)
  <2>4. late[e] \in Nat /\ ticker[e] \in Nat /\ since[e] \in Nat
    OBVIOUS
  <2>5. fired' = fired /\ late' = late /\ ticker' = ticker
    BY <1>1 DEF probeVars
  <2>6. CASE e \in fired
    <3>1. since[e] <= 3 * Interval + late[e]
      BY <2>2, <2>6
    <3>2. since'[e] <= 3 * Interval + late[e]
      BY ONLY <1>0, <2>3, <2>4, <3>1, SMTT(200)
    <3> QED
      BY <2>5, <2>6, <3>2
  <2>7. CASE e \notin fired
    <3>1. since[e] + ticker[e] <= 3 * Interval
      BY <2>2, <2>7
    <3>2. since'[e] + ticker[e] <= 3 * Interval
      BY ONLY <1>0, <2>3, <2>4, <3>1, SMTT(200)
    <3> QED
      BY <2>5, <2>7, <3>2
  <2> QED
    BY <2>6, <2>7
<1>2. CASE Tick
  <2>1. Running(e) /\ e \notin probing
    BY <1>2 DEF Tick
  <2>2. since'[e] <= since[e] + 1 /\ since'[e] \in Nat
    BY <1>2, SMTT(200) DEF Tick
  <2>3. CASE e \in fired
    <3>1. late'[e] = late[e] + 1 /\ e \in fired'
      BY <1>2, <2>1, <2>3 DEF Tick, Live
    <3>2. since[e] <= 3 * Interval + late[e]
      BY <2>1, <2>3 DEF Paced
    <3>3. since[e] \in Nat /\ late[e] \in Nat
      OBVIOUS
    <3> QED
      BY ONLY <1>0, <2>2, <3>1, <3>2, <3>3, SMTT(200)
  <2>4. CASE e \notin fired
    <3>1. since[e] + ticker[e] <= 3 * Interval
      BY <2>1, <2>4 DEF Paced
    <3>2. CASE ticker[e] = 1
      BY <1>2, <2>1, <2>2, <2>4, <3>1, <3>2, SMTT(200) DEF Tick, Live
    <3>3. CASE ticker[e] # 1
      <4>1. e \notin fired' /\ ticker'[e] = ticker[e] - 1
        BY <1>2, <2>1, <2>4, <3>3 DEF Tick, Live
      <4>2. since[e] \in Nat /\ ticker[e] \in Nat
        OBVIOUS
      <4> QED
        BY ONLY <1>0, <2>2, <3>1, <4>1, <4>2, SMTT(200)
    <3> QED
      BY <3>2, <3>3
  <2> QED
    BY <2>3, <2>4
<1>3. ASSUME NEW d \in Ends, NewSession(d)
      PROVE  IF e \in fired' THEN since'[e] <= 3 * Interval + late'[e]
                             ELSE since'[e] + ticker'[e] <= 3 * Interval
  <2>1. CASE d = e
    BY <1>3, <2>1, SMTT(200) DEF NewSession, Ticking
  <2>2. CASE d # e
    BY <1>3, <2>2 DEF NewSession, Paced
  <2> QED
    BY <2>1, <2>2
<1>4. ASSUME NEW d \in Ends, TakeTick(d)
      PROVE  IF e \in fired' THEN since'[e] <= 3 * Interval + late'[e]
                             ELSE since'[e] + ticker'[e] <= 3 * Interval
  BY <1>4 DEF TakeTick, Paced, peerVars
<1>5. ASSUME NEW d \in Ends, probe(d)
      PROVE  IF e \in fired' THEN since'[e] <= 3 * Interval + late'[e]
                             ELSE since'[e] + ticker'[e] <= 3 * Interval
  <2>1. CASE d = e
    <3>1. since[e] <= 2 * Interval /\ since' = since /\ ticker' = ticker /\ late' = late
      BY <1>5, <2>1, SMTT(200) DEF probe, keepAliveTimeout
    <3>2. ticker[e] <= Interval
      BY <1>5, <2>1 DEF probe, Ticking
    <3> QED
      BY <3>1, <3>2, SMTT(200)
  <2>2. CASE d # e
    BY <1>5, <2>2 DEF probe, Paced, peerVars
  <2> QED
    BY <2>1, <2>2
<1>6. ASSUME NEW d \in Ends, ReadPing(d) \/ ReadPong(d) \/ ReadData(d) \/ Answer(d) \/ Send(d) \/ Delivered(d)
      PROVE  IF e \in fired' THEN since'[e] <= 3 * Interval + late'[e]
                             ELSE since'[e] + ticker'[e] <= 3 * Interval
  <2>1. UNCHANGED <<probeVars, started>> /\ gone \subseteq gone'
    BY <1>6 DEF ReadPing, ReadPong, ReadData, Answer, Send, Delivered, peerVars
  <2>2. \A b \in Ends : since'[b] \in {0, since[b]}
    BY <1>6 DEF ReadPing, ReadPong, ReadData, Answer, Send, Delivered, peerVars
  <2>3. ended' = ended
    BY <1>6 DEF ReadPing, ReadPong, ReadData, Answer, Send, Delivered, peerVars
  <2> QED
    BY <1>1, <2>1, <2>2, <2>3
<1>7. ASSUME NEW d \in Ends, LinkLost(d) \/ Vanish(d)
      PROVE  IF e \in fired' THEN since'[e] <= 3 * Interval + late'[e]
                             ELSE since'[e] + ticker'[e] <= 3 * Interval
  BY <1>1, <1>7 DEF LinkLost, Vanish, peerVars
<1>8. CASE UNCHANGED keepAliveVars
  BY <1>1, <1>8 DEF keepAliveVars, peerVars
<1> QED
  BY <1>2, <1>3, <1>4, <1>5, <1>6, <1>7, <1>8 DEF KeepAliveNext, Step

\* The inductive invariant holds of every behaviour.
LEMMA SilenceInductiveInv == KeepAliveSpec => []SilenceInv
<1>1. SilenceInv /\ [KeepAliveNext]_keepAliveVars => SilenceInv'
  BY KeepAliveTypeStep, TickingStep, PacedStep DEF SilenceInv
<1> QED
  BY SilenceInitInv, <1>1, PTL DEF KeepAliveSpec

\* Type correctness of the probes.
THEOREM KeepAliveTypeCorrect == KeepAliveSpec => []KeepAliveTypeOK
  BY SilenceInductiveInv, PTL DEF SilenceInv

\* Whatever the interval, the delays and the peer do, a session whose probe is not
\* held up in its write has had a sign of life within three intervals and a lag.
THEOREM SilenceBounded == KeepAliveSpec => []SilenceDetected
<1>1. SilenceInv => SilenceDetected
  <2> SUFFICES ASSUME SilenceInv, NEW e \in Ends, Running(e), e \notin probing
               PROVE  since[e] <= 3 * Interval + Lag
    BY DEF SilenceDetected
  <2>1. since[e] \in Nat /\ ticker[e] \in Nat /\ late[e] \in Nat /\ late[e] <= Lag
    BY DEF SilenceInv, KeepAliveTypeOK, Ticking
  <2>2. since[e] <= 3 * Interval + late[e] \/ since[e] + ticker[e] <= 3 * Interval
    BY DEF SilenceInv, Paced
  <2> QED
    BY ONLY KeepAliveAssumption, <2>1, <2>2, SMTT(200)
<1> QED
  BY SilenceInductiveInv, <1>1, PTL
=============================================================================
