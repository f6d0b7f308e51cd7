# A verification of pluginprotocol in TLA+

pluginprotocol is a Go library that carries method calls and bidirectional
streams between two authenticated peers.  This directory holds TLA+ models of
its concurrent core, the TLC runs that check them on small instances, and TLAPS
proofs of the most important invariants for instances of every size.
`PROJECT.json` is the index: components, runs, the source lines behind every
definition, findings, hazards and theorems.

## 1. The system

| part | source | what it does |
| --- | --- | --- |
| session engine | `infrastructure/peer/conn` | one connection: unary calls and streams in both directions, a read loop, a goroutine per served call or stream, a pump per stream, keep-alive, teardown |
| frame codec | `infrastructure/peer/codec` | length-prefixed frames with size limits |
| revocation manager | `infrastructure/peer/security/revocation.go` | accepted CRLs, tracked connections, fencing on reload, expiry and close |
| TLS profile, identity | `infrastructure/peer/security` | mutual TLS, hooks into the revocation manager |
| carriers | `infrastructure/peer/{tcp,quic,unix,pipe}` | connections and listeners for the engine |
| router and registry | `application/peer` | method lookup, authorization, concurrency slots shared by all connections |
| domain | `domain/peer` | limits, errors, statuses, the interfaces between the parts |
| facade | `presentation/peer` | Dial, Listen, Sessions, configuration |
| wire messages | `infrastructure/peer/wire`, `proto` | generated protobuf code |

A carrier authenticates a connection (the TLS profile asks the revocation manager
to verify the chain, and again to track the connection) and hands the byte stream
to a `Session`.  The session's read loop dispatches frames: it settles the calls
and OpenStreams that wait, delivers stream messages, and asks the router to admit
inbound calls and streams, which are served by goroutines of their own.  Any
goroutine whose write fails runs `end()`, which cancels the session's context,
closes the transport, swaps the maps of pending work out under the mutex and
fails what it found there.

The state that matters: the maps `calls`, `opens`, `streams`, `inflight` of each
session with `ended` and `terminal`; the gates of the session and the slots of the
router; the two bounded queues, `finishErr` and the send state of each stream; the
checkpoint, the active set, the timer and its generation of the revocation manager.

What makes it hard: `end()` runs in several goroutines at once; a cancellation crosses a
reply; `deliver` blocks holding a lock that `finishStream` needs; the terminal frame of a
stream is written by another goroutine than its data; a handshake is verified under one
checkpoint and tracked under the next; a timer callback outlives `Stop`; the process dies
between Apply and the persisting of its result; one accept loop serves peers that never
finish their handshake; a cancelled Accept, the pipe's accept loop and Close meet over an
authenticated session; a probe races the answer it waits for; a crash leaves a socket file
behind.  The hazards of `PROJECT.json` list these at the lines where they bite.

## 2. The modules

| module | models |
| --- | --- |
| `UnaryCalls` | `Session.Call`, dispatch of call frames, the serving goroutine, `Close`, `end()`, both directions |
| `CallContract` | what `Session.Call` promises; `UnaryCalls` implements it |
| `Streams` | `OpenStream`, `followStreamContext`, the stream object, its pump, the serving goroutine, `Close`, `end()` |
| `KeepAlive` | the probes of two connected sessions in discrete time |
| `Revocation` | the revocation manager, its connections, its timer, restarts |
| `Endpoint` | `Server.Sessions` and `Close`, the listeners of the four carriers, the dialers |
| `UnixSocket` | the socket file of the Unix carrier, shared by several processes |
| `MC...` | instances for TLC |
| `UnaryCallsProofs`, `RevocationProofs` | theorems about `UnaryCalls`, among them the refinement, and about `Revocation` |
| `PeerProofs` | theorems about `Endpoint`, `UnixSocket` and `KeepAlive` |
| `StreamsProofs` | theorems about `Streams`, and the moves of its queues |
| `StreamOrderProofs`, then `StreamServeProofs` | more theorems about `Streams`, on top of `StreamsProofs` |
| `StreamEndProofs` | lemmas: how a stream ends at its client, and what the client has by then |
| `StreamFailureProofs` | the theorem on failures, on top of `StreamOrderProofs` and `StreamEndProofs` |

### Conventions

* Whatever happens under one mutex, or is one operation on a channel, is one step.  Two
  operations that another goroutine can come between are two steps.  A step of a goroutine
  that nobody else can observe is taken together with its neighbour; the comments say where.
* `wire[e]` is the sequence of frames that `e` has written and its peer has not read.  The
  carriers deliver bytes in order or fail, so frames are neither reordered nor duplicated.
  They are lost when the link fails (`LoseLink`), when the peer has closed, and when its
  read loop has stopped.  A write may fail once either transport is closed or the link is
  down; over a link that is down it may also seem to succeed.
* `ending[t]` is the cause with which goroutine `t` is inside `end()`.  `UnaryCalls` takes
  `end()` in three steps (cancel, close, swap and notify); `Streams` in two, since nothing
  in it depends on the closing of the transport as such.
* `env` (`net` in `KeepAlive`, `host` in `UnixSocket`) is chosen in `Init` and never
  changes.  It says what the applications and the network of a behaviour may do: which calls
  are issued, which payload sizes occur, who closes, whether the link fails.  One run thus
  covers several scenarios, and the theorems hold for every set of them.
* Payloads are the invocation they belong to, or the number of a message; sizes are classes.
  Errors are the ones the code tells apart.
* An operator under a comment "Faulty variant" is used by no action.  It is the definition
  below it with a plausible mistake, and documents which mistake the property named in
  `PROJECT.json` catches.
* Peers follow the protocol.  Frames that no conforming peer sends are left out.
* Outcomes are told apart by where they come from.  A handler's own error is "failed", also
  when it is ErrOverloaded, ErrUnauthorized or ErrConnectionClosed, which openCall sends
  through `StatusOf`: the caller then sees the status of a refusal, or of a session that
  ended, although its handler ran.  `CallContract` promises something of refusals by the
  engine or the router, not of statuses.
* The wire of `UnaryCalls` and `Streams` always has room.  A transport that is full is
  modelled in `KeepAlive` only.  So a write never waits in the engine's models,
  Session.Close included: see *Session.Close* in section 3.

### UnaryCalls

`pc[k]` follows `Session.Call`: `CallCheck`, `CallRegister`, `CallWrite`, then
`CallSettled` or `CallAbandon`, `CallNotifyCancelled`, and the deferred
`CallReturn`.  `outcome[k]` is the channel of capacity one.  The read loop is
`ReadOpenCall` and `TrackCall` (openCall before and after PrepareCall; a
cancellation cannot come between, as the same goroutine reads it, but other
goroutines' steps can), `ReadCallResult`, `ReadStreamEnd`, `ReadClose`, `ReadEOF`
and `ReadError`.  A served call is `HandlerReturn` (the handler, the router's
wrapper and the write of the reply) and `HandlerRelease` (the defers).  The history
variable `cancelRead` records which cancellations the serving side has read.

### Streams

A stream has an object at each end, `obj[s][e]`: the two queues, how the inbound queue was
closed (`inb`), the state of CloseSend (`csend`), `finishErr` (`fin`) and the pump.
`deliver` that finds the queue full leaves the read loop in "blocked", holding `inboundMu`;
a `finishStream` meanwhile records its error and the queue is closed when the lock is given
up.  `followStreamContext` is `FollowFind` (the look at the map), `Follow` (discard and
finish) and `FollowNotify`.  `hpc[s]` follows the serving goroutine: the handler, CloseSend
or the flush barrier, finishStream, the terminal frame, the gate.  `rend[s][e]` is the end
that Recv reported.

### Revocation

A CRL is a number, a set of serials and a NextUpdate; a checkpoint has one per issuer.
Hashes are only compared for equality, so the data stand for them.  `validateLocked` keeps
the conditions on numbers, serials, issuers and time; signatures and extensions are
properties of the bundles in `Bundles`.  `fencing[o]` is what goroutine `o` (an applier,
Close, the expiry callback) still has to close, `adrift` what it left behind when a Close
stalled beyond the five seconds.  `Restart` is a crash at any point followed by
NewRevocationManager with what was persisted.  The history variables `accepted` and
`persisted` are the snapshots that the process has had and the checkpoints that were ever on
the disk.  `Persist` is the embedding program, as the consumer guide asks of it.

### KeepAlive

Two ends, each with a probe loop and a read loop, and a transport that holds
`Capacity` frames each way.  `TakeTick` and `probe` are the two halves of an
iteration of probeLoop: the ping is written, which waits for room, and only then the
silence is measured.  `ReadPing` stores lastPong and leaves the read loop in the
write of the Pong (`Answer`); `ReadData` may leave it in `deliver`.  Timestamps are
kept as the time that has passed (`since`), which stops at a horizon beyond every
value it is compared with.  `Tick` lets time pass unless something may wait no longer
(`Urgent`): a probe loop runs within `Lag` of its tick, a frame is dispatched within
the network's delay, a write that has room happens at once.

### Endpoint

`at[g]` follows a goroutine: a Sessions call, with the Accept inside it, or the pipe's
accept loop.  TCP, Unix and QUIC accept and authenticate in the calling goroutine; on a pipe
Sessions offers a request (`TakeRequest`), waits for the answer (`RespondTaken`) and may
give up either (`RequestGivenUp`, `AwaitGivenUp`).  The steps that both kinds of goroutine
take are written once (`Check`, `AcceptConn`, `AuthenticateOK`, `AuthenticateFails`,
`StreamOK`, `StreamFails`).  Dial is `Dial`, `DialConnect`, `DialOK` or `DialFails`; on a
pipe it connects only while the accept loop is in its accept, and before that it is bounded
by its context alone.  `raw[g]` is the connection a goroutine holds, `conn[c]` its state at
this endpoint, `dial[c]` the Dial at its other end.  A peer is good, bad (refused here),
wary (refuses this endpoint), hasty (gives up), silent (never completes the handshake) or
mute (authenticates, and may never write).  A mute peer is a conforming one that makes no
call.  It matters on QUIC, where a stream is not seen at the other end before something is
written to it: Accept waits for it, until `MaxIdleTimeout` ends the connection or, if
`env.probing` says that KeepAlive keeps the connection alive, for as long as the peer stays
idle.

### UnixSocket

Every system call of Listen, removeStaleSocket and Close is a step of its own, as
other processes run between them.  `path` is the inode at the path, which is what
os.SameFile compares; a number is free again once its file and its socket are gone.
`host.exclusive` says that a supervisor starts one listener at a time.

## 3. The runs

| run | expected | asks |
| --- | --- | --- |
| `unary_disturbed` | pass | safety of calls in six environments, and the refinement of `CallContract` |
| `unary_closes` | pass | calls return and slots come back when either side closes |
| `unary_edge` | violated | do calls within the limits leave the session alive? |
| `streams_served` | pass | order, completeness and budgets of streams in fourteen environments |
| `streams_ending` | pass | everything that must come to an end does, with messages in flight and read loops blocked |
| `streams_cancelled` | violated | does a cancelled stream leave its session alive? |
| `streams_unacknowledged` | violated | is the router's slot returned when the peer disappears? |
| `streams_closed_then_failed` | violated | does a handler that half-closed and then failed complete? |
| `revocation_fences` | pass | reloads, handshakes, expiry, Close, a stalled transport, two appliers, a crash: safety and liveness |
| `endpoint_sessions` | pass | every carrier with every kind of peer: ownership, sessions for good peers, Dial, Close and cancellation end |
| `keepalive_probes` | pass | is silence detected, and never a live peer taken for dead? |
| `unix_path` | pass | three processes on one path, after crashes and closes |

### What the passing runs show

*Calls.*  `SettleNeverBlocks`: each call has at most one sender, so neither the read
loop nor `end()` blocks.  `NoStrandedCaller`: whoever waits on a closed transport is
about to be failed.  `OriginalCause`: all waiters see the first cause.
`BudgetExact`: gate and slots count exactly the invocations under way.
`CancelNotLost`: a cancellation that was read has reached its handler.
`ImplementsCallContract`: a call returns once, a result is its own handler's, a
refused call never ran.  `CloseReleasesCallers`, `BudgetReturned`: liveness.

*Streams.*  `InOrder`, `EOFAfterEverything`, `FailureAfterData`: what Recv reports,
and when.  `DeliverOnOpenQueue`: no send on a closed channel.  `AckComesFirst`,
`AnswerNeverBlocks`: the opening of a stream.  `GateExact`, `SlotsExactWhileUp`:
budgets.  `OrderlyStreamsEndNoSession`: streams that end on their own end no session.
`HandlerCompletes`: a handler that returned gives its budget back.  `CloseSendReturns`:
also when a failed write has stopped the pump it waits for.  `CancelStopsHandler`: a
cancelled caller stops its handler, whatever the two were sending.
`CloseReleasesEveryone`: a Close that has written its frame releases both sides, and no
stream stays registered.  The last two except an application that leaves its queue full
(`Deaf`): its read loop waits for it in `deliver` and reads neither the cancellation nor
the Close.  The run reaches this case on both sides, and both properties are violated
without the exception.

*Revocation.*  `NoEscape`, `ActiveIsCurrent`: a handshake cannot slip past a reload.
`ExpiryIsArmed`, `FencedForAReason`: the timer of the current checkpoint is armed, and
replaced timers fence nothing.  `FencedOnReturn`: Apply returns when the older connections
are closed, or stall, or are another goroutine's to close.  `RevokedStaysOut`: no connection
is kept whose chain some bundle accepted by this process revokes, however many bundles came
after it.  `PersistedIsKept`: with one applier, the manager is never behind a checkpoint
that was once on the disk, through any crashes.  `ExpiryCloses`, `CloseCloses`: liveness.

*Endpoint.*  `Owned`: a connection has exactly one owner from the socket to `serve`.
`DialsEnd`: the Dial of a good peer to a server that goes on serving ends with a session
at both ends, past bad, wary and hasty peers and past idle ones that are not kept alive;
every other Dial returns, unless it waits for a pipe on which nobody accepts any more.
`NothingServedAfterClose`: on a pipe.  `CloseStops`, `CancelStops`: Sessions and Close return.

*Keep-alive.*  `SilenceDetected`: a session has heard of its peer within three
intervals and the lag, or is in the write of a probe.  `NoFalseAlarm`: with answers,
lags and starts that together stay within one interval, no session is ended for
silence unless its peer is gone.

*The Unix socket.*  `ServingIsReachable`: with one listener starting at a time, the
one that serves is the one that clients reach.  `FailsForAReason`: a stale socket
stops nobody.

### What the violated runs show

Each is a disagreement between the code and a sentence of the repository, quoted in
the findings of `PROJECT.json`.

1. `streams_cancelled`.  The read loop finds a stream, the caller cancels it, and `deliver`
   then fails on the finished stream (ErrProtocolViolation); the read loop ends the session
   and everything else on it.  `dispatchScoped` says such a frame is ignored.
2. `streams_unacknowledged`.  `openStream` drops the router's handler when the
   acknowledgement cannot be written, and with it the slot the handler would have released.
3. `streams_closed_then_failed`.  After the handler's own CloseSend the pump is gone;
   `flushOutbound` queues a barrier and waits until the client cancels or the session ends.
4. `unary_edge`.  A result of exactly `MaxMessageBytes` does not fit into a frame of
   `MaxMessageBytes` once it is encoded, and the failed write ends the session.

A fifth disagreement is the exception of `CancelStopsHandler`: a handler that watches its
context and lets its queue fill up runs on "until the connection drops", which the comment
of `stream.Context` excludes.

More was seen while modelling and has no run.

*Streams and calls.*  CloseSend returns nil for a marker that was not written when the
caller cancels at that moment.  Recv reports ErrCanceled for a lost connection between
`end()`'s cancellation and its critical section.  A call may be refused as overloaded while
the last reply is being written.

*Session.Close.*  Close writes its frame under the writer's lock, without a deadline, and
closes the transport only afterwards.  When the peer does not read and the transport is
full, or another goroutine holds the lock in such a write, Close waits as long as they do,
although session.go:209 says that the transport is closed "immediately afterwards
regardless".  In the models `Close` is the step at which the write is over; nothing assumes
that it is ever taken, and `CloseReleasesCallers` and `CloseReleasesEveryone` speak of what
follows it.

*Revocation.*  Apply may return while the expiry callback is still closing the
connections of the old snapshot, although "any changed snapshot closes all sessions
established under the preceding snapshot before returning" (revocation.go:226).
`FencedOnReturn` excepts what another goroutine is fencing.

*Keep-alive.*  `probe` writes before the silence is measured, so a peer that stops
reading until the transport is full is never found silent.  Two read loops that write
Pongs into full transports wait for each other.  With answers slower than the
interval one missed probe may end a session (config.go:62 says two).

*Accept loops.*  Sessions of TCP, Unix and the plaintext profile does not return on
cancellation while it is blocked in accept (endpoint.go:150 says "until ctx is
cancelled"), and the next good peer is then dropped.  A silent peer holds the loop for
its handshake deadline, which is as long as that of the peers who wait behind it.  A
QUIC dialer that stays idle is invisible to Accept, which waits for its stream and serves
nobody else until `MaxIdleTimeout`; with KeepAlive set it waits as long as the dialer
does, also after Close.  A pipe's Dial to a server that accepts no more waits until its
context ends.  TCP,
Unix and QUIC may hand out a session after Close has returned; the pipe does not.  The
pipe takes every accept error for a closed listener, so Sessions returns nil.

*The Unix socket.*  Competing starts are not safe: the check and the removal are
two calls, a socket refuses connections between bind and listen, and Close unlinks by
name whatever is there, so that each competitor may remove another's file and all may
fail.

### Bounds

Two calls and one slot are enough for contention, and for a reply that meets another call's
ID; one call each way for the parity of IDs.  A queue depth of one makes every queue full
after one message, so two messages reach every blocked state; the theorems on order and ends
hold for every depth.  Two streams share one slot in one environment of `streams_served`;
elsewhere streams meet only in the read loop and in `end()`, and one is enough for the races
with them.  Two connections, two issuers and six bundles give a reload that revokes one
connection and keeps the other's chain valid, one that only extends the validity, two that
must be rejected once the others are accepted (a dropped serial, a reused number) and one
that never is acceptable (no CRL of the root); the clock passes the earliest NextUpdate.
One restart reaches every crash point once.  Two connections give every kind of peer next to
a good one, and two Sessions calls a cancelled one and its successor.  An interval of three
ticks with a lag of one tells an answer before, at and after a tick apart, and two frames
fill the transport with a ping and a Pong.  Three processes and four inodes give a listener
that serves, one that starts and one that closes or crashes, each with a file of its own and
one left over; the symmetry is sound because no process and no inode is named.
`CHECK_DEADLOCK FALSE` is set where a session that has ended, or has nothing to do, stops;
in `keepalive_probes` and `unix_path` deadlock is checked.

### Fairness

The goroutines that the runtime schedules go on: callers, read loops, pumps, serving
goroutines, `end()`, the timer and its callbacks, fences.  `UnaryCalls` and `Revocation`
assume weak fairness of each.  `Streams` assumes less, that one of them takes a step as
long as one of them can (`Runnable`); that is enough because no stream goes on for
ever.  A handler is only
assumed to return once its context is done or Recv has reported the end, as
`ServeStream` asks of it.  Applications named in `env.receiving` keep calling Recv.
Nothing is assumed of issuing, cancelling, closing, reloading, the link or the clock.
In `UnaryCalls` a read over a dead link may block for ever unless its own side closes
the transport.  The pump of a finished stream may return with items left.

In `Endpoint` the goroutines of the endpoint and of the dialers are scheduled and a Close
that was called runs to its end.  A handshake ends by its deadline: that the endpoint
refuses a peer which did not answer, and that a Dial fails when it is held up, are fair
steps for that reason; so is the end of an idle QUIC connection by `MaxIdleTimeout` where
KeepAlive does not prevent it.  Nothing is assumed of dialing, cancelling and closing, nor
that a mute peer ever writes.  `KeepAlive` states its real-time assumptions in `Urgent` and
has no fairness: both of its properties are safety.

## 4. The proofs

TLAPS proves the following for every set of calls, streams, environments, authorities,
bundles, connections and appliers that satisfies the named assumptions of the modules
(finite sets of calls and streams, positive limits, roots among the issuers).

*UnaryCallsProofs.*  `TypeCorrect` comes first.  `SettleNeverBlocks`,
`NoStrandedCaller` and `OriginalCause` are not inductive: that a waiting caller is
registered depends on who removed its entry.  `CallerInv` strengthens them, call by
call: a registered call has an empty channel; a waiting call is registered or has
exactly its outcome; an outcome that reports the session's end equals `terminal`;
once the transport is closed some goroutine is in the last stage of `end()` until the
entry is gone.  Steps fall into those that leave a call alone, those of the calling
goroutine, and those that settle calls (`CallingStep`, `SettlingStep`), with one case
per action above them.

The serving side has an invariant of its own, `ServedInv`.  On its caller's wire a call
is opened once and called off only behind that, under the ID of the call (`Route`); it
is not yet sent, on the wire, admitted by the read loop or served, and only one of
these; a handler whose context is live is in `inflight`, so the cancellation that is
still to be read will find it.  IDs keep the parity of the endpoint that gave them, so
a reply to one side's call is never taken for the cancellation of the other's.
`CancelNotLost` follows.  `BudgetExact` adds the cardinalities: every step that
takes or returns a slot adds or removes exactly one element of the set it counts.

`ContractImplemented` is the refinement: `Spec => ImplementsCallContract`.  The mapping
is the one of the run (`ContractCaller`, `ContractExec`, `ContractAnswer`).  A step of
the calling goroutine maps to `Issue`, `TurnAway`, `Return` or a stutter, the start of a
handler to `Execute` and its end to `Finish`.  What `Return` and `Execute` ask is not
visible at the caller when it returns: the reply was written by another process some
steps ago.  A third invariant, `AnsweredInv`, carries it along: IDs are never given twice
at an endpoint, and an answer on its way to a call, in its channel or returned by it is
true (`Told`): a result is that of the call's own handler, which has finished; a
refusal says that the call was read, is not served and never will be (`Refused`).

*StreamsProofs.*  `Base` is the types, `Locks` and `Opening`.  `Locks` says that a
blocked delivery has an open queue (`DeliverOnOpenQueue`), which holds only because a
finished stream has a closed queue unless the lock is taken (`Finished`) and the read
loop holds a message exactly while it delivers one (`Delivery`).  `Opening` follows each
OpenStream: its frame is on the wire at most once, a stream that is not served has had
no acknowledgement and no clean end, a registered OpenStream has an empty channel.
`AnswerNeverBlocks` is a part of it.

*StreamOrderProofs.*  `InOrder` and `EOFAfterEverything` speak of what has arrived and
depend on everything that is on its way.  The invariant is stated for each direction of
each stream.  `SendingOf`: the outbound queue holds the last messages sent, in order, and
then marks; nothing was sent before the stream was open.  `ReceivingOf`: what was received
and what is queued are numbered 1, 2, ...; a message in hand is the next one; a stream
that still takes messages finds on the wire exactly the numbers from the next one on, the
CloseSend counted as the last, and the queue of a live pump goes on where the wire
ends (`Continues`); a half-closed queue has had every message.  The wire may lose frames
only when nobody will read them (`Live`), which is why the queue need not continue a wire
that is down.  The proof separates what a move does to one direction (`SendMove`,
`PumpMove`, `TakeMove`, `HandMove`, `CloseMove`, `RecvMove`, `FreshMove` at the end of
`StreamsProofs`) from the actions, of which most leave every direction in peace
(`AtPeace`).

*StreamEndProofs, StreamFailureProofs.*  `FailureSafety` (`FailureAfterData`) follows the
failure of a handler from its return to the client's Recv, through three goroutines.
`Flushing` is the server's part: while `flushOutbound` waits, its barrier is the last item
of the queue, so when the pump has taken it the queue is empty and the pump still runs;
CloseSend, the other way for the pump to end, is not under way then.  `Announced` is the
wire's part: a frame that reports the failure is behind every frame of that stream, and as
long as the client takes messages everything that was sent and has not arrived is on the
wire ahead of it.  That rests on `ReceivingOf` above.  `Learnt` is the client's part: a
stream that ended with that failure has been handed all messages, and Recv reports it only
once the queue is empty.  Neither the end of the session nor a cancellation gives an open
stream this error, only the frame does; `StreamEndProofs` shows that of every action, and
that what the client has been handed stays.

*StreamServeProofs.*  `Counting` gives `GateExact`, the bound of the gate and
`SlotsExactWhileUp`; the slots are at least the running handlers always, and exactly as
many as long as both sides are up, since only an acknowledgement that cannot be written
loses one.  `Acknowledged` gives `AckComesFirst`: while an
OpenStream waits, whatever the stream carries is behind its acknowledgement on the wire,
and as long as the handler's frames arrive the acknowledgement is still there.

*RevocationProofs.*  `TypeCorrect` includes that no timer or callback has a
generation to come.  `NoEscape` and `ActiveIsCurrent` are inductive with it.
`RevokedForGood` needs `AcceptedBehind`: the current checkpoint is ahead of every snapshot
this process has had, which rests on `validateLocked` and the transitivity of `Advances`.
`NothingPersistedIsLost` needs `BehindManager`, that not only the disk but also every
result which an applier holds and has not yet persisted is behind the manager's
checkpoint, and `DiskGrows`, that with one applier the disk is ahead of everything that
was ever on it.

`FencedOnReturn` follows from the first two and from
`FenceAwaited`, that an applier which waits for no fence has none.  `ExpiryIsArmed` is
not inductive: `Armed` adds that the timer is of the current generation and never
early, that a callback of the current generation starts only when the checkpoint has
expired, and that a checkpoint which covers something has its timer, its callback or
has expired; a restored checkpoint that has expired is the case in between.
`FencedForAReason` needs the second of these and `Apart`: a connection in a fence is
never tracked again.

*PeerProofs, Endpoint.*  `Owned` is inductive with `Hands` (a goroutine holds a connection
only while it authenticates it, awaits its stream or hands it over), `Reached` (a
connection that was not made yet is not here) and `LoopOnly` (on a pipe only the accept
loop touches connections, and it has left before Close returns).
`NothingServedAfterClose` follows from the last of these.

*PeerProofs, KeepAlive.*  `SilenceDetected` rests on `Paced`: between two probes the silence
and what is left on the ticker are together at most three intervals, since the last probe
found at most two and its ticker had at most one to go; a tick that has fired adds the lag,
which `Ticking` bounds.

*PeerProofs, UnixSocket.*  `Exclusive` says of every process what it knows of the path between
two of its calls (`Knows`), that at most one owns the file (`Owner`) and that whoever has
found the path clear has nobody serving there (`Cleared`).

Only model-checked: `OrderlyStreamsEndNoSession` of `Streams`, `NoFalseAlarm`, and all
liveness properties.  Liveness is beyond this prover.  `OrderlyStreamsEndNoSession`
depends on which application stops receiving, and `NoFalseAlarm` on how the delays of a
probe add up over several intervals; their inductive invariants have not been found.

The leaves of the proofs name generous time limits for their provers.  Each needs a
small part of its limit; the limits keep a proof run from failing on a machine
that is busy.

## 5. What is not modelled

* The registry: two maps behind one mutex, filled before serving.  The router's slots
  across connections and in-process callers are a nondeterministic refusal here.
* The resolution of configurations and identities, the checks of endpoints and paths,
  and the tables of statuses and errors: pure functions without state, tested by
  enumeration in the repository.
* TLS and QUIC themselves, and what a certificate says: a handshake ends well, badly or
  at its deadline, and a chain is a set of issuers and serials.
* The byte layout of frames, beyond the size limit and truncation; generated code.
* Peers that violate the protocol; the wall clock being set back.
* Files at the Unix path that are not sockets, and directories that others may write:
  Listen returns an error and changes nothing.
