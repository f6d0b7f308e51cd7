----------------------------- MODULE Revocation -----------------------------
(***************************************************************************)
(* The revocation manager (infrastructure/peer/security/revocation.go):    *)
(* Apply, VerifyChain, TrackConnection, the tracked connection's Close, the *)
(* expiry timer and its callback, Close, and a restart from the checkpoint *)
(* that the embedding program persisted.                                   *)
(*                                                                         *)
(* A signed CRL is its issuer's number, revoked serials and NextUpdate; a  *)
(* bundle is one CRL per issuer it covers.  Digests are compared only for  *)
(* equality, so a CRL stands for its hash and a checkpoint for its bundle  *)
(* hash.  A chain is the set of its certificates, each as the issuing CA   *)
(* and its serial, the root under itself.  Everything under the manager's  *)
(* mutex is one step; an error return changes nothing and is not a step.   *)
(***************************************************************************)
EXTENDS Integers, FiniteSets

CONSTANTS
    Issuers,      \* the certificate authorities
    Roots,        \* the configured trust roots
    Serials,      \* serial numbers
    Bundles,      \* the bundles the authorities have signed
    Conns,        \* connections
    Chain,        \* the verified chain of each connection's peer
    Appliers,     \* goroutines that may call Apply
    Environments, \* what the embedding program and the transports may do
    MaxRestarts   \* bound on crashes of the process

NoCRL == [number |-> 0 - 1, revoked |-> {}, next |-> 0]
CRLs == [number: Nat, revoked: SUBSET Serials, next: Nat]
Checkpoints == [Issuers -> CRLs \cup {NoCRL}]
Empty == [i \in Issuers |-> NoCRL]

ASSUME AuthorityAssumption ==
    /\ Roots \subseteq Issuers /\ Roots # {}
    /\ Bundles \subseteq Checkpoints
    /\ Chain \in [Conns -> SUBSET (Issuers \X Serials)]

\* An environment: the goroutines that apply bundles, the connections whose
\* transport does not close within the timeout, whether the program closes the
\* manager, and a bound on the clock.
ASSUME EnvironmentAssumption ==
    /\ Environments \subseteq [appliers: SUBSET Appliers, stalling: SUBSET Conns, mayClose: BOOLEAN, maxTime: Nat]
    /\ MaxRestarts \in Nat
    /\ "close" \notin Appliers /\ "expiry" \notin Appliers

\* The goroutines that fence connections, and wait for it.
Owners == Appliers \cup {"close", "expiry"}

VARIABLES
    env,         \* the environment, which never changes
    now,         \* the clock
    checkpoint,  \* the accepted CRLs, Empty before the first bundle
    active,      \* the tracked connections
    closed,      \* Close was called
    generation,  \* timerGeneration
    timer,       \* the armed expiry timer: its generation and time
    callbacks,   \* generations whose callback has started and has no lock yet
    conn,        \* "new", "verified", "tracked" or "closed"
    fencing,     \* the connections each goroutine has yet to fence
    adrift,      \* connections left to a fence that is stuck in a Close
    apc,         \* Apply: "idle", "fencing" or "returned"
    result,      \* the checkpoint Apply returned
    seenUnder,   \* the checkpoint under which a connection was tracked
    disk,        \* the checkpoint the embedding program persisted
    restarts,
    accepted,    \* history: the snapshots this process has had
    persisted    \* history: every checkpoint that was ever on the disk

managerVars == <<checkpoint, active, closed, generation, timer, callbacks>>
fenceVars == <<fencing, adrift>>
applyVars == <<apc, result>>
hostVars == <<env, now, disk, restarts, accepted, persisted>>
vars == <<managerVars, conn, seenUnder, fenceVars, applyVars, hostVars>>

NoTimer == [generation |-> 0, at |-> 0 - 1]

Covered(cp) == {i \in Issuers : cp[i] # NoCRL}
\* The earliest NextUpdate of a checkpoint that covers an issuer.
Earliest(cp) == CHOOSE t \in {cp[i].next : i \in Covered(cp)} : \A i \in Covered(cp) : t <= cp[i].next
Expired(cp) == \E i \in Covered(cp) : cp[i].next <= now

Init ==
    /\ env \in Environments
    /\ now = 0 /\ disk = Empty /\ restarts = 0
    /\ accepted = {Empty} /\ persisted = {Empty}
    /\ checkpoint = Empty /\ active = {} /\ closed = FALSE
    /\ generation = 0 /\ timer = NoTimer /\ callbacks = {}
    /\ conn = [c \in Conns |-> "new"]
    /\ seenUnder = [c \in Conns |-> Empty]
    /\ fencing = [o \in Owners |-> {}] /\ adrift = {}
    /\ apc = [a \in Appliers |-> "idle"]
    /\ result = [a \in Appliers |-> Empty]

-----------------------------------------------------------------------------
(* Bundles.                                                                  *)

\* One issuer's CRL against the one accepted before it: no rollback, no second
\* CRL of the same number, no serial un-revoked.
Advances(old, new) ==
    old # NoCRL => /\ new.number >= old.number
                   /\ new.number = old.number => new = old
                   /\ old.revoked \subseteq new.revoked

\* Faulty variant: serials may be dropped.
validateLockedDropping(b) ==
    /\ Roots \subseteq Covered(b)
    /\ \A i \in Covered(b) : b[i].next > now /\ (checkpoint[i] # NoCRL => b[i].number >= checkpoint[i].number)
    /\ Covered(checkpoint) # {} => Covered(b) = Covered(checkpoint)
\* validateLocked.  The union with the previous serials adds nothing to a CRL
\* that has dropped none.
validateLocked(b) ==
    /\ Roots \subseteq Covered(b)
    /\ \A i \in Covered(b) : b[i].next > now /\ Advances(checkpoint[i], b[i])
    /\ Covered(checkpoint) # {} => Covered(b) = Covered(checkpoint)

verifyLocked(c) ==
    /\ ~closed
    /\ Chain[c] # {} /\ Covered(checkpoint) # {} /\ ~Expired(checkpoint)
    /\ \A cert \in Chain[c] : checkpoint[cert[1]] # NoCRL /\ cert[2] \notin checkpoint[cert[1]].revoked

-----------------------------------------------------------------------------
(* Fencing: the goroutine that closes the connections one by one.            *)

\* fenceLocked takes over the connections its caller has taken from the manager.
BeginFence(o) == fencing' = [fencing EXCEPT ![o] = @ \cup active]

\* trackedConnection.Close, which also removes the entry, here of an older map.
FenceClose(o, c) ==
    /\ c \in fencing[o] \ env.stalling
    /\ fencing' = [fencing EXCEPT ![o] = @ \ {c}]
    /\ conn' = [conn EXCEPT ![c] = "closed"]
    /\ active' = active \ {c}
    /\ UNCHANGED <<checkpoint, closed, generation, timer, callbacks, seenUnder, adrift, applyVars, hostVars>>

\* A Close takes longer than the fence waits for; it and the ones behind it go on
\* with nobody waiting.
FenceTimeout(o) ==
    /\ fencing[o] \cap env.stalling # {}
    /\ fencing' = [fencing EXCEPT ![o] = {}]
    /\ adrift' = adrift \cup fencing[o]
    /\ UNCHANGED <<managerVars, conn, seenUnder, applyVars, hostVars>>
AdriftClose(c) ==
    /\ c \in adrift
    /\ adrift' = adrift \ {c}
    /\ conn' = [conn EXCEPT ![c] = "closed"]
    /\ UNCHANGED <<managerVars, seenUnder, fencing, applyVars, hostVars>>

-----------------------------------------------------------------------------
(* Apply.                                                                    *)

\* AfterFunc.  Stop does not stop a callback that has started.
afterFunc(g, cp) == [generation |-> g, at |-> IF Earliest(cp) < now THEN now ELSE Earliest(cp)]

\* Faulty variant: the manager's own generation is not advanced.
scheduleExpiryLockedStale(cp) == generation' = generation /\ timer' = afterFunc(generation + 1, cp)
scheduleExpiryLocked(cp) == generation' = generation + 1 /\ timer' = afterFunc(generation + 1, cp)

\* Faulty variant: the connections of the old snapshot are forgotten.
ApplyForgetting(a, b) ==
    /\ a \in env.appliers /\ apc[a] = "idle" /\ ~closed /\ validateLocked(b) /\ b # checkpoint
    /\ checkpoint' = b /\ scheduleExpiryLocked(b) /\ active' = {}
    /\ apc' = [apc EXCEPT ![a] = "fencing"] /\ result' = [result EXCEPT ![a] = b]
    /\ accepted' = accepted \cup {b}
    /\ UNCHANGED <<closed, callbacks, conn, seenUnder, fenceVars, env, now, disk, restarts, persisted>>
\* Apply of a changed snapshot, under the lock.
Apply(a, b) ==
    /\ a \in env.appliers /\ apc[a] = "idle" /\ ~closed /\ validateLocked(b) /\ b # checkpoint
    /\ BeginFence(a) /\ active' = {}
    /\ checkpoint' = b /\ scheduleExpiryLocked(b)
    /\ apc' = [apc EXCEPT ![a] = "fencing"] /\ result' = [result EXCEPT ![a] = b]
    /\ accepted' = accepted \cup {b}
    /\ UNCHANGED <<closed, callbacks, conn, seenUnder, adrift, env, now, disk, restarts, persisted>>

\* Apply of an exact repeat.
ApplyRepeat(a, b) ==
    /\ a \in env.appliers /\ apc[a] = "idle" /\ ~closed /\ validateLocked(b) /\ b = checkpoint
    /\ apc' = [apc EXCEPT ![a] = "returned"] /\ result' = [result EXCEPT ![a] = checkpoint]
    /\ UNCHANGED <<managerVars, conn, seenUnder, fenceVars, hostVars>>

\* Faulty variant: Apply does not wait for its fence.
ApplyReturnEarly(a) ==
    /\ apc[a] = "fencing"
    /\ apc' = [apc EXCEPT ![a] = "returned"]
    /\ UNCHANGED <<managerVars, conn, seenUnder, fenceVars, result, hostVars>>
\* The fence is done, or has timed out.
ApplyReturn(a) ==
    /\ apc[a] = "fencing" /\ fencing[a] = {}
    /\ apc' = [apc EXCEPT ![a] = "returned"]
    /\ UNCHANGED <<managerVars, conn, seenUnder, fenceVars, result, hostVars>>

\* The embedding program persists what Apply returned, and may apply again.
Persist(a) ==
    /\ apc[a] = "returned"
    /\ disk' = result[a] /\ persisted' = persisted \cup {result[a]}
    /\ apc' = [apc EXCEPT ![a] = "idle"]
    /\ UNCHANGED <<managerVars, conn, seenUnder, fenceVars, result, env, now, restarts, accepted>>

-----------------------------------------------------------------------------
(* Connections.                                                              *)

\* VerifyConnection of the TLS handshake.
VerifyChain(c) ==
    /\ conn[c] = "new" /\ verifyLocked(c)
    /\ conn' = [conn EXCEPT ![c] = "verified"]
    /\ UNCHANGED <<managerVars, seenUnder, fenceVars, applyVars, hostVars>>

\* Faulty variant: the handshake's verdict is trusted.
TrackUnchecked(c) ==
    /\ conn[c] = "verified" /\ ~closed
    /\ conn' = [conn EXCEPT ![c] = "tracked"] /\ active' = active \cup {c}
    /\ seenUnder' = [seenUnder EXCEPT ![c] = checkpoint]
    /\ UNCHANGED <<checkpoint, closed, generation, timer, callbacks, fenceVars, applyVars, hostVars>>
\* TrackConnection, after the handshake.
TrackConnection(c) ==
    /\ conn[c] = "verified" /\ verifyLocked(c)
    /\ conn' = [conn EXCEPT ![c] = "tracked"]
    /\ active' = active \cup {c}
    /\ seenUnder' = [seenUnder EXCEPT ![c] = checkpoint]
    /\ UNCHANGED <<checkpoint, closed, generation, timer, callbacks, fenceVars, applyVars, hostVars>>

\* TrackConnection refuses and the carrier drops the connection.
TrackRefused(c) ==
    /\ conn[c] = "verified" /\ ~verifyLocked(c)
    /\ conn' = [conn EXCEPT ![c] = "closed"]
    /\ UNCHANGED <<managerVars, seenUnder, fenceVars, applyVars, hostVars>>

\* trackedConnection.Close by the session: the transport, then the entry.
CloseTransport(c) ==
    /\ conn[c] = "tracked" /\ c \notin env.stalling
    /\ conn' = [conn EXCEPT ![c] = "closed"]
    /\ UNCHANGED <<managerVars, seenUnder, fenceVars, applyVars, hostVars>>
Forget(c) ==
    /\ conn[c] = "closed" /\ c \in active
    /\ active' = active \ {c}
    /\ UNCHANGED <<checkpoint, closed, generation, timer, callbacks, conn, seenUnder, fenceVars, applyVars, hostVars>>

-----------------------------------------------------------------------------
(* Expiry, Close, time and restarts.                                         *)

TimerFires ==
    /\ timer # NoTimer /\ now >= timer.at
    /\ callbacks' = callbacks \cup {timer.generation}
    /\ timer' = NoTimer
    /\ UNCHANGED <<checkpoint, active, closed, generation, conn, seenUnder, fenceVars, applyVars, hostVars>>

\* Faulty variant: the callback of a replaced timer fences as well.
ExpireAnyway(g) ==
    /\ g \in callbacks /\ callbacks' = callbacks \ {g}
    /\ BeginFence("expiry") /\ active' = {}
    /\ UNCHANGED <<checkpoint, closed, generation, timer, conn, seenUnder, adrift, applyVars, hostVars>>
\* The callback.  expiryTimer = nil is the NoTimer that TimerFires left.
Expire(g) ==
    /\ g \in callbacks /\ callbacks' = callbacks \ {g}
    /\ IF g = generation THEN BeginFence("expiry") /\ active' = {} ELSE UNCHANGED <<fencing, active>>
    /\ UNCHANGED <<checkpoint, closed, generation, timer, conn, seenUnder, adrift, applyVars, hostVars>>

\* Faulty variant: Close leaves the tracked connections.
CloseLeaving ==
    /\ env.mayClose /\ ~closed /\ closed' = TRUE
    /\ generation' = generation + 1 /\ timer' = NoTimer
    /\ UNCHANGED <<checkpoint, active, callbacks, conn, seenUnder, fenceVars, applyVars, hostVars>>
Close ==
    /\ env.mayClose /\ ~closed
    /\ closed' = TRUE
    /\ generation' = generation + 1 /\ timer' = NoTimer
    /\ BeginFence("close") /\ active' = {}
    /\ UNCHANGED <<checkpoint, callbacks, conn, seenUnder, adrift, applyVars, hostVars>>

Tick ==
    /\ now < env.maxTime
    /\ now' = now + 1
    /\ UNCHANGED <<managerVars, conn, seenUnder, fenceVars, applyVars, env, disk, restarts, accepted, persisted>>

\* Faulty variant: a restored checkpoint never expires.
restoredTimerNone == NoTimer
restoredTimer == IF disk = Empty THEN NoTimer ELSE afterFunc(1, disk)

\* Faulty variant: the program's checkpoint is not looked at.
restoredCheckpointNone == Empty
restoredCheckpoint == disk

\* The process dies with its connections and starts again: NewRevocationManager
\* with the persisted checkpoint, or without one.
Restart ==
    /\ restarts < MaxRestarts
    /\ restarts' = restarts + 1
    /\ checkpoint' = restoredCheckpoint /\ accepted' = {disk}
    /\ active' = {} /\ closed' = FALSE /\ callbacks' = {}
    /\ generation' = IF disk = Empty THEN 0 ELSE 1
    /\ timer' = restoredTimer
    /\ conn' = [c \in Conns |-> IF conn[c] = "new" THEN "new" ELSE "closed"]
    /\ fencing' = [o \in Owners |-> {}] /\ adrift' = {}
    /\ apc' = [a \in Appliers |-> "idle"]
    /\ UNCHANGED <<seenUnder, result, env, now, disk, persisted>>

ConnStep(c) == VerifyChain(c) \/ TrackConnection(c) \/ TrackRefused(c) \/ CloseTransport(c) \/ Forget(c) \/ AdriftClose(c)
FenceStep(o) == FenceTimeout(o) \/ \E c \in Conns : FenceClose(o, c)

Next ==
    \/ \E a \in Appliers : ApplyReturn(a) \/ Persist(a) \/ \E b \in Bundles : Apply(a, b) \/ ApplyRepeat(a, b)
    \/ \E c \in Conns : ConnStep(c)
    \/ \E o \in Owners : FenceStep(o)
    \/ \E g \in callbacks : Expire(g)
    \/ TimerFires \/ Close \/ Tick \/ Restart

Spec == Init /\ [][Next]_vars

\* The runtime fires a due timer and schedules its callback and the fences.
Fairness ==
    /\ WF_vars(TimerFires)
    /\ WF_vars(\E g \in callbacks : Expire(g))
    /\ \A o \in Owners : WF_vars(FenceStep(o))
FairSpec == Spec /\ Fairness

-----------------------------------------------------------------------------
\* Type correctness.  No timer and no callback is of a generation to come.
TypeOK ==
    /\ checkpoint \in Checkpoints /\ disk \in Checkpoints
    /\ result \in [Appliers -> Checkpoints] /\ seenUnder \in [Conns -> Checkpoints]
    /\ active \subseteq Conns /\ closed \in BOOLEAN
    /\ now \in Nat /\ restarts \in Nat /\ generation \in Nat
    /\ timer \in [generation: 0 .. generation, at: Int] /\ callbacks \subseteq 0 .. generation
    /\ conn \in [Conns -> {"new", "verified", "tracked", "closed"}]
    /\ fencing \in [Owners -> SUBSET Conns] /\ adrift \subseteq Conns
    /\ apc \in [Appliers -> {"idle", "fencing", "returned"}]
    /\ accepted \subseteq Checkpoints /\ persisted \subseteq Checkpoints

\* A connection that is tracked and open is known to the manager or is being
\* fenced: a handshake racing an update cannot escape the update fence
\* (TrackConnection's comment).
NoEscape ==
    \A c \in Conns : conn[c] = "tracked" => c \in active \cup adrift \/ \E o \in Owners : c \in fencing[o]

\* Every connection the manager knows was tracked under the current checkpoint,
\* which covers its chain and revokes none of it (Apply, TrackConnection).
ActiveIsCurrent ==
    \A c \in active :
        /\ seenUnder[c] = checkpoint /\ ~closed
        /\ \A cert \in Chain[c] : checkpoint[cert[1]] # NoCRL /\ cert[2] \notin checkpoint[cert[1]].revoked

\* When the checkpoint has expired, the expiry callback of this very checkpoint
\* is on its way for the connections that are left (scheduleExpiryLocked).
ExpiryIsArmed ==
    active # {} => (timer # NoTimer /\ timer.generation = generation /\ timer.at <= Earliest(checkpoint))
                      \/ generation \in callbacks

\* When Apply has returned, every connection established under another snapshot
\* is closed, unless its Close stalls or another goroutine had already taken it
\* from the manager and is still closing it (Apply's comment, fenceLocked).
FencedOnReturn ==
    \A a \in Appliers, c \in Conns :
        apc[a] = "returned" /\ conn[c] = "tracked" /\ result[a] = checkpoint =>
            seenUnder[c] = checkpoint \/ c \in adrift \/ \E o \in Owners \ {a} : c \in fencing[o]

\* The manager forgets an open connection only on a changed snapshot, on Close,
\* on expiry or on a restart: a replaced timer fences nothing (timerGeneration).
FencedForAReason ==
    [][\A c \in active \ active' : \/ conn[c] = "closed" \/ checkpoint' # checkpoint \/ closed' \/ Expired(checkpoint)
                                   \/ restarts' # restarts]_vars

\* No connection the manager keeps has a certificate in its chain that any
\* snapshot accepted since the process started revoked: no later one, from
\* whatever goroutine, lets it in again (validateLocked over many Apply calls,
\* fenceLocked, verifyLocked).
RevokedStaysOut ==
    \A c \in active, b \in accepted : \A cert \in Chain[c] : cert[2] \notin b[cert[1]].revoked

\* When one goroutine applies and persists, the manager is never behind a
\* checkpoint that was once on the disk, whatever crashes come in between: no
\* CRL number and no revoked serial is forgotten (CRLCheckpoint's comment).
PersistedIsKept ==
    (\A a, d \in env.appliers : a = d) =>
        \A cp \in persisted : \A i \in Issuers : Advances(cp[i], checkpoint[i])

\* A connection that outlives its checkpoint is closed, or left to a fence that
\* is stuck in a Close (expiry fence).
ExpiryCloses == \A c \in Conns : conn[c] = "tracked" /\ Expired(checkpoint) ~> conn[c] = "closed" \/ c \in adrift

\* Close closes every tracked connection, with the same exception.
CloseCloses == \A c \in Conns : conn[c] = "tracked" /\ closed ~> conn[c] = "closed" \/ c \in adrift
=============================================================================
