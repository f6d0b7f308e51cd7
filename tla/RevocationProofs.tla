-------------------------- MODULE RevocationProofs --------------------------
(***************************************************************************)
(* For every set of authorities, bundles, connections and appliers: the    *)
(* manager's variables keep their types, no tracked connection escapes the *)
(* fences, the connections it keeps satisfy the current checkpoint and     *)
(* every one accepted before it, nothing persisted by a single applier is  *)
(* lost, Apply returns with the older connections fenced, an expiry is     *)
(* always awaited and nothing is fenced without a reason.                  *)
(***************************************************************************)
EXTENDS Revocation, WellFoundedInduction, TLAPS

USE ZenonT(200)

USE DEF Covered

-----------------------------------------------------------------------------
(* Checkpoints.                                                              *)

\* The earliest NextUpdate of a checkpoint is one of its own and none is earlier
\* (scheduleExpiryLocked).
LEMMA EarliestIsFirst ==
    ASSUME NEW cp \in Checkpoints, Covered(cp) # {}
    PROVE  /\ \E i \in Covered(cp) : Earliest(cp) = cp[i].next
           /\ \A i \in Covered(cp) : Earliest(cp) <= cp[i].next
<1> DEFINE T == {cp[i].next : i \in Covered(cp)}
<1>1. T \subseteq Nat /\ T # {}
  BY DEF Checkpoints, CRLs
<1> DEFINE R == {ss \in Nat \X Nat : ss[1] < ss[2]}
<1>2. IsWellFoundedOn(R, Nat)
  BY NatLessThanWellFounded DEF OpToRel
<1>3. PICK t \in T : \A u \in T : <<u, t>> \notin R
  <2> HIDE DEF T, R
  <2> QED BY <1>1, <1>2, WFMin
<1>4. \A u \in T : ~(u < t)
  BY <1>1, <1>3
<1>5. ASSUME NEW i \in Covered(cp) PROVE t <= cp[i].next
  <2>1. cp[i].next \in T
    OBVIOUS
  <2>2. t \in Nat /\ cp[i].next \in Nat
    BY <1>1, <2>1
  <2>3. ~(cp[i].next < t)
    BY <1>4, <2>1
  <2> QED BY <2>2, <2>3, SMTT(200)
<1> QED BY <1>1, <1>5 DEF Earliest

LEMMA EarliestType ==
    ASSUME NEW cp \in Checkpoints, Covered(cp) # {}
    PROVE  Earliest(cp) \in Nat
BY EarliestIsFirst, SMTT(200) DEF Checkpoints, CRLs

\* A checkpoint has expired exactly from its earliest NextUpdate on.
LEMMA ExpiredFrom ==
    ASSUME NEW cp \in Checkpoints, Covered(cp) # {}, now \in Nat
    PROVE  Expired(cp) <=> Earliest(cp) <= now
<1>1. PICK i \in Covered(cp) : Earliest(cp) = cp[i].next
  BY EarliestIsFirst
<1>2. \A j \in Covered(cp) : cp[j].next \in Nat /\ Earliest(cp) <= cp[j].next
  BY EarliestIsFirst DEF Checkpoints, CRLs
<1> QED BY <1>1, <1>2, SMTT(200) DEF Expired

\* A non-empty checkpoint covers an issuer.
LEMMA EmptyCoversNothing ==
    ASSUME NEW cp \in Checkpoints, cp # Empty
    PROVE  Covered(cp) # {}
BY DEF Checkpoints, Empty

\* A CRL that advances an accepted one is there.
LEMMA AdvancesPresent ==
    ASSUME NEW old \in CRLs \cup {NoCRL}, NEW new \in CRLs \cup {NoCRL}, Advances(old, new), old # NoCRL
    PROVE  new # NoCRL
BY SMTT(200) DEF Advances, CRLs, NoCRL

\* Accepting CRLs one after the other is accepting the last over the first.
LEMMA AdvancesTransitive ==
    ASSUME NEW p \in CRLs \cup {NoCRL}, NEW q \in CRLs \cup {NoCRL}, NEW r \in CRLs \cup {NoCRL},
           Advances(p, q), Advances(q, r)
    PROVE  Advances(p, r)
<1> SUFFICES ASSUME p # NoCRL PROVE Advances(p, r)
  BY DEF Advances
<1>1. q # NoCRL /\ r # NoCRL
  BY AdvancesPresent
<1>2. p \in CRLs /\ q \in CRLs /\ r \in CRLs
  BY <1>1
<1> QED BY <1>1, <1>2, SMTT(200) DEF Advances, CRLs

LEMMA AdvancesReflexive ==
    ASSUME NEW p \in CRLs \cup {NoCRL}
    PROVE  Advances(p, p)
BY SMTT(200) DEF Advances, CRLs

\* A bundle that passes validateLocked advances every issuer of the checkpoint.
LEMMA ValidAdvances ==
    ASSUME checkpoint \in Checkpoints, NEW b \in Bundles, validateLocked(b)
    PROVE  \A i \in Issuers : Advances(checkpoint[i], b[i])
<1> SUFFICES ASSUME NEW i \in Issuers PROVE Advances(checkpoint[i], b[i])
  OBVIOUS
<1>1. CASE i \in Covered(b)
  BY <1>1 DEF validateLocked
<1>2. CASE i \notin Covered(b)
  <2>1. checkpoint[i] = NoCRL
    BY <1>2 DEF validateLocked
  <2> QED BY <2>1 DEF Advances
<1> QED BY <1>1, <1>2

-----------------------------------------------------------------------------
(* Type correctness.                                                         *)

LEMMA TimerType ==
    ASSUME now \in Nat, NEW g \in Nat, NEW cp \in Checkpoints, Covered(cp) # {}
    PROVE  afterFunc(g, cp) \in [generation: 0 .. g, at: Int]
<1>1. Earliest(cp) \in Nat
  BY EarliestType
<1> QED BY <1>1, SMTT(200) DEF afterFunc

LEMMA InitType == Init => TypeOK
<1> SUFFICES ASSUME Init PROVE TypeOK
  OBVIOUS
<1>1. Empty \in Checkpoints
  BY DEF Empty, Checkpoints
<1>2. NoTimer \in [generation: 0 .. 0, at: Int]
  BY SMTT(200) DEF NoTimer
<1> QED BY <1>1, <1>2 DEF Init, TypeOK

\* Every step of the manager, of the fences, of the connections and of the
\* embedding program keeps the types.
LEMMA NextType == TypeOK /\ [Next]_vars => TypeOK'
<1> SUFFICES ASSUME TypeOK, [Next]_vars PROVE TypeOK'
  OBVIOUS
<1> USE DEF TypeOK
<1>1. ASSUME NEW a \in Appliers, NEW b \in Bundles, Apply(a, b) PROVE TypeOK'
  <2>1. b \in Checkpoints /\ Covered(b) # {}
    BY <1>1, AuthorityAssumption DEF Apply, validateLocked
  <2>2. generation' = generation + 1 /\ timer' \in [generation: 0 .. generation', at: Int]
    BY <1>1, <2>1, TimerType, SMTT(200) DEF Apply, scheduleExpiryLocked
  <2>3. callbacks' \subseteq 0 .. generation'
    BY <1>1, <2>2, SMTT(200) DEF Apply
  <2> QED BY <1>1, <2>1, <2>2, <2>3, SMTT(200) DEF Apply, BeginFence, Owners, hostVars
<1>2. ASSUME NEW a \in Appliers, NEW b \in Bundles, ApplyRepeat(a, b) PROVE TypeOK'
  BY <1>2 DEF ApplyRepeat, managerVars, fenceVars, hostVars
<1>3. ASSUME NEW a \in Appliers, ApplyReturn(a) PROVE TypeOK'
  BY <1>3 DEF ApplyReturn, managerVars, fenceVars, hostVars
<1>4. ASSUME NEW a \in Appliers, Persist(a) PROVE TypeOK'
  BY <1>4 DEF Persist, managerVars, fenceVars, hostVars
<1>5. ASSUME NEW c \in Conns, ConnStep(c) PROVE TypeOK'
  <2> USE DEF managerVars, fenceVars, applyVars, hostVars
  <2>1. CASE VerifyChain(c)
    BY <2>1 DEF VerifyChain
  <2>2. CASE TrackConnection(c)
    BY <2>2 DEF TrackConnection
  <2>3. CASE TrackRefused(c)
    BY <2>3 DEF TrackRefused
  <2>4. CASE CloseTransport(c)
    BY <2>4 DEF CloseTransport
  <2>5. CASE Forget(c)
    BY <2>5 DEF Forget
  <2>6. CASE AdriftClose(c)
    BY <2>6 DEF AdriftClose
  <2> QED BY <1>5, <2>1, <2>2, <2>3, <2>4, <2>5, <2>6 DEF ConnStep
<1>6. ASSUME NEW o \in Owners, FenceStep(o) PROVE TypeOK'
  <2>1. CASE FenceTimeout(o)
    BY <2>1 DEF FenceTimeout, managerVars, applyVars, hostVars
  <2>2. ASSUME NEW c \in Conns, FenceClose(o, c) PROVE TypeOK'
    BY <2>2 DEF FenceClose, applyVars, hostVars
  <2> QED BY <1>6, <2>1, <2>2 DEF FenceStep
<1>7. ASSUME NEW g \in callbacks, Expire(g) PROVE TypeOK'
  <2>1. fencing' \in [Owners -> SUBSET Conns] /\ active' \subseteq Conns
    BY <1>7, SMTT(200) DEF Expire, BeginFence, Owners
  <2> QED BY <1>7, <2>1 DEF Expire, applyVars, hostVars
<1>8. CASE TimerFires
  <2>1. generation' = generation /\ timer' \in [generation: 0 .. generation, at: Int]
    BY <1>8, SMTT(200) DEF TimerFires, NoTimer
  <2>2. callbacks' \subseteq 0 .. generation
    BY <1>8 DEF TimerFires
  <2> QED BY <1>8, <2>1, <2>2 DEF TimerFires, fenceVars, applyVars, hostVars
<1>9. CASE Close
  BY <1>9, SMTT(200) DEF Close, NoTimer, BeginFence, Owners, applyVars, hostVars
<1>10. CASE Tick
  BY <1>10, SMTT(200) DEF Tick, managerVars, fenceVars, applyVars
<1>11. CASE Restart
  <2>1. generation' \in {0, 1} /\ (disk # Empty => generation' = 1)
    BY <1>11 DEF Restart
  <2>2. timer' \in [generation: 0 .. generation', at: Int]
    <3>1. CASE disk = Empty
      BY <1>11, <2>1, <3>1, SMTT(200) DEF Restart, restoredTimer, NoTimer
    <3>2. CASE disk # Empty
      BY <1>11, <2>1, <3>2, EmptyCoversNothing, TimerType DEF Restart, restoredTimer
    <3> QED BY <3>1, <3>2
  <2>3. conn' \in [Conns -> {"new", "verified", "tracked", "closed"}]
    BY <1>11 DEF Restart
  <2>4. apc' \in [Appliers -> {"idle", "fencing", "returned"}] /\ fencing' \in [Owners -> SUBSET Conns]
    BY <1>11 DEF Restart
  <2>5. /\ checkpoint' \in Checkpoints /\ disk' \in Checkpoints /\ active' = {} /\ closed' \in BOOLEAN
        /\ result' = result /\ seenUnder' = seenUnder /\ now' = now /\ callbacks' = {} /\ adrift' = {}
    BY <1>11 DEF Restart, restoredCheckpoint
  <2>6. restarts' \in Nat /\ generation' \in Nat
    BY <1>11, <2>1, SMTT(200) DEF Restart
  <2>7. accepted' \subseteq Checkpoints /\ persisted' \subseteq Checkpoints
    BY <1>11 DEF Restart
  <2> QED BY <2>2, <2>3, <2>4, <2>5, <2>6, <2>7
<1>12. CASE UNCHANGED vars
  BY <1>12 DEF vars, managerVars, fenceVars, applyVars, hostVars
<1> QED BY <1>1, <1>2, <1>3, <1>4, <1>5, <1>6, <1>7, <1>8, <1>9, <1>10, <1>11, <1>12 DEF Next

\* The manager's state keeps its types, and no timer or callback is of a
\* generation to come.
THEOREM TypeCorrect == Spec => []TypeOK
BY InitType, NextType, PTL DEF Spec

-----------------------------------------------------------------------------
(* Fencing.                                                                  *)

\* A step that moves the active connections into one fence loses none of them.
LEMMA FenceTakesOver ==
    ASSUME TypeOK, NoEscape, NEW o \in Owners, BeginFence(o), UNCHANGED <<conn, adrift>>
    PROVE  NoEscape'
<1>1. \A p \in Owners : fencing[p] \subseteq fencing'[p]
  BY DEF BeginFence, TypeOK
<1>2. active \subseteq fencing'[o]
  BY DEF BeginFence, TypeOK
<1> QED BY <1>1, <1>2 DEF NoEscape

LEMMA NextNoEscape == TypeOK /\ NoEscape /\ [Next]_vars => NoEscape'
<1> SUFFICES ASSUME TypeOK, NoEscape, [Next]_vars PROVE NoEscape'
  OBVIOUS
<1>1. ASSUME NEW a \in Appliers, NEW b \in Bundles, Apply(a, b) PROVE NoEscape'
  BY <1>1, FenceTakesOver DEF Apply, Owners
<1>2. ASSUME UNCHANGED <<conn, active, fencing, adrift>> PROVE NoEscape'
  BY <1>2 DEF NoEscape
<1>3. ASSUME NEW a \in Appliers, ApplyReturn(a) \/ Persist(a) \/ \E b \in Bundles : ApplyRepeat(a, b)
      PROVE  NoEscape'
  BY <1>2, <1>3 DEF ApplyRepeat, ApplyReturn, Persist, managerVars, fenceVars
<1>4. ASSUME NEW c \in Conns, ConnStep(c) PROVE NoEscape'
  <2> USE DEF NoEscape, TypeOK
  <2>1. CASE VerifyChain(c)
    BY <2>1 DEF VerifyChain, managerVars, fenceVars
  <2>2. CASE TrackConnection(c)
    BY <2>2 DEF TrackConnection, fenceVars
  <2>3. CASE TrackRefused(c)
    BY <2>3 DEF TrackRefused, managerVars, fenceVars
  <2>4. CASE CloseTransport(c)
    BY <2>4 DEF CloseTransport, managerVars, fenceVars
  <2>5. CASE Forget(c)
    BY <2>5 DEF Forget, fenceVars
  <2>6. CASE AdriftClose(c)
    BY <2>6 DEF AdriftClose, managerVars
  <2> QED BY <1>4, <2>1, <2>2, <2>3, <2>4, <2>5, <2>6 DEF ConnStep
<1>5. ASSUME NEW o \in Owners, FenceStep(o) PROVE NoEscape'
  <2>1. CASE FenceTimeout(o)
    <3>1. \A p \in Owners : fencing[p] \subseteq fencing'[p] \cup adrift'
      BY <2>1 DEF FenceTimeout, TypeOK
    <3> QED BY <2>1, <3>1 DEF FenceTimeout, NoEscape, managerVars
  <2>2. ASSUME NEW c \in Conns, FenceClose(o, c) PROVE NoEscape'
    <3>1. \A p \in Owners : fencing[p] \subseteq fencing'[p] \cup {c}
      BY <2>2 DEF FenceClose, TypeOK
    <3>2. active \subseteq active' \cup {c} /\ adrift' = adrift
      BY <2>2 DEF FenceClose
    <3>3. \A d \in Conns : conn'[d] = "tracked" => conn[d] = "tracked" /\ d # c
      BY <2>2 DEF FenceClose, TypeOK
    <3> QED BY <3>1, <3>2, <3>3 DEF NoEscape
  <2> QED BY <1>5, <2>1, <2>2 DEF FenceStep
<1>6. ASSUME NEW g \in callbacks, Expire(g) PROVE NoEscape'
  <2>1. CASE g = generation
    BY <1>6, <2>1, FenceTakesOver DEF Expire, Owners
  <2>2. CASE g # generation
    BY <1>2, <1>6, <2>2 DEF Expire
  <2> QED BY <2>1, <2>2
<1>7. CASE Close
  BY <1>7, FenceTakesOver DEF Close, Owners
<1>8. CASE TimerFires \/ Tick
  BY <1>2, <1>8 DEF TimerFires, Tick, managerVars, fenceVars
<1>9. CASE Restart
  BY <1>9 DEF Restart, NoEscape
<1>10. CASE UNCHANGED vars
  BY <1>2, <1>10 DEF vars, managerVars, fenceVars
<1> QED BY <1>1, <1>3, <1>4, <1>5, <1>6, <1>7, <1>8, <1>9, <1>10 DEF Next

\* A connection that raced an update, an expiry or Close is fenced with the rest.
THEOREM NobodyEscapes == Spec => []NoEscape
<1>1. Init => NoEscape
  BY DEF Init, NoEscape
<1> QED BY <1>1, TypeCorrect, NextNoEscape, PTL DEF Spec

\* The connections the manager keeps have passed the current checkpoint.
THEOREM KeptUnderCurrent == Spec => []ActiveIsCurrent
<1>1. Init => ActiveIsCurrent
  BY DEF Init, ActiveIsCurrent
<1>2. TypeOK /\ ActiveIsCurrent /\ [Next]_vars => ActiveIsCurrent'
  <2> SUFFICES ASSUME TypeOK, ActiveIsCurrent, [Next]_vars PROVE ActiveIsCurrent'
    OBVIOUS
  <2>1. ASSUME active' = {} PROVE ActiveIsCurrent'
    BY <2>1 DEF ActiveIsCurrent
  <2>2. ASSUME active' \subseteq active, UNCHANGED <<checkpoint, closed, seenUnder>> PROVE ActiveIsCurrent'
    BY <2>2 DEF ActiveIsCurrent
  <2>3. ASSUME NEW a \in Appliers, NEW b \in Bundles, Apply(a, b) PROVE ActiveIsCurrent'
    BY <2>1, <2>3 DEF Apply
  <2>4. ASSUME NEW a \in Appliers, ApplyReturn(a) \/ Persist(a) \/ \E b \in Bundles : ApplyRepeat(a, b)
        PROVE  ActiveIsCurrent'
    BY <2>2, <2>4 DEF ApplyRepeat, ApplyReturn, Persist, managerVars
  <2>5. ASSUME NEW c \in Conns, TrackConnection(c) PROVE ActiveIsCurrent'
    <3>1. active' = active \cup {c} /\ checkpoint' = checkpoint /\ closed' = closed /\ ~closed
      BY <2>5 DEF TrackConnection, verifyLocked
    <3>2. seenUnder' = [seenUnder EXCEPT ![c] = checkpoint] /\ seenUnder \in [Conns -> Checkpoints] /\ active \subseteq Conns
      BY <2>5 DEF TrackConnection, TypeOK
    <3>3. \A cert \in Chain[c] : checkpoint[cert[1]] # NoCRL /\ cert[2] \notin checkpoint[cert[1]].revoked
      BY <2>5 DEF TrackConnection, verifyLocked
    <3> QED BY <3>1, <3>2, <3>3 DEF ActiveIsCurrent
  <2>6. ASSUME NEW c \in Conns, ConnStep(c) PROVE ActiveIsCurrent'
    BY <2>2, <2>5, <2>6 DEF ConnStep, VerifyChain, TrackRefused, CloseTransport, Forget, AdriftClose, managerVars
  <2>7. ASSUME NEW o \in Owners, FenceStep(o) PROVE ActiveIsCurrent'
    BY <2>2, <2>7 DEF FenceStep, FenceTimeout, FenceClose, managerVars
  <2>8. ASSUME NEW g \in callbacks, Expire(g) PROVE ActiveIsCurrent'
    BY <2>1, <2>2, <2>8 DEF Expire
  <2>9. CASE Close \/ Restart
    BY <2>1, <2>9 DEF Close, Restart
  <2>10. CASE TimerFires \/ Tick
    BY <2>2, <2>10 DEF TimerFires, Tick, managerVars
  <2>11. CASE UNCHANGED vars
    BY <2>2, <2>11 DEF vars, managerVars
  <2> QED BY <2>3, <2>4, <2>6, <2>7, <2>8, <2>9, <2>10, <2>11 DEF Next
<1> QED BY <1>1, <1>2, TypeCorrect, PTL DEF Spec

\* An applier that is not waiting for a fence has none.
FenceAwaited == \A a \in Appliers : apc[a] # "fencing" => fencing[a] = {}

LEMMA NextFenceAwaited == TypeOK /\ FenceAwaited /\ [Next]_vars => FenceAwaited'
<1> SUFFICES ASSUME TypeOK, FenceAwaited, [Next]_vars PROVE FenceAwaited'
  OBVIOUS
<1>1. ASSUME apc' = apc, \A a \in Appliers : fencing'[a] \subseteq fencing[a] PROVE FenceAwaited'
  BY <1>1 DEF FenceAwaited
<1>2. ASSUME NEW a \in Appliers, NEW b \in Bundles, Apply(a, b) PROVE FenceAwaited'
  <2>1. apc' = [apc EXCEPT ![a] = "fencing"] /\ fencing' = [fencing EXCEPT ![a] = @ \cup active]
    BY <1>2 DEF Apply, BeginFence
  <2> QED BY <2>1, SMTT(200) DEF FenceAwaited, TypeOK
<1>3. ASSUME NEW a \in Appliers, ApplyReturn(a) \/ Persist(a) \/ \E b \in Bundles : ApplyRepeat(a, b)
      PROVE  FenceAwaited'
  <2>1. fencing' = fencing /\ fencing[a] = {}
    BY <1>3 DEF ApplyReturn, Persist, ApplyRepeat, fenceVars, FenceAwaited
  <2>2. \A o \in Appliers \ {a} : apc'[o] = apc[o]
    BY <1>3 DEF ApplyReturn, Persist, ApplyRepeat, TypeOK
  <2> QED BY <2>1, <2>2 DEF FenceAwaited
<1>4. ASSUME NEW c \in Conns, ConnStep(c) PROVE FenceAwaited'
  BY <1>1, <1>4 DEF ConnStep, VerifyChain, TrackConnection, TrackRefused, CloseTransport, Forget, AdriftClose,
                    fenceVars, applyVars
<1>5. ASSUME NEW o \in Owners, FenceStep(o) PROVE FenceAwaited'
  <2>1. apc' = apc /\ \A p \in Owners : fencing'[p] \subseteq fencing[p]
    BY <1>5, SMTT(200) DEF FenceStep, FenceTimeout, FenceClose, applyVars, TypeOK
  <2> QED BY <1>1, <2>1 DEF Owners
<1>6. ASSUME NEW o \in {"close", "expiry"}, BeginFence(o), apc' = apc PROVE FenceAwaited'
  <2>1. \A a \in Appliers : fencing'[a] = fencing[a]
    BY <1>6, EnvironmentAssumption DEF BeginFence, TypeOK, Owners
  <2> QED BY <1>1, <1>6, <2>1
<1>7. ASSUME NEW g \in callbacks, Expire(g) PROVE FenceAwaited'
  <2>1. apc' = apc
    BY <1>7 DEF Expire, applyVars
  <2>2. CASE g = generation
    BY <1>6, <1>7, <2>1, <2>2 DEF Expire
  <2>3. CASE g # generation
    BY <1>1, <1>7, <2>1, <2>3 DEF Expire
  <2> QED BY <2>2, <2>3
<1>8. CASE Close
  BY <1>6, <1>8 DEF Close, applyVars
<1>9. CASE TimerFires \/ Tick \/ UNCHANGED vars
  BY <1>1, <1>9 DEF TimerFires, Tick, vars, fenceVars, applyVars
<1>10. CASE Restart
  BY <1>10 DEF Restart, FenceAwaited, Owners
<1> QED BY <1>2, <1>3, <1>4, <1>5, <1>7, <1>8, <1>9, <1>10 DEF Next

\* Apply returns with the connections of other snapshots closed, with its two exceptions.
THEOREM FencedBeforeReturn == Spec => []FencedOnReturn
<1>1. Init => FenceAwaited
  BY DEF Init, FenceAwaited, Owners
<1>2. NoEscape /\ ActiveIsCurrent /\ FenceAwaited => FencedOnReturn
  <2> SUFFICES ASSUME NoEscape, ActiveIsCurrent, FenceAwaited,
                      NEW a \in Appliers, NEW c \in Conns, apc[a] = "returned", conn[c] = "tracked"
               PROVE  seenUnder[c] = checkpoint \/ c \in adrift \/ \E o \in Owners \ {a} : c \in fencing[o]
    BY DEF FencedOnReturn
  <2>1. fencing[a] = {}
    BY DEF FenceAwaited
  <2>2. c \in active => seenUnder[c] = checkpoint
    BY DEF ActiveIsCurrent
  <2>3. c \in active \cup adrift \/ \E o \in Owners : c \in fencing[o]
    BY DEF NoEscape
  <2> QED BY <2>1, <2>2, <2>3
<1> QED BY <1>1, <1>2, TypeCorrect, NobodyEscapes, KeptUnderCurrent, NextFenceAwaited, PTL DEF Spec

-----------------------------------------------------------------------------
(* Monotonicity.                                                             *)

\* Every issuer's CRL in q advances the one in p.
Behind(p, q) == \A i \in Issuers : Advances(p[i], q[i])

LEMMA BehindTransitive ==
    ASSUME NEW p \in Checkpoints, NEW q \in Checkpoints, NEW r \in Checkpoints, Behind(p, q), Behind(q, r)
    PROVE  Behind(p, r)
<1> SUFFICES ASSUME NEW i \in Issuers PROVE Advances(p[i], r[i])
  BY DEF Behind
<1>1. p[i] \in CRLs \cup {NoCRL} /\ q[i] \in CRLs \cup {NoCRL} /\ r[i] \in CRLs \cup {NoCRL}
  BY DEF Checkpoints
<1> QED BY <1>1, AdvancesTransitive DEF Behind

LEMMA BehindReflexive ==
    ASSUME NEW p \in Checkpoints
    PROVE  Behind(p, p)
BY AdvancesReflexive DEF Behind, Checkpoints

\* What a changed Apply accepts is ahead of the manager's checkpoint.
LEMMA ApplyAdvances ==
    ASSUME TypeOK, NEW a \in Appliers, NEW b \in Bundles, Apply(a, b)
    PROVE  /\ checkpoint' = b /\ b \in Checkpoints /\ checkpoint \in Checkpoints /\ Behind(checkpoint, b)
           /\ \A p \in Checkpoints : Behind(p, checkpoint) => Behind(p, b)
<1>1. checkpoint' = b /\ b \in Checkpoints /\ checkpoint \in Checkpoints /\ validateLocked(b)
  BY AuthorityAssumption DEF Apply, TypeOK
<1>2. Behind(checkpoint, b)
  BY <1>1, ValidAdvances DEF Behind
<1> QED BY <1>1, <1>2, BehindTransitive

\* Nothing this process has accepted is ahead of the checkpoint.
AcceptedBehind == \A b \in accepted : Behind(b, checkpoint)

LEMMA NextAcceptedBehind == TypeOK /\ AcceptedBehind /\ [Next]_vars => AcceptedBehind'
<1> SUFFICES ASSUME TypeOK, AcceptedBehind, [Next]_vars PROVE AcceptedBehind'
  OBVIOUS
<1>1. ASSUME NEW a \in Appliers, NEW b \in Bundles, Apply(a, b) PROVE AcceptedBehind'
  <2>1. accepted' = accepted \cup {b} /\ accepted \subseteq Checkpoints
    BY <1>1 DEF Apply, TypeOK
  <2>2. \A p \in accepted : Behind(p, b)
    BY <1>1, <2>1, ApplyAdvances DEF AcceptedBehind
  <2>3. checkpoint' = b /\ Behind(b, b)
    BY <1>1, ApplyAdvances, BehindReflexive
  <2> QED BY <2>1, <2>2, <2>3 DEF AcceptedBehind, Behind
<1>2. ASSUME UNCHANGED <<accepted, checkpoint>> PROVE AcceptedBehind'
  BY <1>2 DEF AcceptedBehind, Behind
<1>3. ASSUME NEW a \in Appliers, ApplyReturn(a) \/ Persist(a) \/ \E b \in Bundles : ApplyRepeat(a, b)
      PROVE  AcceptedBehind'
  BY <1>2, <1>3 DEF ApplyRepeat, ApplyReturn, Persist, managerVars, hostVars
<1>4. ASSUME NEW c \in Conns, ConnStep(c) PROVE AcceptedBehind'
  BY <1>2, <1>4 DEF ConnStep, VerifyChain, TrackConnection, TrackRefused, CloseTransport, Forget, AdriftClose,
                    managerVars, hostVars
<1>5. ASSUME NEW o \in Owners, FenceStep(o) PROVE AcceptedBehind'
  BY <1>2, <1>5 DEF FenceStep, FenceTimeout, FenceClose, managerVars, hostVars
<1>6. ASSUME NEW g \in callbacks, Expire(g) PROVE AcceptedBehind'
  BY <1>2, <1>6 DEF Expire, hostVars
<1>7. CASE TimerFires \/ Close \/ Tick \/ UNCHANGED vars
  BY <1>2, <1>7 DEF TimerFires, Close, Tick, vars, managerVars, hostVars
<1>8. CASE Restart
  <2>1. checkpoint' = disk /\ accepted' = {disk} /\ Behind(disk, disk)
    BY <1>8, BehindReflexive DEF Restart, restoredCheckpoint, TypeOK
  <2> QED BY <2>1 DEF AcceptedBehind, Behind
<1> QED BY <1>1, <1>3, <1>4, <1>5, <1>6, <1>7, <1>8 DEF Next

\* A serial that any accepted bundle revoked keeps its holder out for as long as
\* the process lives, for any number of bundles and of appliers.
THEOREM RevokedForGood == Spec => []RevokedStaysOut
<1>1. Init => AcceptedBehind
  <2>1. Empty \in Checkpoints
    BY DEF Empty, Checkpoints
  <2> QED BY <2>1, BehindReflexive DEF Init, AcceptedBehind
<1>2. TypeOK /\ ActiveIsCurrent /\ AcceptedBehind => RevokedStaysOut
  <2> SUFFICES ASSUME TypeOK, ActiveIsCurrent, AcceptedBehind,
                      NEW c \in active, NEW b \in accepted, NEW cert \in Chain[c]
               PROVE  cert[2] \notin b[cert[1]].revoked
    BY DEF RevokedStaysOut
  <2>1. cert[2] \notin checkpoint[cert[1]].revoked
    BY DEF ActiveIsCurrent
  <2>2. cert[1] \in Issuers
    <3>1. Chain[c] \subseteq Issuers \X Serials
      BY AuthorityAssumption DEF TypeOK
    <3> QED BY <3>1, SMTT(200)
  <2>3. Advances(b[cert[1]], checkpoint[cert[1]])
    BY <2>2 DEF AcceptedBehind, Behind
  <2>4. CASE b[cert[1]] = NoCRL
    <3>1. NoCRL.revoked = {}
      BY DEF NoCRL
    <3> QED BY <2>4, <3>1
  <2>5. CASE b[cert[1]] # NoCRL
    BY <2>1, <2>3, <2>5 DEF Advances
  <2> QED BY <2>4, <2>5
<1> QED BY <1>1, <1>2, TypeCorrect, KeptUnderCurrent, NextAcceptedBehind, PTL DEF Spec

-----------------------------------------------------------------------------
(* The persisted checkpoint.                                                 *)

\* Neither the disk nor what a running Apply is about to return for the disk is
\* ahead of the manager.
BehindManager ==
    /\ Behind(disk, checkpoint)
    /\ \A a \in Appliers : apc[a] # "idle" => Behind(result[a], checkpoint)

LEMMA NextBehindManager == TypeOK /\ BehindManager /\ [Next]_vars => BehindManager'
<1> SUFFICES ASSUME TypeOK, BehindManager, [Next]_vars PROVE BehindManager'
  OBVIOUS
<1> disk \in Checkpoints /\ checkpoint \in Checkpoints /\ result \in [Appliers -> Checkpoints]
  BY DEF TypeOK
<1>1. ASSUME NEW a \in Appliers, NEW b \in Bundles, Apply(a, b) PROVE BehindManager'
  <2>1. disk' = disk /\ Behind(disk, b)
    BY <1>1, ApplyAdvances DEF BehindManager, Apply
  <2>2. ASSUME NEW x \in Appliers, apc'[x] # "idle" PROVE Behind(result'[x], b)
    <3>1. CASE x = a
      BY <1>1, <3>1, ApplyAdvances, BehindReflexive DEF Apply
    <3>2. CASE x # a
      <4>1. result'[x] = result[x] /\ apc[x] # "idle" /\ result[x] \in Checkpoints
        BY <1>1, <2>2, <3>2 DEF Apply, TypeOK
      <4> QED BY <1>1, <4>1, ApplyAdvances DEF BehindManager
    <3> QED BY <3>1, <3>2
  <2>3. checkpoint' = b
    BY <1>1 DEF Apply
  <2> QED BY <2>1, <2>2, <2>3 DEF BehindManager, Behind
<1>2. ASSUME NEW a \in Appliers, NEW b \in Bundles, ApplyRepeat(a, b) PROVE BehindManager'
  <2>1. checkpoint' = checkpoint /\ disk' = disk
    BY <1>2 DEF ApplyRepeat, managerVars, hostVars
  <2>2. ASSUME NEW x \in Appliers, apc'[x] # "idle" PROVE Behind(result'[x], checkpoint)
    <3>1. CASE x = a
      BY <1>2, <3>1, BehindReflexive DEF ApplyRepeat
    <3>2. CASE x # a
      BY <1>2, <2>2, <3>2 DEF ApplyRepeat, BehindManager, TypeOK
    <3> QED BY <3>1, <3>2
  <2> QED BY <2>1, <2>2 DEF BehindManager, Behind
<1>3. ASSUME NEW a \in Appliers, ApplyReturn(a) PROVE BehindManager'
  <2>1. UNCHANGED <<checkpoint, disk, result>> /\ apc[a] = "fencing" /\ apc' = [apc EXCEPT ![a] = "returned"]
    BY <1>3 DEF ApplyReturn, managerVars, hostVars
  <2>2. \A x \in Appliers : apc'[x] # "idle" => apc[x] # "idle"
    BY <2>1 DEF TypeOK
  <2> QED BY <2>1, <2>2 DEF BehindManager, Behind
<1>4. ASSUME NEW a \in Appliers, Persist(a) PROVE BehindManager'
  <2>1. UNCHANGED <<checkpoint, result>> /\ apc[a] = "returned" /\ apc' = [apc EXCEPT ![a] = "idle"] /\ disk' = result[a]
    BY <1>4 DEF Persist, managerVars
  <2>2. \A x \in Appliers : apc'[x] # "idle" => apc[x] # "idle"
    BY <2>1 DEF TypeOK
  <2>3. Behind(result[a], checkpoint)
    BY <2>1 DEF BehindManager
  <2> QED BY <2>1, <2>2, <2>3 DEF BehindManager, Behind
<1>5. CASE Restart
  <2>1. checkpoint' = disk /\ disk' = disk /\ apc' = [a \in Appliers |-> "idle"] /\ Behind(disk, disk)
    BY <1>5, BehindReflexive DEF Restart, restoredCheckpoint
  <2> QED BY <2>1 DEF BehindManager, Behind
<1>6. ASSUME UNCHANGED <<checkpoint, disk, apc, result>> PROVE BehindManager'
  BY <1>6 DEF BehindManager, Behind
<1>7. ASSUME NEW c \in Conns, ConnStep(c) PROVE BehindManager'
  BY <1>6, <1>7 DEF ConnStep, VerifyChain, TrackConnection, TrackRefused, CloseTransport, Forget, AdriftClose,
                    managerVars, applyVars, hostVars
<1>8. ASSUME NEW o \in Owners, FenceStep(o) PROVE BehindManager'
  BY <1>6, <1>8 DEF FenceStep, FenceTimeout, FenceClose, managerVars, applyVars, hostVars
<1>9. ASSUME NEW g \in callbacks, Expire(g) PROVE BehindManager'
  BY <1>6, <1>9 DEF Expire, applyVars, hostVars
<1>10. CASE TimerFires \/ Close \/ Tick \/ UNCHANGED vars
  BY <1>6, <1>10 DEF TimerFires, Close, Tick, vars, managerVars, applyVars, hostVars
<1> QED BY <1>1, <1>2, <1>3, <1>4, <1>5, <1>7, <1>8, <1>9, <1>10 DEF Next

OneApplier == \A a, d \in env.appliers : a = d

\* The disk is ahead of all it held before, and a running Apply is about to
\* return what is ahead of the disk, for nobody else writes in between.
DiskGrows ==
    OneApplier => /\ \A cp \in persisted : Behind(cp, disk)
                  /\ \A a \in Appliers : apc[a] # "idle" => a \in env.appliers /\ Behind(disk, result[a])

LEMMA NextDiskGrows == TypeOK /\ BehindManager /\ DiskGrows /\ [Next]_vars => DiskGrows'
<1> SUFFICES ASSUME TypeOK, BehindManager, DiskGrows, [Next]_vars, OneApplier'
             PROVE  /\ \A cp \in persisted' : Behind(cp, disk')
                    /\ \A a \in Appliers : apc'[a] # "idle" => a \in env'.appliers /\ Behind(disk', result'[a])
  BY DEF DiskGrows, Behind
<1> DEFINE Goal == /\ \A cp \in persisted' : Behind(cp, disk')
                   /\ \A a \in Appliers : apc'[a] # "idle" => a \in env'.appliers /\ Behind(disk', result'[a])
<1> HIDE DEF Goal
<1> SUFFICES Goal
  BY DEF Goal
<1> disk \in Checkpoints /\ checkpoint \in Checkpoints /\ result \in [Appliers -> Checkpoints]
    /\ persisted \subseteq Checkpoints
  BY DEF TypeOK
<1>0. env' = env
  BY DEF Next, ApplyReturn, Persist, Apply, ApplyRepeat, ConnStep, VerifyChain, TrackConnection, TrackRefused,
         CloseTransport, Forget, AdriftClose, FenceStep, FenceTimeout, FenceClose, Expire, TimerFires, Close, Tick,
         Restart, hostVars, vars
<1>10. /\ \A cp \in persisted : Behind(cp, disk)
       /\ \A a \in Appliers : apc[a] # "idle" => a \in env.appliers /\ Behind(disk, result[a])
  BY <1>0 DEF DiskGrows, OneApplier
<1>1. ASSUME NEW a \in Appliers, NEW b \in Bundles, Apply(a, b) \/ ApplyRepeat(a, b) PROVE Goal
  <2>1. a \in env.appliers /\ disk' = disk /\ persisted' = persisted
    BY <1>1 DEF Apply, ApplyRepeat, hostVars
  <2>2. Behind(disk, result'[a])
    BY <1>1, ApplyAdvances DEF BehindManager, Apply, ApplyRepeat
  <2>3. \A x \in Appliers : x # a => apc'[x] = apc[x] /\ result'[x] = result[x]
    BY <1>1 DEF Apply, ApplyRepeat, TypeOK
  <2> QED BY <1>0, <1>10, <2>1, <2>2, <2>3 DEF Goal
<1>2. ASSUME NEW a \in Appliers, ApplyReturn(a) PROVE Goal
  <2>1. UNCHANGED <<persisted, disk, result>> /\ apc[a] = "fencing" /\ apc' = [apc EXCEPT ![a] = "returned"]
    BY <1>2 DEF ApplyReturn, hostVars
  <2>2. \A x \in Appliers : apc'[x] # "idle" => apc[x] # "idle"
    BY <2>1 DEF TypeOK
  <2> QED BY <1>0, <1>10, <2>1, <2>2 DEF Goal
<1>3. ASSUME NEW a \in Appliers, Persist(a) PROVE Goal
  <2>1. /\ apc[a] = "returned" /\ apc' = [apc EXCEPT ![a] = "idle"] /\ result' = result
        /\ disk' = result[a] /\ persisted' = persisted \cup {result[a]} /\ result[a] \in Checkpoints
    BY <1>3 DEF Persist
  <2>2. a \in env.appliers /\ Behind(disk, result[a])
    BY <1>10, <2>1
  <2>3. \A cp \in persisted' : Behind(cp, disk')
    BY <1>10, <2>1, <2>2, BehindTransitive, BehindReflexive
  <2>4. \A x \in Appliers : apc'[x] = "idle"
    <3> SUFFICES ASSUME NEW x \in Appliers, apc'[x] # "idle" PROVE FALSE
      OBVIOUS
    <3>1. x # a /\ apc[x] # "idle"
      BY <2>1 DEF TypeOK
    <3> QED BY <1>0, <1>10, <2>2, <3>1 DEF OneApplier
  <2> QED BY <2>3, <2>4 DEF Goal
<1>4. CASE Restart
  <2>1. UNCHANGED <<disk, persisted>> /\ apc' = [a \in Appliers |-> "idle"]
    BY <1>4 DEF Restart
  <2> QED BY <1>10, <2>1 DEF Goal
<1>5. ASSUME UNCHANGED <<persisted, disk, apc, result>> PROVE Goal
  BY <1>0, <1>10, <1>5 DEF Goal
<1>6. ASSUME NEW c \in Conns, ConnStep(c) PROVE Goal
  BY <1>5, <1>6 DEF ConnStep, VerifyChain, TrackConnection, TrackRefused, CloseTransport, Forget, AdriftClose,
                    applyVars, hostVars
<1>7. ASSUME NEW o \in Owners, FenceStep(o) PROVE Goal
  BY <1>5, <1>7 DEF FenceStep, FenceTimeout, FenceClose, applyVars, hostVars
<1>8. ASSUME NEW g \in callbacks, Expire(g) PROVE Goal
  BY <1>5, <1>8 DEF Expire, applyVars, hostVars
<1>9. CASE TimerFires \/ Close \/ Tick \/ UNCHANGED vars
  BY <1>5, <1>9 DEF TimerFires, Close, Tick, vars, applyVars, hostVars
<1> QED BY <1>1, <1>2, <1>3, <1>4, <1>6, <1>7, <1>8, <1>9 DEF Next

\* Through any number of crashes, a program with one applier starts again with
\* every CRL number and every serial that it once persisted.
THEOREM NothingPersistedIsLost == Spec => []PersistedIsKept
<1>1. Init => BehindManager /\ DiskGrows
  <2>1. Empty \in Checkpoints
    BY DEF Empty, Checkpoints
  <2> QED BY <2>1, BehindReflexive DEF Init, BehindManager, DiskGrows
<1>2. TypeOK /\ BehindManager /\ DiskGrows => PersistedIsKept
  <2> SUFFICES ASSUME TypeOK, BehindManager, DiskGrows, OneApplier, NEW cp \in persisted
               PROVE  Behind(cp, checkpoint)
    BY DEF PersistedIsKept, OneApplier, Behind
  <2>1. Behind(cp, disk) /\ Behind(disk, checkpoint)
    BY DEF DiskGrows, BehindManager
  <2> QED BY <2>1, BehindTransitive DEF TypeOK
<1> QED BY <1>1, <1>2, TypeCorrect, NextBehindManager, NextDiskGrows, PTL DEF Spec

-----------------------------------------------------------------------------
(* Expiry.                                                                   *)

Due == timer # NoTimer /\ timer.generation = generation /\ timer.at <= Earliest(checkpoint)

\* The timer is of this generation and never early, its callback starts only
\* when the checkpoint has expired, and until then one of the two is there.
Armed ==
    /\ timer # NoTimer => /\ Covered(checkpoint) # {}
                          /\ timer.generation = generation /\ timer.at >= Earliest(checkpoint)
    /\ generation \in callbacks => Covered(checkpoint) # {} /\ Expired(checkpoint)
    /\ ~closed /\ Covered(checkpoint) # {} => Due \/ generation \in callbacks \/ Expired(checkpoint)
    /\ ExpiryIsArmed

\* A timer for a checkpoint is never early, and late only if that has expired.
LEMMA TimerDue ==
    ASSUME now \in Nat, NEW g \in Nat, NEW cp \in Checkpoints, Covered(cp) # {}
    PROVE  LET t == afterFunc(g, cp)
           IN  t # NoTimer /\ t.generation = g /\ t.at >= Earliest(cp) /\ (t.at <= Earliest(cp) \/ Expired(cp))
<1>1. Earliest(cp) \in Nat /\ (Expired(cp) <=> Earliest(cp) <= now)
  BY EarliestType, ExpiredFrom
<1> QED BY <1>1, SMTT(200) DEF afterFunc, NoTimer

LEMMA NextArmed == TypeOK /\ Armed /\ [Next]_vars => Armed'
<1> SUFFICES ASSUME TypeOK, Armed, [Next]_vars PROVE Armed'
  OBVIOUS
<1>1. ASSUME NEW a \in Appliers, NEW b \in Bundles, Apply(a, b) PROVE Armed'
  <2>1. b \in Checkpoints /\ Covered(b) # {}
    BY <1>1, AuthorityAssumption DEF Apply, validateLocked
  <2>2. now' = now /\ now \in Nat /\ generation \in Nat /\ generation' = generation + 1
        /\ timer' = afterFunc(generation', b) /\ checkpoint' = b /\ active' = {} /\ callbacks' = callbacks
    BY <1>1 DEF Apply, scheduleExpiryLocked, TypeOK, hostVars
  <2>3. generation' \notin callbacks'
    BY <2>2, SMTT(200) DEF TypeOK
  <2>4. timer' # NoTimer /\ timer'.generation = generation' /\ timer'.at >= Earliest(b)
        /\ (timer'.at <= Earliest(b) \/ Expired(b))
    BY <2>1, <2>2, TimerDue, SMTT(200)
  <2>5. Expired(b)' <=> Expired(b)
    BY <2>2 DEF Expired
  <2>6. ExpiryIsArmed'
    BY <2>2 DEF ExpiryIsArmed
  <2> QED BY <2>1, <2>2, <2>3, <2>4, <2>5, <2>6 DEF Armed, Due, Expired
<1>2. ASSUME active' \subseteq active, UNCHANGED <<checkpoint, closed, generation, timer, callbacks, now>> PROVE Armed'
  BY <1>2 DEF Armed, Due, ExpiryIsArmed, Expired, Earliest
<1>3. ASSUME NEW a \in Appliers, ApplyReturn(a) \/ Persist(a) \/ \E b \in Bundles : ApplyRepeat(a, b)
      PROVE  Armed'
  BY <1>2, <1>3 DEF ApplyRepeat, ApplyReturn, Persist, managerVars, hostVars
<1>4. ASSUME NEW c \in Conns, TrackConnection(c) PROVE Armed'
  <2>1. ~closed /\ Covered(checkpoint) # {} /\ ~Expired(checkpoint)
    BY <1>4 DEF TrackConnection, verifyLocked
  <2>2. Due \/ generation \in callbacks
    BY <2>1 DEF Armed
  <2>3. UNCHANGED <<checkpoint, closed, generation, timer, callbacks, now>>
    BY <1>4 DEF TrackConnection, hostVars
  <2>4. ExpiryIsArmed'
    BY <2>2, <2>3 DEF ExpiryIsArmed, Due, Earliest
  <2> QED BY <2>3, <2>4 DEF Armed, Due, Expired, Earliest
<1>5. ASSUME NEW c \in Conns, ConnStep(c) PROVE Armed'
  BY <1>2, <1>4, <1>5 DEF ConnStep, VerifyChain, TrackRefused, CloseTransport, Forget, AdriftClose, managerVars, hostVars
<1>6. ASSUME NEW o \in Owners, FenceStep(o) PROVE Armed'
  BY <1>2, <1>6 DEF FenceStep, FenceTimeout, FenceClose, managerVars, hostVars
<1>7. ASSUME NEW g \in callbacks, Expire(g) PROVE Armed'
  <2>1. UNCHANGED <<checkpoint, closed, generation, timer, now>> /\ callbacks' = callbacks \ {g}
    BY <1>7 DEF Expire, hostVars
  <2>2. CASE g = generation
    <3>1. active' = {} /\ Expired(checkpoint)
      BY <1>7, <2>2 DEF Expire, Armed
    <3> QED BY <2>1, <3>1 DEF Armed, ExpiryIsArmed, Expired, Earliest
  <2>3. CASE g # generation
    <3>1. active' = active /\ (generation' \in callbacks' <=> generation \in callbacks)
      BY <1>7, <2>1, <2>3 DEF Expire
    <3> QED BY <2>1, <3>1 DEF Armed, Due, ExpiryIsArmed, Expired, Earliest
  <2> QED BY <2>2, <2>3
<1>8. CASE TimerFires
  <2>1. timer # NoTimer /\ now >= timer.at /\ timer' = NoTimer /\ callbacks' = callbacks \cup {timer.generation}
        /\ UNCHANGED <<checkpoint, active, closed, generation, now>>
    BY <1>8 DEF TimerFires, hostVars
  <2>2. Covered(checkpoint) # {} /\ timer.generation = generation /\ timer.at >= Earliest(checkpoint)
    BY <2>1 DEF Armed
  <2>3. Earliest(checkpoint) \in Nat /\ now \in Nat /\ timer.at \in Int
    BY <2>2, EarliestType DEF TypeOK
  <2>4. Expired(checkpoint)
    BY <2>1, <2>2, <2>3, ExpiredFrom, SMTT(200) DEF TypeOK
  <2> QED BY <2>1, <2>2, <2>4 DEF Armed, ExpiryIsArmed, Expired
<1>9. CASE Close
  <2>1. closed' /\ timer' = NoTimer /\ active' = {} /\ generation' = generation + 1 /\ callbacks' = callbacks
    BY <1>9 DEF Close
  <2>2. generation' \notin callbacks'
    BY <2>1, SMTT(200) DEF TypeOK
  <2> QED BY <2>1, <2>2 DEF Armed, ExpiryIsArmed
<1>10. CASE Tick
  <2>1. now' = now + 1 /\ now \in Nat /\ UNCHANGED managerVars
    BY <1>10 DEF Tick, TypeOK
  <2>2. Expired(checkpoint) => Expired(checkpoint)'
    BY <2>1, SMTT(200) DEF Expired, TypeOK, Checkpoints, CRLs, managerVars
  <2> QED BY <2>1, <2>2 DEF Armed, Due, ExpiryIsArmed, Earliest, managerVars
<1>11. CASE Restart
  <2>1. checkpoint' = disk /\ active' = {} /\ callbacks' = {} /\ now' = now /\ now \in Nat /\ disk \in Checkpoints
    BY <1>11 DEF Restart, restoredCheckpoint, TypeOK
  <2>2. ExpiryIsArmed'
    BY <2>1 DEF ExpiryIsArmed
  <2>3. CASE disk = Empty
    <3>1. Covered(checkpoint') = {} /\ timer' = NoTimer
      BY <1>11, <2>1, <2>3 DEF Empty, Restart, restoredTimer
    <3> QED BY <2>1, <2>2, <3>1 DEF Armed
  <2>4. CASE disk # Empty
    <3>1. Covered(disk) # {} /\ timer' = afterFunc(1, disk) /\ generation' = 1
      BY <1>11, <2>1, <2>4, EmptyCoversNothing DEF Restart, restoredTimer
    <3>2. timer' # NoTimer /\ timer'.generation = 1 /\ timer'.at >= Earliest(disk)
          /\ (timer'.at <= Earliest(disk) \/ Expired(disk))
      BY <2>1, <3>1, TimerDue
    <3>3. Expired(disk) <=> Expired(checkpoint)'
      BY <1>11, <2>1 DEF Expired, Restart
    <3> QED BY <2>1, <2>2, <3>1, <3>2, <3>3 DEF Armed, Due, Expired
  <2> QED BY <2>3, <2>4
<1>12. CASE UNCHANGED vars
  BY <1>2, <1>12 DEF vars, managerVars, hostVars
<1> QED BY <1>1, <1>3, <1>5, <1>6, <1>7, <1>8, <1>9, <1>10, <1>11, <1>12 DEF Next

LEMMA AlwaysArmed == Spec => [](TypeOK /\ Armed)
<1>1. Init => Armed
  BY SMTT(200) DEF Init, Armed, ExpiryIsArmed, Empty
<1> QED BY <1>1, TypeCorrect, NextArmed, PTL DEF Spec

\* Connections are never left under a checkpoint whose expiry nobody awaits.
THEOREM ExpiryAwaited == Spec => []ExpiryIsArmed
<1>1. Armed => ExpiryIsArmed
  BY DEF Armed
<1> QED BY <1>1, AlwaysArmed, PTL

\* A connection in a fence has been tracked and is no longer known to the manager.
Apart ==
    /\ \A c \in active : conn[c] \in {"tracked", "closed"}
    /\ \A o \in Owners : \A c \in fencing[o] : c \notin active /\ conn[c] \in {"tracked", "closed"}

LEMMA NextApart == TypeOK /\ Apart /\ [Next]_vars => Apart'
<1> SUFFICES ASSUME TypeOK, Apart, [Next]_vars PROVE Apart'
  OBVIOUS
<1>1. ASSUME NEW o \in Owners, BeginFence(o), active' = {}, conn' = conn PROVE Apart'
  <2>1. \A p \in Owners : fencing'[p] \subseteq fencing[p] \cup active
    BY <1>1 DEF BeginFence, TypeOK
  <2> QED BY <1>1, <2>1 DEF Apart
<1>2. ASSUME UNCHANGED <<active, conn, fencing>> PROVE Apart'
  BY <1>2 DEF Apart
<1>3. ASSUME NEW a \in Appliers, NEW b \in Bundles, Apply(a, b) PROVE Apart'
  BY <1>1, <1>3 DEF Apply, Owners
<1>4. ASSUME NEW a \in Appliers, ApplyReturn(a) \/ Persist(a) \/ \E b \in Bundles : ApplyRepeat(a, b)
      PROVE  Apart'
  BY <1>2, <1>4 DEF ApplyRepeat, ApplyReturn, Persist, managerVars, fenceVars
<1>5. ASSUME NEW c \in Conns, ConnStep(c) PROVE Apart'
  <2> USE DEF Apart, TypeOK
  <2>1. CASE VerifyChain(c)
    BY <2>1 DEF VerifyChain, managerVars, fenceVars
  <2>2. CASE TrackConnection(c)
    BY <2>2 DEF TrackConnection, fenceVars
  <2>3. CASE TrackRefused(c)
    BY <2>3 DEF TrackRefused, managerVars, fenceVars
  <2>4. CASE CloseTransport(c)
    BY <2>4 DEF CloseTransport, managerVars, fenceVars
  <2>5. CASE Forget(c)
    BY <2>5 DEF Forget, fenceVars
  <2>6. CASE AdriftClose(c)
    BY <2>6 DEF AdriftClose, managerVars
  <2> QED BY <1>5, <2>1, <2>2, <2>3, <2>4, <2>5, <2>6 DEF ConnStep
<1>6. ASSUME NEW o \in Owners, FenceStep(o) PROVE Apart'
  <2>1. \A p \in Owners : fencing'[p] \subseteq fencing[p]
    BY <1>6, SMTT(200) DEF FenceStep, FenceTimeout, FenceClose, TypeOK
  <2>2. active' \subseteq active
    BY <1>6 DEF FenceStep, FenceTimeout, FenceClose, managerVars
  <2>3. \A c \in Conns : conn'[c] = conn[c] \/ conn'[c] = "closed"
    BY <1>6 DEF FenceStep, FenceTimeout, FenceClose, TypeOK
  <2>4. active \subseteq Conns /\ \A p \in Owners : fencing[p] \subseteq Conns
    BY DEF TypeOK
  <2> QED BY <2>1, <2>2, <2>3, <2>4 DEF Apart
<1>7. ASSUME NEW g \in callbacks, Expire(g) PROVE Apart'
  <2>1. CASE g = generation
    BY <1>1, <1>7, <2>1 DEF Expire, Owners
  <2>2. CASE g # generation
    BY <1>2, <1>7, <2>2 DEF Expire
  <2> QED BY <2>1, <2>2
<1>8. CASE Close
  BY <1>1, <1>8 DEF Close, Owners
<1>9. CASE TimerFires \/ Tick \/ UNCHANGED vars
  BY <1>2, <1>9 DEF TimerFires, Tick, vars, managerVars, fenceVars
<1>10. CASE Restart
  BY <1>10 DEF Restart, Apart
<1> QED BY <1>3, <1>4, <1>5, <1>6, <1>7, <1>8, <1>9, <1>10 DEF Next

\* No open connection is given up without an update, an expiry, a Close or a
\* restart, however many replaced timers are still on their way.
THEOREM NoStrayFence == Spec => FencedForAReason
<1> DEFINE Reason ==
      \A c \in active \ active' : \/ conn[c] = "closed" \/ checkpoint' # checkpoint \/ closed' \/ Expired(checkpoint)
                                  \/ restarts' # restarts
<1>1. TypeOK /\ Armed /\ Apart /\ [Next]_vars => [Reason]_vars
  <2> SUFFICES ASSUME TypeOK, Armed, Apart, Next PROVE Reason
    OBVIOUS
  <2>1. ASSUME active \subseteq active' PROVE Reason
    BY <2>1
  <2>2. ASSUME NEW a \in Appliers, NEW b \in Bundles, Apply(a, b) PROVE Reason
    <3>1. checkpoint' = b /\ b # checkpoint
      BY <2>2 DEF Apply
    <3> QED BY <3>1
  <2>3. ASSUME NEW a \in Appliers, ApplyReturn(a) \/ Persist(a) \/ \E b \in Bundles : ApplyRepeat(a, b)
        PROVE  Reason
    BY <2>1, <2>3 DEF ApplyRepeat, ApplyReturn, Persist, managerVars
  <2>4. ASSUME NEW c \in Conns, ConnStep(c) PROVE Reason
    BY <2>4 DEF ConnStep, VerifyChain, TrackConnection, TrackRefused, CloseTransport, Forget, AdriftClose, managerVars
  <2>5. ASSUME NEW o \in Owners, FenceStep(o) PROVE Reason
    <3>1. active \subseteq active'
      BY <2>5 DEF FenceStep, FenceTimeout, FenceClose, managerVars, Apart
    <3> QED BY <2>1, <3>1
  <2>6. ASSUME NEW g \in callbacks, Expire(g) PROVE Reason
    <3>1. CASE g = generation
      BY <3>1, <2>6 DEF Armed
    <3>2. CASE g # generation
      BY <2>1, <2>6, <3>2 DEF Expire
    <3> QED BY <3>1, <3>2
  <2>7. CASE Close
    BY <2>7 DEF Close
  <2>8. CASE TimerFires \/ Tick
    BY <2>1, <2>8 DEF TimerFires, Tick, managerVars
  <2>9. CASE Restart
    <3>1. restarts' = restarts + 1 /\ restarts \in Nat
      BY <2>9 DEF Restart, TypeOK
    <3> QED BY <3>1, SMTT(200)
  <2> QED BY <2>2, <2>3, <2>4, <2>5, <2>6, <2>7, <2>8, <2>9 DEF Next
<1>2. Init => Apart
  BY DEF Init, Apart
<1> QED BY <1>1, <1>2, AlwaysArmed, NextApart, PTL DEF Spec, FencedForAReason
=============================================================================
