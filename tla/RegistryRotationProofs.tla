------------------------- MODULE RegistryRotationProofs -------------------------
(***************************************************************************)
(* The registry's rotation controller never reaches a state the checkpoint *)
(* refuses but for its length, whatever the host keeps.  With a host that  *)
(* lets go of a restored state once its outcome is sealed (MaxKept = 0) it *)
(* also never destroys a key that a state it can come back to needs, and   *)
(* accepts forward only.  Both for any keys, any generations, any evidence *)
(* and any number of crashes.                                              *)
(*                                                                         *)
(* What the phase machine does to a ring is taken from KeyRotationProofs,  *)
(* instantiated here; the first section shows that its definitions are     *)
(* those the controller was modelled with.  The first invariant looks at   *)
(* every state by itself: a step of the controller makes a usable state of *)
(* a usable one, wherever the host got it from.  The second one looks at   *)
(* the checkpoints a crash may bring back.  With a careful host every one  *)
(* of them accepts what the newest accepts and has a ring of the same      *)
(* length, and as soon as one of them has passed the canary they all have  *)
(* the same ring and none is in the middle of a switch: that is why the    *)
(* key destroyed at retirement is one that none of them needs.             *)
(***************************************************************************)
EXTENDS RegistryRotation, FiniteSetTheorems, TLAPS

P == INSTANCE KeyRotationProofs

-----------------------------------------------------------------------------
(* The phase machine of the proofs is the one of the model.                *)

LEMMA Assumed ==
    /\ P!CandidatesAssumption /\ P!TicksAssumption /\ P!CtxsAssumption
    /\ P!VoteSetsAssumption /\ P!CountsAssumption
<1>1. P!CandidatesAssumption
  BY CeremonyAssumption DEF P!CandidatesAssumption,
    K!Candidate, P!Candidate, K!KeyIds, P!KeyIds, K!KeyKind, P!KeyKind,
    K!KeyCommits, P!KeyCommits, K!FileRefs, P!FileRefs
<1>2. P!TicksAssumption
  BY CeremonyAssumption DEF P!TicksAssumption
<1>3. P!CtxsAssumption
  BY CeremonyAssumption DEF P!CtxsAssumption, K!RotationCtx, P!RotationCtx,
     K!Seam, P!Seam
<1>4. P!VoteSetsAssumption
  BY CeremonyAssumption DEF P!VoteSetsAssumption, P!IsFiniteSet, IsFiniteSet,
     K!Vote, P!Vote, K!Verdict, P!Verdict, K!DENY, P!DENY, K!INDETERMINATE,
     P!INDETERMINATE, K!ALLOW, P!ALLOW, K!Malformed, P!Malformed
<1>5. P!CountsAssumption
  BY CeremonyAssumption DEF P!CountsAssumption
<1> QED
  BY <1>1, <1>2, <1>3, <1>4, <1>5

LEMMA SameRing ==
    /\ \A r : K!VerifyRing(r) <=> P!VerifyRing(r)
    /\ \A r : K!ActiveEpoch(r) = P!ActiveEpoch(r)
    /\ \A r, status : K!Having(r, status) = P!Having(r, status)
    /\ \A c, tick : K!CreateKeyRing(c, tick) = P!CreateKeyRing(c, tick)
    /\ \A c : K!CanCreate(c) <=> P!CanCreate(c)
    /\ K!NoTransition = P!NoTransition
    /\ K!OldEpoch = P!OldEpoch
BY DEF K!VerifyRing, P!VerifyRing, K!WellFormedEpoch, P!WellFormedEpoch,
  K!Having, P!Having, K!SameKey, P!SameKey, K!WellFormedCommit,
  P!WellFormedCommit, K!NoTick, P!NoTick, K!ActiveEpoch, P!ActiveEpoch,
  K!CreateKeyRing, P!CreateKeyRing, K!NewEpoch, P!NewEpoch, K!CanCreate,
  P!CanCreate, K!NoTransition, P!NoTransition, K!OldEpoch, P!OldEpoch

LEMMA SameQuorum ==
  ASSUME NEW votes, NEW m
  PROVE  K!LockCVerdict(votes, m) = P!LockCVerdict(votes, m)
BY DEF K!LockCVerdict, P!LockCVerdict, K!QuorumVerdict, P!QuorumVerdict,
  K!Malformed, P!Malformed, K!Equivocates, P!Equivocates, K!Approvals,
  P!Approvals, K!Cardinality, P!Cardinality, K!IsFiniteSet, P!IsFiniteSet,
  K!Clause, P!Clause, K!ALLOW, P!ALLOW, K!DENY, P!DENY, K!INDETERMINATE,
  P!INDETERMINATE

LEMMA SameTripleLock ==
  ASSUME NEW trans, NEW head, NEW votes, NEW m, NEW ctx
  PROVE  K!TripleLockVerdict(trans, head, votes, m, ctx) =
             P!TripleLockVerdict(trans, head, votes, m, ctx)
<1>1. \A cand : K!LockAVerdict(cand, ctx) = P!LockAVerdict(cand, ctx)
  BY DEF K!LockAVerdict, P!LockAVerdict, K!ActiveEpoch, P!ActiveEpoch,
    K!VerifyRing, P!VerifyRing, K!WellFormedEpoch, P!WellFormedEpoch,
    K!Having, P!Having, K!SameKey, P!SameKey, K!WellFormedCommit,
    P!WellFormedCommit, K!NoTick, P!NoTick, K!AllOf, P!AllOf, K!Clause,
    P!Clause, K!Wait, P!Wait, K!SeamVerdict, P!SeamVerdict, K!Authorizes,
    P!Authorizes, K!ALLOW, P!ALLOW, K!DENY, P!DENY, K!INDETERMINATE,
    P!INDETERMINATE
<1>2. K!LockBVerdict(trans, head, ctx) = P!LockBVerdict(trans, head, ctx)
  BY DEF K!LockBVerdict, P!LockBVerdict, K!ActiveEpoch, P!ActiveEpoch,
    K!VerifyRing, P!VerifyRing, K!WellFormedEpoch, P!WellFormedEpoch,
    K!Having, P!Having, K!SameKey, P!SameKey, K!WellFormedCommit,
    P!WellFormedCommit, K!NoTick, P!NoTick, K!AllOf, P!AllOf, K!Clause,
    P!Clause, K!Wait, P!Wait, K!SeamVerdict, P!SeamVerdict, K!Authorizes,
    P!Authorizes, K!ALLOW, P!ALLOW, K!DENY, P!DENY, K!INDETERMINATE,
    P!INDETERMINATE
<1>3. K!Having(ring, "staged") = P!Having(ring, "staged")
  BY SameRing
<1>4. (CHOOSE i \in K!Having(ring, "staged") : TRUE) =
          (CHOOSE i \in P!Having(ring, "staged") : TRUE)
  BY DEF K!Having, P!Having
<1>5. K!DENY = P!DENY /\ \A vs : K!AllOf(vs) = P!AllOf(vs)
  BY DEF K!AllOf, P!AllOf, K!DENY, P!DENY, K!INDETERMINATE, P!INDETERMINATE
<1> QED
  BY <1>1, <1>2, <1>3, <1>4, <1>5, SameQuorum
     DEF K!TripleLockVerdict, P!TripleLockVerdict

(* Every step of the machine, whatever the evidence.                       *)
LEMMA SameSteps ==
    /\ K!BeginRotation => P!BeginRotation
    /\ \A ev, ctx : K!CheckReadiness(ev, ctx) => P!CheckReadiness(ev, ctx)
    /\ \A c, tick : K!StageCandidate(c, tick) => P!StageCandidate(c, tick)
    /\ \A trans, head, votes, m, ctx :
           K!CommitTripleLock(trans, head, votes, m, ctx) =>
                P!CommitTripleLock(trans, head, votes, m, ctx)
    /\ \A tick : K!SwitchEpoch(tick) => P!SwitchEpoch(tick)
    /\ \A ev, ctx : K!ConfirmTripleVerify(ev, ctx) => P!ConfirmTripleVerify(ev, ctx)
    /\ \A tick : K!FallbackToOldEpoch(tick) => P!FallbackToOldEpoch(tick)
    /\ \A ev, votes, m : K!ConfirmDrain(ev, votes, m) => P!ConfirmDrain(ev, votes, m)
    /\ \A policy, tick : K!RetireOldEpoch(policy, tick) => P!RetireOldEpoch(policy, tick)
<1>1. K!BeginRotation => P!BeginRotation
  BY DEF K!BeginRotation, P!BeginRotation, K!NoTransition, P!NoTransition
<1>2. \A ev, ctx : K!CheckReadiness(ev, ctx) => P!CheckReadiness(ev, ctx)
  BY DEF K!CheckReadiness, P!CheckReadiness, K!ReadinessVerdict,
    P!ReadinessVerdict, K!AllOf, P!AllOf, K!Clause, P!Clause, K!Wait, P!Wait,
    K!SeamVerdict, P!SeamVerdict, K!Authorizes, P!Authorizes, K!ALLOW,
    P!ALLOW, K!DENY, P!DENY, K!INDETERMINATE, P!INDETERMINATE
<1>3. \A c, tick : K!StageCandidate(c, tick) => P!StageCandidate(c, tick)
  BY DEF K!StageCandidate, P!StageCandidate, K!CanStage, P!CanStage,
    K!StageEpoch, P!StageEpoch, K!NewEpoch, P!NewEpoch, K!VerifyRing,
    P!VerifyRing, K!WellFormedEpoch, P!WellFormedEpoch, K!Having, P!Having,
    K!SameKey, P!SameKey, K!WellFormedCommit, P!WellFormedCommit, K!NoTick,
    P!NoTick
<1>4. \A trans, head, votes, m, ctx :
          K!CommitTripleLock(trans, head, votes, m, ctx) =>
              P!CommitTripleLock(trans, head, votes, m, ctx)
  BY SameTripleLock DEF K!CommitTripleLock, P!CommitTripleLock,
    K!Authorizes, P!Authorizes, K!ALLOW, P!ALLOW
<1>5. \A tick : K!SwitchEpoch(tick) => P!SwitchEpoch(tick)
  BY DEF K!SwitchEpoch, P!SwitchEpoch, K!CanSwitch, P!CanSwitch,
    K!SwitchActive, P!SwitchActive, K!VerifyRing, P!VerifyRing,
    K!WellFormedEpoch, P!WellFormedEpoch, K!Having, P!Having, K!SameKey,
    P!SameKey, K!WellFormedCommit, P!WellFormedCommit, K!NoTick, P!NoTick
<1>6. \A ev, ctx : K!ConfirmTripleVerify(ev, ctx) => P!ConfirmTripleVerify(ev, ctx)
  BY DEF K!ConfirmTripleVerify, P!ConfirmTripleVerify, K!TripleVerifyVerdict,
    P!TripleVerifyVerdict, K!AllOf, P!AllOf, K!Clause, P!Clause, K!Wait,
    P!Wait, K!SeamVerdict, P!SeamVerdict, K!Authorizes, P!Authorizes, K!ALLOW,
    P!ALLOW, K!DENY, P!DENY, K!INDETERMINATE, P!INDETERMINATE
<1>7. \A tick : K!FallbackToOldEpoch(tick) => P!FallbackToOldEpoch(tick)
  BY DEF K!FallbackToOldEpoch, P!FallbackToOldEpoch, K!CanFallback,
    P!CanFallback, K!FallbackSwitch, P!FallbackSwitch, K!ActiveEpoch,
    P!ActiveEpoch, K!NoTransition, P!NoTransition, K!VerifyRing, P!VerifyRing,
    K!WellFormedEpoch, P!WellFormedEpoch, K!Having, P!Having, K!SameKey,
    P!SameKey, K!WellFormedCommit, P!WellFormedCommit, K!NoTick, P!NoTick
<1>8. \A ev, votes, m : K!ConfirmDrain(ev, votes, m) => P!ConfirmDrain(ev, votes, m)
  BY SameQuorum DEF K!ConfirmDrain, P!ConfirmDrain, K!DrainVerdict,
    P!DrainVerdict, K!AllOf, P!AllOf, K!Clause, P!Clause, K!Wait, P!Wait,
    K!SeamVerdict, P!SeamVerdict, K!Authorizes, P!Authorizes, K!ALLOW,
    P!ALLOW, K!DENY, P!DENY, K!INDETERMINATE, P!INDETERMINATE
<1>9. \A policy, tick : K!RetireOldEpoch(policy, tick) => P!RetireOldEpoch(policy, tick)
  BY DEF K!RetireOldEpoch, P!RetireOldEpoch, K!RetireVerdict, P!RetireVerdict,
    K!PolicyAllowed, P!PolicyAllowed, K!CanMarkRevoked, P!CanMarkRevoked,
    K!MarkRevoked, P!MarkRevoked, K!OldEpoch, P!OldEpoch, K!ActiveEpoch,
    P!ActiveEpoch, K!VerifyRing, P!VerifyRing, K!WellFormedEpoch,
    P!WellFormedEpoch, K!Having, P!Having, K!SameKey, P!SameKey,
    K!WellFormedCommit, P!WellFormedCommit, K!NoTick, P!NoTick, K!AllOf,
    P!AllOf, K!Clause, P!Clause, K!Wait, P!Wait, K!SeamVerdict, P!SeamVerdict,
    K!Authorizes, P!Authorizes, K!ALLOW, P!ALLOW, K!DENY, P!DENY,
    K!INDETERMINATE, P!INDETERMINATE
<1> QED
  BY <1>1, <1>2, <1>3, <1>4, <1>5, <1>6, <1>7, <1>8, <1>9

LEMMA SameTypes ==
    K!KeyEpoch = P!KeyEpoch /\ K!Phase = P!Phase /\ K!Transition = P!Transition
        /\ K!KeyIds = P!KeyIds
BY DEF K!KeyEpoch, P!KeyEpoch, K!KeyIds, P!KeyIds, K!KeyKind, P!KeyKind,
   K!KeyCommits, P!KeyCommits, K!FileRefs, P!FileRefs, K!NoTick, P!NoTick,
   K!KeyEpochStatus, P!KeyEpochStatus, K!Phase, P!Phase, K!Transition, P!Transition

-----------------------------------------------------------------------------
(* The inductive invariants.                                               *)

NotBefore(g, h) == g.serial > h.serial /\ g.issuedAt > h.issuedAt

(* The invariant of the phase machine, of a state or of a checkpoint.      *)
Sound(s) ==
    LET act == P!ActiveEpoch(s.ring) IN
    /\ s.ring \in Seq(P!KeyEpoch) /\ s.phase \in P!Phase
    /\ P!VerifyRing(s.ring)
    /\ s.phase \in {"staged", "locked"} =>
           P!Having(s.ring, "staged") = {Len(s.ring)}
    /\ s.phase = "locked" =>
           /\ Len(s.ring) = act + 1
           /\ s.transition.fromEpoch = act /\ s.transition.toEpoch = act + 1
    /\ s.phase \in {"switched", "verified", "drained", "retired"} =>
           /\ act = Len(s.ring)
           /\ s.transition.fromEpoch = act - 1 /\ s.transition.toEpoch = act
    /\ s.phase \in {"switched", "verified", "drained"} =>
           act - 1 \in P!Having(s.ring, "retired")
    /\ \A i \in DOMAIN s.ring :
           /\ i < act => s.ring[i].status \in {"retired", "revoked"}
           /\ i > act => \/ s.ring[i].status = "revoked"
                         \/ s.ring[i].status = "staged" /\ i = Len(s.ring)
    /\ s.phase = "switched" =>
           s.ring[act - 1].retiredTick >= s.ring[act].createdTick

Typed(s) ==
    /\ s = [ring |-> s.ring, phase |-> s.phase, transition |-> s.transition,
            accepted |-> s.accepted, floor |-> s.floor]
    /\ s.transition \in P!Transition
    /\ s.accepted \in Generations
    /\ s.floor \in [serial : Nat, issuedAt : Nat]

(* What a checkpoint requires beyond that.                                 *)
Shape(s) ==
    /\ s.phase \notin {"staged", "locked"} => P!Having(s.ring, "staged") = {}
    /\ s.phase \in {"idle", "ready", "staged"} <=> s.transition = P!NoTransition
    /\ NotBefore(s.accepted, s.floor)

(* The last epoch that can never sign again, and the keys up to it.        *)
LastSpent(s) ==
    P!ActiveEpoch(s.ring) - (IF s.phase = "switched" THEN 2 ELSE 1)

Spent(s) == {KeyOf(s.ring, i) : i \in 1 .. LastSpent(s)}

Usable(s) == Typed(s) /\ Sound(s) /\ Shape(s)

(* With any host.                                                          *)
AllUsable ==
    /\ \A s \in sealed \cup held \cup {State} : Usable(s)
    /\ newest \in sealed
    /\ destroyed \subseteq P!KeyIds /\ refused \subseteq P!KeyIds

(* Between two acceptances, and between two candidates.                    *)
SameEra(s) ==
    /\ s.accepted = newest.accepted /\ s.floor = newest.floor
    /\ Len(s.ring) = Len(newest.ring)

Moving == {"staged", "locked", "switched"}

(* Once the canary has passed in an era, nothing in it is unsettled.       *)
Settled(S) ==
    (\E s \in S : s.phase \in Accepting) =>
        \A s, t \in S : s.ring = t.ring /\ s.phase \notin Moving

Era == {s \in Admitted \cup {State} : SameEra(s)}

(* Where a careful host is among its checkpoints: those the floors admit   *)
(* are of the era of the newest, the others accept something older, and    *)
(* its own state is at most one acceptance or one candidate ahead.         *)
Checkpoints ==
    /\ held \subseteq Admitted
    /\ \A c \in Admitted : SameEra(c)
    /\ \A c \in sealed : \/ c.accepted = newest.accepted
                         \/ NotBefore(newest.accepted, c.accepted)
    /\ \/ accepted = newest.accepted /\ floor = newest.floor
       \/ NotBefore(accepted, newest.accepted)
    /\ Len(ring) \in {Len(newest.ring), Len(newest.ring) + 1}

(* With a careful host.                                                    *)
IInv ==
    /\ AllUsable
    /\ Checkpoints
    /\ \A s \in Admitted \cup {State} : destroyed \subseteq Spent(s)
    /\ Settled(Era)

-----------------------------------------------------------------------------
(* What the invariants say of one state or checkpoint.                     *)

LEMMA StateFields ==
    /\ State.ring = ring /\ State.phase = phase /\ State.transition = transition
    /\ State.accepted = accepted /\ State.floor = floor
    /\ State = [ring |-> State.ring, phase |-> State.phase,
                transition |-> State.transition, accepted |-> State.accepted,
                floor |-> State.floor]
BY DEF State

LEMMA SoundIsIInv ==
    /\ Sound(State) <=> P!IInv
    /\ Sound(State)' <=> P!IInv'
<1>1. Sound(State) <=> P!IInv
  BY DEF Sound, State, P!IInv, P!Typed, P!RingVerifies, P!PhaseMatchesRing,
     P!EpochsInOrder, P!SwitchTicks
<1>2. Sound(State)' <=> P!IInv'
  BY DEF Sound, State, P!IInv, P!Typed, P!RingVerifies, P!PhaseMatchesRing,
     P!EpochsInOrder, P!SwitchTicks
<1> QED
  BY <1>1, <1>2

LEMMA RingOf ==
    ASSUME NEW s, Sound(s)
    PROVE  LET act == P!ActiveEpoch(s.ring) IN
           /\ DOMAIN s.ring = 1 .. Len(s.ring) /\ Len(s.ring) \in Nat
           /\ act \in 1 .. Len(s.ring)
           /\ s.ring[act].status = "active"
           /\ \A i \in 1 .. Len(s.ring) :
                  s.ring[i].keyId \in P!KeyIds
           /\ \A i, j \in 1 .. Len(s.ring) :
                  s.ring[i].keyId = s.ring[j].keyId => i = j
<1>1. s.ring \in P!Ring /\ P!VerifyRing(s.ring)
  BY DEF Sound, P!Ring
<1>2. DOMAIN s.ring = 1 .. Len(s.ring) /\ Len(s.ring) \in Nat
  BY DEF Sound
<1>3. /\ P!ActiveEpoch(s.ring) \in 1 .. Len(s.ring)
      /\ s.ring[P!ActiveEpoch(s.ring)].status = "active"
  BY <1>1, P!ActiveIsUnique, Assumed
<1>4. \A i \in 1 .. Len(s.ring) : s.ring[i].keyId \in P!KeyIds
  <2>1. \A i \in 1 .. Len(s.ring) : s.ring[i] \in P!KeyEpoch
    BY DEF Sound
  <2> QED
    BY <2>1 DEF P!KeyEpoch
<1>5. \A i, j \in 1 .. Len(s.ring) : i < j => s.ring[i].keyId # s.ring[j].keyId
  BY <1>1, <1>2 DEF P!VerifyRing, P!SameKey
<1> QED
  BY <1>2, <1>3, <1>4, <1>5

LEMMA NoneStaged ==
    ASSUME NEW s, Sound(s), s.phase \in {"switched", "verified", "drained", "retired"}
    PROVE  P!Having(s.ring, "staged") = {}
BY RingOf DEF Sound, P!Having

(* A usable state is one that can be sealed, if it is not too long.        *)
LEMMA UsableIsWellFormed ==
    ASSUME NEW s, Usable(s)
    PROVE  StateWellFormed(s)
<1>1. Sound(s) /\ Shape(s) /\ Typed(s)
  BY DEF Usable
<1>2. K!VerifyRing(s.ring) /\ K!NoTransition = P!NoTransition
  BY <1>1, SameRing DEF Sound
<1>3. K!Having(s.ring, "staged") = P!Having(s.ring, "staged")
  BY SameRing
<1>4. s.phase \in {"staged", "locked"} => Cardinality(K!Having(s.ring, "staged")) = 1
  BY <1>1, <1>3, FS_Singleton DEF Sound
<1>5. s.phase \notin {"staged", "locked"} => Cardinality(K!Having(s.ring, "staged")) = 0
  BY <1>1, <1>3, FS_EmptySet DEF Shape
<1>6. s.phase \in P!Phase
  BY <1>1 DEF Sound
<1> QED
  BY <1>1, <1>2, <1>4, <1>5 DEF StateWellFormed, Shape, NotBefore

(* The keys a state may still sign with are none of those that are spent.  *)
LEMMA NeededIsNotSpent ==
    ASSUME NEW s, Sound(s)
    PROVE  Needed(s) \cap Spent(s) = {}
<1> DEFINE act == P!ActiveEpoch(s.ring)
<1> DEFINE mine == {act} \cup P!Having(s.ring, "staged")
                       \cup (IF s.phase = "switched" THEN {act - 1} ELSE {})
<1>1. /\ DOMAIN s.ring = 1 .. Len(s.ring) /\ Len(s.ring) \in Nat
      /\ act \in 1 .. Len(s.ring) /\ s.ring[act].status = "active"
      /\ \A i, j \in 1 .. Len(s.ring) : s.ring[i].keyId = s.ring[j].keyId => i = j
  BY RingOf
<1>2. Needed(s) = {KeyOf(s.ring, i) : i \in mine}
  BY SameRing DEF Needed
<1>3. \A i \in P!Having(s.ring, "staged") : i \in 1 .. Len(s.ring) /\ i > act
  BY <1>1 DEF P!Having, Sound
<1>4. s.phase = "switched" => act - 1 \in 1 .. Len(s.ring)
  BY <1>1 DEF P!Having, Sound
<1>5. \A i \in mine : i \in 1 .. Len(s.ring) /\ i > LastSpent(s)
  BY <1>1, <1>3, <1>4 DEF LastSpent
<1>6. \A i \in 1 .. LastSpent(s) : i \in 1 .. Len(s.ring)
  BY <1>1 DEF LastSpent
<1> HIDE DEF mine
<1>7. ASSUME NEW k \in Needed(s), k \in Spent(s)
      PROVE  FALSE
  <2>1. PICK i \in mine : k = s.ring[i].keyId
    BY <1>2, <1>7 DEF KeyOf
  <2>2. PICK j \in 1 .. LastSpent(s) : k = s.ring[j].keyId
    BY <1>7 DEF Spent, KeyOf
  <2>3. i = j
    BY <1>1, <1>5, <1>6, <2>1, <2>2
  <2> QED
    BY <1>1, <1>5, <2>1, <2>2, <2>3 DEF LastSpent
<1> QED
  BY <1>7


(* What a step of the controller may rely on.                              *)
LEMMA Starts ==
    ASSUME Usable(State)
    PROVE  /\ P!IInv /\ Shape(State) /\ Sound(State)
           /\ transition \in P!Transition /\ accepted \in Generations
           /\ floor \in [serial : Nat, issuedAt : Nat]
           /\ Len(ring) \in Nat /\ DOMAIN ring = 1 .. Len(ring)
           /\ P!ActiveEpoch(ring) \in 1 .. Len(ring)
           /\ \A i \in 1 .. Len(ring) : KeyOf(ring, i) \in P!KeyIds
<1>1. Sound(State) /\ Shape(State) /\ Typed(State)
  BY DEF Usable
<1>2. P!IInv
  BY <1>1, SoundIsIInv
<1>3. /\ Len(ring) \in Nat /\ DOMAIN ring = 1 .. Len(ring)
      /\ P!ActiveEpoch(ring) \in 1 .. Len(ring)
      /\ \A i \in 1 .. Len(ring) : KeyOf(ring, i) \in P!KeyIds
  BY <1>1, RingOf, StateFields DEF KeyOf
<1>4. /\ transition \in P!Transition /\ accepted \in Generations
      /\ floor \in [serial : Nat, issuedAt : Nat]
  BY <1>1, StateFields DEF Typed
<1> QED
  BY <1>1, <1>2, <1>3, <1>4

LEMMA UsableNext ==
    ASSUME P!IInv', Shape(State)', transition' \in P!Transition,
           accepted' \in Generations, floor' \in [serial : Nat, issuedAt : Nat]
    PROVE  Usable(State)'
<1>1. Typed(State)'
  BY DEF Typed, State
<1>2. Sound(State)'
  BY SoundIsIInv
<1> QED
  BY <1>1, <1>2 DEF Usable

(* A key that is spent stays spent while the signer does not fall behind.  *)
LEMMA SpentStays ==
    ASSUME P!ActiveEpoch(ring) \in Nat,
           P!ActiveEpoch(ring') - (IF phase' = "switched" THEN 2 ELSE 1)
               >= P!ActiveEpoch(ring) - (IF phase = "switched" THEN 2 ELSE 1),
           P!ActiveEpoch(ring') \in Nat,
           \A i \in 1 .. P!ActiveEpoch(ring) : ring'[i].keyId = ring[i].keyId
    PROVE  Spent(State) \subseteq Spent(State)'
<1> DEFINE last == P!ActiveEpoch(ring) - (IF phase = "switched" THEN 2 ELSE 1)
<1> DEFINE lastNext == P!ActiveEpoch(ring') - (IF phase' = "switched" THEN 2 ELSE 1)
<1>1. Spent(State) = {ring[i].keyId : i \in 1 .. last}
  BY DEF Spent, LastSpent, KeyOf, State
<1>2. Spent(State)' = {ring'[i].keyId : i \in 1 .. lastNext}
  BY DEF Spent, LastSpent, KeyOf, State
<1>3. \A i \in 1 .. last : i \in 1 .. lastNext /\ ring'[i].keyId = ring[i].keyId
  BY DEF last, lastNext
<1> HIDE DEF last, lastNext
<1> QED
  BY <1>1, <1>2, <1>3

-----------------------------------------------------------------------------
(* What a step of the controller makes of a usable state.                  *)

(* Another usable state, in which the keys that were spent still are.  A   *)
(* step that stays in the era either changes the phase alone, outside a    *)
(* switch, or is made in the middle of one and does not accept.            *)
Moves ==
    /\ Usable(State)' /\ Spent(State) \subseteq Spent(State)'
    /\ \/ accepted' = accepted /\ floor' = floor
       \/ NotBefore(accepted', accepted)
    /\ Len(ring') \in {Len(ring), Len(ring) + 1}
    /\ \/ accepted' # accepted \/ Len(ring') # Len(ring)
       \/ /\ ring' = ring /\ phase \notin Moving /\ phase' \notin Moving
          /\ phase' \in Accepting => phase \in Accepting
       \/ phase \in Moving /\ phase' \notin Accepting

(* Readiness, draining and the next rotation change the phase alone.       *)
LEMMA QuietMoves ==
    ASSUME Usable(State), OpenNext \/ \E g \in Generations : Ready(g) \/ Drain(g)
    PROVE  Moves
<1>1. /\ UNCHANGED <<accepted, floor>>
      /\ \/ K!BeginRotation /\ phase = "retired"
         \/ \E ev, ctx : K!CheckReadiness(ev, ctx)
         \/ \E ev, votes, m : K!ConfirmDrain(ev, votes, m)
  BY DEF OpenNext, Ready, Drain, Kept
<1>2. /\ ring' = ring
      /\ \/ phase = "retired" /\ phase' = "idle" /\ transition' = P!NoTransition
         \/ phase = "idle" /\ phase' = "ready" /\ transition' = transition
         \/ phase = "verified" /\ phase' = "drained" /\ transition' = transition
  BY <1>1, SameRing DEF K!BeginRotation, K!CheckReadiness, K!ConfirmDrain
<1>3. P!IInv'
  <2>1. P!AnyStep
    BY <1>1, SameSteps DEF P!AnyStep
  <2> QED
    BY <2>1, Starts, P!AnyStepIInv, Assumed
<1>4. Shape(State)'
  BY <1>1, <1>2, Starts DEF Shape, State
<1>5. Spent(State) \subseteq Spent(State)'
  BY <1>2, Starts, SpentStays
<1>6. transition' \in P!Transition
  BY <1>2, Starts DEF P!Transition, P!NoTransition
<1> QED
  BY <1>1, <1>2, <1>3, <1>4, <1>5, <1>6, Starts, UsableNext DEF Moves, Moving, Accepting

(* A candidate opens a new era.                                            *)
LEMMA StageMoves ==
    ASSUME Usable(State), NEW g \in Generations, Stage(g)
    PROVE  Moves
<1>1. PICK c \in Candidates, tick \in Ticks : K!StageCandidate(c, tick)
  BY DEF Stage
<1>2. UNCHANGED <<accepted, floor>>
  BY DEF Stage, Kept
<1>3. P!StageCandidate(c, tick) /\ P!IInv
  BY <1>1, SameSteps, Starts
<1>4. /\ P!IInv' /\ Len(ring') = Len(ring) + 1
      /\ \A i \in DOMAIN ring : ring'[i] = ring[i]
      /\ P!ActiveEpoch(ring') = P!ActiveEpoch(ring)
  BY <1>3, P!StageStep, Assumed
<1>5. phase = "ready" /\ phase' = "staged" /\ transition' = transition
  BY <1>3 DEF P!StageCandidate
<1>6. Shape(State)'
  BY <1>2, <1>5, Starts DEF Shape, State
<1>7. Spent(State) \subseteq Spent(State)'
  BY <1>4, <1>5, Starts, SpentStays
<1>8. Len(ring) \in Nat
  BY Starts
<1>9. Len(ring') # Len(ring)
  BY <1>4, <1>8
<1> QED
  BY <1>2, <1>4, <1>5, <1>6, <1>7, <1>9, Starts, UsableNext DEF Moves

LEMMA LockMoves ==
    ASSUME Usable(State), NEW g \in Generations, Lock(g)
    PROVE  Moves
<1>1. UNCHANGED <<accepted, floor>>
  BY DEF Lock, Kept
<1>2. PICK to \in K!Having(ring, "staged"), head \in ChainHeads,
           votes \in VoteSets, m \in Thresholds, ctx \in Ctxs :
          /\ to = K!ActiveEpoch(ring) + 1
          /\ K!CommitTripleLock([fromEpoch |-> K!ActiveEpoch(ring), toEpoch |-> to,
                                 prevChainHead |-> head],
                                head, votes, m, ctx)
  BY DEF Lock
<1> DEFINE trans == [fromEpoch |-> P!ActiveEpoch(ring), toEpoch |-> to,
                     prevChainHead |-> head]
<1>3. /\ to = P!ActiveEpoch(ring) + 1
      /\ P!CommitTripleLock(trans, head, votes, m, ctx)
  BY <1>2, SameRing, SameSteps
<1>4. P!IInv'
  <2> HIDE DEF trans
  <2> QED
    BY <1>3, Starts, P!CommitStep, Assumed
<1>5. phase = "staged" /\ phase' = "locked" /\ transition' = trans /\ ring' = ring
  BY <1>3 DEF P!CommitTripleLock
<1>6. transition' \in P!Transition /\ transition' # P!NoTransition
  BY <1>3, <1>5, Starts DEF P!Transition, P!NoTransition
<1>7. Shape(State)'
  BY <1>1, <1>5, <1>6, Starts DEF Shape, State
<1>8. Spent(State) \subseteq Spent(State)'
  BY <1>5, Starts, SpentStays
<1> QED
  BY <1>1, <1>4, <1>5, <1>6, <1>7, <1>8, Starts, UsableNext DEF Moves, Moving, Accepting

LEMMA SwitchMoves ==
    ASSUME Usable(State), NEW g \in Generations, Switch(g)
    PROVE  Moves
<1>1. UNCHANGED <<accepted, floor>>
  BY DEF Switch, Kept
<1>2. PICK tick \in Ticks : P!SwitchEpoch(tick)
  BY SameSteps DEF Switch
<1>3. /\ P!IInv' /\ P!SameKeys(ring, ring')
      /\ P!ActiveEpoch(ring') = P!ActiveEpoch(ring) + 1
  BY <1>2, Starts, P!SwitchStep, Assumed
<1>4. phase = "locked" /\ phase' = "switched" /\ transition' = transition
  BY <1>2 DEF P!SwitchEpoch
<1>5. /\ Len(ring') = Len(ring)
      /\ \A i \in 1 .. Len(ring) : ring'[i].keyId = ring[i].keyId
  BY <1>3, Starts DEF P!SameKeys
<1>6. Shape(State)'
  <2>1. P!Having(ring', "staged") = {}
    <3>1. Sound(State)'
      BY <1>3, SoundIsIInv
    <3> QED
      BY <1>4, <3>1, NoneStaged DEF State
  <2> QED
    BY <1>1, <1>4, <2>1, Starts DEF Shape, State
<1>7. Spent(State) \subseteq Spent(State)'
  BY <1>3, <1>4, <1>5, Starts, SpentStays
<1> QED
  BY <1>1, <1>3, <1>4, <1>5, <1>6, <1>7, Starts, UsableNext DEF Moves, Moving, Accepting

(* An acceptance ends the era.                                             *)
LEMMA VerifyMoves ==
    ASSUME Usable(State), NEW g \in Generations, Verify(g)
    PROVE  Moves
<1>1. /\ accepted' = g
      /\ floor' = [serial |-> accepted.serial, issuedAt |-> accepted.issuedAt]
  BY DEF Verify
<1>2. \E ev, ctx : P!ConfirmTripleVerify(ev, ctx)
  BY SameSteps DEF Verify
<1>3. phase = "switched" /\ phase' = "verified" /\ UNCHANGED <<ring, transition>>
  BY <1>2 DEF P!ConfirmTripleVerify
<1>4. NotBefore(g, accepted)
  BY <1>3 DEF Verify, MayAdvance, Accepting, NotBefore
<1>5. /\ accepted.serial \in Nat /\ accepted.issuedAt \in Nat
      /\ g.serial \in Nat /\ g.issuedAt \in Nat
  BY Starts, GenerationsAssumption DEF Generation
<1>6. P!IInv'
  <2>1. P!AnyStep
    BY <1>2 DEF P!AnyStep
  <2> QED
    BY <2>1, Starts, P!AnyStepIInv, Assumed
<1>7. Shape(State)'
  <2>1. NotBefore(accepted', floor')
    BY <1>1, <1>4 DEF NotBefore
  <2> QED
    BY <1>3, <2>1, Starts DEF Shape, State
<1>8. Spent(State) \subseteq Spent(State)'
  BY <1>3, Starts, SpentStays
<1>9. accepted' # accepted
  BY <1>1, <1>4, <1>5 DEF NotBefore
<1>10. floor' \in [serial : Nat, issuedAt : Nat]
  BY <1>1, <1>5
<1> QED
  BY <1>1, <1>3, <1>4, <1>6, <1>7, <1>8, <1>9, <1>10, Starts, UsableNext DEF Moves

LEMMA FallBackMoves ==
    ASSUME Usable(State), NEW g \in Generations, FallBack(g)
    PROVE  Moves
<1>1. UNCHANGED <<accepted, floor>>
  BY DEF FallBack, Kept
<1>2. PICK tick \in Ticks : P!FallbackToOldEpoch(tick)
  BY SameSteps DEF FallBack
<1>3. /\ P!IInv' /\ P!SameKeys(ring, ring')
      /\ P!ActiveEpoch(ring') = P!ActiveEpoch(ring) - 1
      /\ P!ActiveEpoch(ring) - 1 \in DOMAIN ring
      /\ \A i \in DOMAIN ring :
             ring'[i].status \in {"revoked", "active", ring[i].status}
  <2>1. P!IInv
    BY Starts
  <2>2. /\ P!IInv' /\ P!SameKeys(ring, ring')
        /\ P!ActiveEpoch(ring') = P!ActiveEpoch(ring) - 1
        /\ P!ActiveEpoch(ring) - 1 \in DOMAIN ring
    BY <1>2, <2>1, P!FallbackStep, Assumed
  <2>3. \A i \in DOMAIN ring :
            ring'[i].status = CASE i = P!ActiveEpoch(ring) -> "revoked"
                                [] i = P!ActiveEpoch(ring) - 1 -> "active"
                                [] OTHER -> ring[i].status
    BY <1>2, <2>1, P!FallbackStep, Assumed
  <2> QED
    BY <2>2, <2>3
<1>4. phase = "switched" /\ phase' = "idle" /\ transition' = P!NoTransition
  BY <1>2 DEF P!FallbackToOldEpoch
<1>5. /\ Len(ring') = Len(ring)
      /\ \A i \in 1 .. Len(ring) : ring'[i].keyId = ring[i].keyId
  BY <1>3, Starts DEF P!SameKeys
<1>6. Shape(State)'
  <2>1. P!Having(ring, "staged") = {}
    BY <1>4, Starts DEF Shape, State
  <2>2. DOMAIN ring' = DOMAIN ring
    <3>1. ring' \in Seq(P!KeyEpoch)
      BY <1>3, SoundIsIInv DEF Sound, State
    <3> QED
      BY <1>5, <3>1, Starts
  <2>3. P!Having(ring', "staged") = {}
    BY <1>3, <2>1, <2>2 DEF P!Having
  <2> QED
    BY <1>1, <1>4, <2>3, Starts DEF Shape, State
<1>7. Spent(State) \subseteq Spent(State)'
  <2>1. P!ActiveEpoch(ring') \in Nat
    BY <1>3, Starts
  <2> QED
    BY <1>3, <1>4, <1>5, <2>1, Starts, SpentStays
<1>8. transition' \in P!Transition
  BY <1>4 DEF P!Transition, P!NoTransition
<1> QED
  BY <1>1, <1>3, <1>4, <1>5, <1>6, <1>7, <1>8, Starts, UsableNext
     DEF Moves, Moving, Accepting

(* The key that is destroyed is the last one that is spent.                *)
LEMMA RetireMoves ==
    ASSUME Usable(State), NEW g \in Generations, Retire(g)
    PROVE  LET act == P!ActiveEpoch(ring) IN
           /\ Moves
           /\ phase = "drained" /\ ring' = ring /\ phase' = "retired"
           /\ destroyed' = destroyed \cup {KeyOf(ring, act - 1)}
           /\ act - 1 \in 1 .. (act - 1) /\ act \in 1 .. Len(ring)
           /\ KeyOf(ring, act - 1) \in Spent(State)'
<1> DEFINE act == P!ActiveEpoch(ring)
<1>1. UNCHANGED <<accepted, floor>> /\ destroyed' = destroyed \cup {KeyOf(ring, act - 1)}
  BY SameRing DEF Retire, Kept, P!OldEpoch
<1>2. PICK tick \in Ticks : P!RetireOldEpoch(DestroyPrivate, tick)
  BY SameSteps DEF Retire
<1>3. phase = "drained" /\ phase' = "retired" /\ UNCHANGED <<ring, transition>>
  BY <1>2 DEF P!RetireOldEpoch, DestroyPrivate
<1>4. P!IInv'
  <2>1. DestroyPrivate \in P!RetirePolicy
    BY DEF DestroyPrivate, P!RetirePolicy
  <2>2. P!AnyStep
    BY <1>2, <2>1 DEF P!AnyStep
  <2> QED
    BY <2>2, Starts, P!AnyStepIInv, Assumed
<1>5. act - 1 \in 1 .. (act - 1) /\ act \in 1 .. Len(ring)
  <2>1. act - 1 \in DOMAIN ring
    BY <1>3, Starts DEF P!IInv, P!PhaseMatchesRing, P!Having
  <2> QED
    BY <2>1, Starts
<1>6. Spent(State) \subseteq Spent(State)'
  BY <1>3, Starts, SpentStays
<1>7. KeyOf(ring, act - 1) \in Spent(State)'
  BY <1>3, <1>5 DEF Spent, LastSpent, State
<1>8. Shape(State)'
  BY <1>1, <1>3, Starts DEF Shape, State
<1>9. Moves
  BY <1>1, <1>3, <1>4, <1>6, <1>8, Starts, UsableNext DEF Moves, Moving, Accepting
<1> QED
  BY <1>1, <1>3, <1>5, <1>7, <1>9

(* Every step of the controller, and the host's that opens a rotation.     *)
LEMMA AdvanceMoves ==
    ASSUME Usable(State), OpenNext \/ \E g \in Generations : Advance(g)
    PROVE  Moves /\ UNCHANGED host
<1>1. CASE OpenNext
  BY <1>1, QuietMoves DEF OpenNext
<1>2. ASSUME NEW g \in Generations, Advance(g)
      PROVE  Moves /\ UNCHANGED host
  <2>1. Moves
    BY <1>2, QuietMoves, StageMoves, LockMoves, SwitchMoves, VerifyMoves,
       FallBackMoves, RetireMoves DEF Advance
  <2>2. UNCHANGED host
    BY <1>2 DEF Advance, Ready, Stage, Lock, Switch, Verify, FallBack, Drain,
       Retire, Kept
  <2> QED
    BY <2>1, <2>2
<1> QED
  BY <1>1, <1>2

-----------------------------------------------------------------------------
(* With any host all states are usable.                                    *)

LEMMA FirstState == Init => IInv
<1> SUFFICES ASSUME Init PROVE IInv
  OBVIOUS
<1>1. PICK tick \in Ticks : ring = P!CreateKeyRing(Bootstrap.key, tick)
  BY SameRing DEF Init
<1>2. Bootstrap.key \in Candidates /\ P!CanCreate(Bootstrap.key)
  BY SameRing, GenerationsAssumption DEF Init, Generation
<1>3. /\ ring \in Seq(P!KeyEpoch) /\ P!VerifyRing(ring) /\ Len(ring) = 1
      /\ P!ActiveEpoch(ring) = 1 /\ ring[1].status = "active"
  BY <1>1, <1>2, P!CreateVerifies, Assumed DEF P!Ring
<1>4. phase = "idle" /\ transition = P!NoTransition /\ DOMAIN ring = {1}
  BY <1>3, SameRing DEF Init
<1>5. /\ accepted = Bootstrap /\ floor = [serial |-> 0, issuedAt |-> 0]
      /\ held = {} /\ sealed = {State} /\ newest = State
      /\ destroyed = {} /\ refused = {}
  BY DEF Init
<1>6. Sound(State)
  BY <1>3, <1>4 DEF Sound, State, P!Phase
<1>7. Typed(State)
  BY <1>4, <1>5, GenerationsAssumption DEF Typed, State, P!Transition, P!NoTransition
<1>8. Shape(State)
  BY <1>3, <1>4, <1>5, GenerationsAssumption
     DEF Shape, State, NotBefore, Generation, P!Having
<1>9. AllUsable
  BY <1>5, <1>6, <1>7, <1>8 DEF AllUsable, Usable
<1>10. Admitted \subseteq {State}
  BY <1>5 DEF Admitted
<1>11. Checkpoints
  BY <1>5, <1>10, StateFields DEF Checkpoints, SameEra
<1>12. Settled(Era)
  BY <1>4, <1>10, StateFields DEF Settled, Era, Accepting
<1> QED
  BY <1>5, <1>9, <1>11, <1>12 DEF IInv

LEMMA AllUsableKept ==
    ASSUME AllUsable, [Next]_vars
    PROVE  AllUsable'
<1>0. Usable(State)
  BY DEF AllUsable
<1>1. CASE Seal
  <2>1. /\ State' = State /\ sealed' = sealed \cup {State} /\ newest' = State
        /\ held' \subseteq held /\ UNCHANGED <<destroyed, refused>>
    BY <1>1 DEF Seal, process, State, Keeping
  <2>2. \A s \in sealed' \cup held' \cup {State'} : Usable(s)
    BY <2>1 DEF AllUsable
  <2> QED
    BY <2>1, <2>2 DEF AllUsable
<1>2. CASE Restore \/ TakeUp
  <2>1. /\ \E c \in sealed \cup held : Becomes(c) /\ held' \subseteq held \cup {c}
        /\ UNCHANGED <<sealed, newest, destroyed, refused>>
    BY <1>2 DEF Restore, TakeUp, Admitted, Keeping, host
  <2>2. PICK c \in sealed \cup held : Becomes(c) /\ held' \subseteq held \cup {c}
    BY <2>1
  <2>3. Usable(c)
    BY DEF AllUsable
  <2>4. State' = c
    BY <2>2, <2>3 DEF Becomes, State, Usable, Typed
  <2>5. \A s \in sealed' \cup held' \cup {State'} : Usable(s)
    BY <2>1, <2>2, <2>4 DEF AllUsable
  <2> QED
    BY <2>1, <2>5 DEF AllUsable
<1>3. CASE OpenNext \/ \E g \in Generations : Advance(g)
  <2>1. Usable(State') /\ UNCHANGED <<sealed, held, newest>>
    BY <1>0, <1>3, AdvanceMoves DEF Moves, host
  <2>2. \A s \in sealed' \cup held' \cup {State'} : Usable(s)
    BY <2>1 DEF AllUsable
  <2>3. destroyed' \subseteq P!KeyIds
    <3>1. CASE \E g \in Generations : Retire(g)
      <4>1. destroyed' = destroyed \cup {KeyOf(ring, P!ActiveEpoch(ring) - 1)}
        BY <1>0, <3>1, RetireMoves
      <4>2. P!ActiveEpoch(ring) - 1 \in 1 .. Len(ring)
        BY <1>0, <3>1, RetireMoves, Starts
      <4> QED
        BY <1>0, <4>1, <4>2, Starts DEF AllUsable
    <3>2. CASE ~ \E g \in Generations : Retire(g)
      BY <1>3, <3>2 DEF AllUsable, OpenNext, Advance, Ready, Stage, Lock, Switch,
                        Verify, FallBack, Drain
    <3> QED
      BY <3>1, <3>2
  <2>4. refused' \subseteq P!KeyIds
    <3>1. CASE \E g \in Generations : FallBack(g)
      <4>1. refused' = refused \cup {KeyOf(ring, P!ActiveEpoch(ring))}
        BY <3>1, SameRing DEF FallBack
      <4> QED
        BY <1>0, <4>1, Starts DEF AllUsable
    <3>2. CASE ~ \E g \in Generations : FallBack(g)
      BY <1>3, <3>2 DEF AllUsable, OpenNext, Advance, Ready, Stage, Lock, Switch,
                        Verify, Drain, Retire
    <3> QED
      BY <3>1, <3>2
  <2> QED
    BY <2>1, <2>2, <2>3, <2>4 DEF AllUsable
<1>4. CASE UNCHANGED vars
  <2>1. UNCHANGED <<State, sealed, held, newest, destroyed, refused>>
    BY <1>4 DEF vars, host, process, State
  <2>2. \A s \in sealed' \cup held' \cup {State'} : Usable(s)
    BY <2>1 DEF AllUsable
  <2> QED
    BY <2>1, <2>2 DEF AllUsable
<1> QED
  BY <1>1, <1>2, <1>3, <1>4 DEF Next

-----------------------------------------------------------------------------
(* With a careful host the checkpoints agree.                              *)

(* A host that keeps nothing beside the state it works on.                 *)
LEMMA NothingKept ==
    ASSUME MaxKept = 0
    PROVE  Keeping = {{}}
<1>1. ASSUME NEW kept \in Keeping PROVE kept = {}
  <2>1. IsFiniteSet(kept) /\ Cardinality(kept) =< 0
    BY DEF Keeping
  <2> QED
    BY <2>1, FS_CardinalityType, FS_EmptySet
<1>2. {} \in Keeping
  BY FS_EmptySet DEF Keeping
<1> QED
  BY <1>1, <1>2

LEMMA Numbers ==
    ASSUME NEW s, Usable(s)
    PROVE  /\ Len(s.ring) \in Nat
           /\ s.accepted.serial \in Nat /\ s.accepted.issuedAt \in Nat
           /\ s.floor.serial \in Nat /\ s.floor.issuedAt \in Nat
BY GenerationsAssumption DEF Usable, Typed, Sound, Generation

(* Of the checkpoints only those stay that are in the era of the new one.  *)
LEMMA SealKeeps ==
    ASSUME MaxKept = 0, IInv, Seal, AllUsable'
    PROVE  IInv'
<1>1. /\ newest' = State /\ State' = State /\ UNCHANGED <<destroyed, accepted, floor, ring>>
      /\ sealed' = sealed \cup {State}
      /\ held' = {}
  BY NothingKept DEF Seal, process, State
<1>2. newest \in sealed /\ \A s \in sealed \cup {State} : Usable(s)
  BY DEF IInv, AllUsable
<1>3. \A s \in sealed \cup {State} :
          /\ Len(s.ring) \in Nat
          /\ s.accepted.serial \in Nat /\ s.accepted.issuedAt \in Nat
          /\ s.floor.serial \in Nat /\ s.floor.issuedAt \in Nat
  BY <1>2, Numbers
<1>4. Admitted' = {c \in sealed \cup {State} : AtFloorsOf(c, State)}
  BY <1>1 DEF Admitted, AtFloorsOf
<1>5. State \in Admitted'
  BY <1>3, <1>4 DEF AtFloorsOf
<1>6. ASSUME NEW c \in Admitted', c # State
      PROVE  c \in Admitted /\ SameEra(State)
  <2>1. c \in sealed /\ AtFloorsOf(c, State)
    BY <1>4, <1>6
  <2>2. c.accepted = State.accepted /\ Len(c.ring) >= Len(State.ring)
    BY <2>1 DEF AtFloorsOf
  <2>3. c.accepted = newest.accepted \/ NotBefore(newest.accepted, c.accepted)
    BY <2>1 DEF IInv, Checkpoints
  <2>4. /\ \/ State.accepted = newest.accepted /\ State.floor = newest.floor
           \/ NotBefore(State.accepted, newest.accepted)
        /\ Len(State.ring) \in {Len(newest.ring), Len(newest.ring) + 1}
    BY StateFields DEF IInv, Checkpoints
  <2>5. State.accepted = newest.accepted /\ State.floor = newest.floor
    BY <1>2, <1>3, <2>2, <2>3, <2>4 DEF NotBefore
  <2>6. AtFloorsOf(c, newest)
    BY <1>2, <1>3, <2>1, <2>4, <2>5 DEF AtFloorsOf
  <2>7. c \in Admitted
    BY <2>1, <2>6 DEF Admitted
  <2>8. Len(c.ring) = Len(newest.ring)
    BY <2>7 DEF IInv, Checkpoints, SameEra
  <2>9. Len(State.ring) = Len(newest.ring)
    BY <1>2, <1>3, <2>2, <2>4, <2>8
  <2> QED
    BY <2>5, <2>7, <2>9 DEF SameEra
<1>7. \A c \in Admitted' : SameEra(c)'
  <2>1. ASSUME NEW c \in Admitted', c # State
        PROVE  /\ c.accepted = State.accepted /\ c.floor = State.floor
               /\ Len(c.ring) = Len(State.ring)
    BY <1>6, <2>1 DEF IInv, Checkpoints, SameEra
  <2> QED
    BY <1>1, <2>1 DEF SameEra
<1>8. \A c \in sealed' : c.accepted = State.accepted \/ NotBefore(State.accepted, c.accepted)
  <2>1. ASSUME NEW c \in sealed
        PROVE  c.accepted = State.accepted \/ NotBefore(State.accepted, c.accepted)
    <3>1. c.accepted = newest.accepted \/ NotBefore(newest.accepted, c.accepted)
      BY DEF IInv, Checkpoints
    <3>2. State.accepted = newest.accepted \/ NotBefore(State.accepted, newest.accepted)
      BY StateFields DEF IInv, Checkpoints
    <3> QED
      BY <1>2, <1>3, <3>1, <3>2 DEF NotBefore
  <2> QED
    BY <1>1, <2>1
<1>9. Checkpoints'
  <2>1. accepted' = newest'.accepted /\ floor' = newest'.floor /\ Len(ring') = Len(newest'.ring)
    BY <1>1, StateFields
  <2>2. held' \subseteq Admitted'
    BY <1>1
  <2>3. \A c \in sealed' : \/ c.accepted = newest'.accepted
                           \/ NotBefore(newest'.accepted, c.accepted)
    BY <1>1, <1>8
  <2> QED
    BY <1>7, <2>1, <2>2, <2>3 DEF Checkpoints
<1>10. Era' \subseteq Era \/ Era' \subseteq {State}
  <2>1. Era' \subseteq Admitted'
    BY <1>1, <1>5 DEF Era
  <2>2. CASE SameEra(State)
    <3>1. \A c \in Admitted' : c \in Admitted \/ c = State
      BY <1>6
    <3> QED
      BY <2>1, <2>2, <3>1 DEF Era, IInv, Checkpoints
  <2>3. CASE ~SameEra(State)
    BY <1>6, <2>1, <2>3
  <2> QED
    BY <2>2, <2>3
<1>11. Settled(Era)'
  <2>1. CASE Era' \subseteq Era
    BY <2>1 DEF IInv, Settled
  <2>2. CASE Era' \subseteq {State}
    BY <2>2 DEF Settled, Accepting, Moving
  <2> QED
    BY <1>10, <2>1, <2>2
<1>12. \A s \in Admitted' \cup {State'} : destroyed' \subseteq Spent(s)
  BY <1>1, <1>6 DEF IInv
<1> QED
  BY <1>9, <1>11, <1>12 DEF IInv

(* Coming back to a checkpoint, or to the state restored from it.          *)
LEMMA RestoreKeeps ==
    ASSUME MaxKept = 0, IInv, Restore \/ TakeUp, AllUsable'
    PROVE  IInv'
<1>1. PICK c \in Admitted : Becomes(c) /\ held' \subseteq Admitted
  <2>1. ASSUME Restore
        PROVE  \E c \in Admitted : Becomes(c) /\ held' \subseteq Admitted
    BY <2>1, NothingKept DEF Restore
  <2>2. ASSUME TakeUp
        PROVE  \E c \in Admitted : Becomes(c) /\ held' \subseteq Admitted
    BY <2>2 DEF TakeUp, host, IInv, Checkpoints
  <2> QED
    BY <2>1, <2>2
<1>2. UNCHANGED <<sealed, newest, destroyed>>
  BY DEF Restore, TakeUp, host
<1>3. Usable(c) /\ SameEra(c)
  BY DEF IInv, AllUsable, Checkpoints, Admitted
<1>4. State' = c
  BY <1>1, <1>3 DEF Becomes, State, Usable, Typed
<1>5. /\ accepted' = newest.accepted /\ floor' = newest.floor
      /\ Len(ring') = Len(newest.ring)
  BY <1>1, <1>3 DEF Becomes, SameEra
<1>6. Admitted' = Admitted
  BY <1>2 DEF Admitted, AtFloorsOf
<1>7. Checkpoints'
  BY <1>1, <1>2, <1>5, <1>6 DEF IInv, Checkpoints, SameEra
<1>8. Era' \subseteq Era
  BY <1>2, <1>4, <1>6 DEF Era, SameEra
<1>9. Settled(Era)'
  BY <1>8 DEF IInv, Settled
<1>10. \A s \in Admitted' \cup {State'} : destroyed' \subseteq Spent(s)
  BY <1>2, <1>4, <1>6 DEF IInv
<1> QED
  BY <1>7, <1>9, <1>10 DEF IInv

LEMMA StutterKeeps ==
    ASSUME IInv, UNCHANGED vars, AllUsable'
    PROVE  IInv'
<1>1. UNCHANGED <<State, sealed, held, newest, destroyed, accepted, floor, ring>>
  BY DEF vars, host, process, State
<1>2. Admitted' = Admitted
  BY <1>1 DEF Admitted, AtFloorsOf
<1>3. Checkpoints'
  BY <1>1, <1>2 DEF IInv, Checkpoints, SameEra
<1>4. Era' = Era
  BY <1>1, <1>2 DEF Era, SameEra
<1>5. Settled(Era)'
  BY <1>4 DEF IInv, Settled
<1>6. \A s \in Admitted' \cup {State'} : destroyed' \subseteq Spent(s)
  BY <1>1, <1>2 DEF IInv
<1> QED
  BY <1>3, <1>5, <1>6 DEF IInv

(* A call of the controller starts from an admitted checkpoint and leaves  *)
(* the checkpoints alone.                                                  *)
LEMMA StepKeeps ==
    ASSUME IInv, State \in Admitted, Moves, UNCHANGED host, AllUsable',
           destroyed' \subseteq Spent(State)',
           \A c \in Admitted : destroyed' \subseteq Spent(c)
    PROVE  IInv'
<1>1. SameEra(State) /\ \A c \in Admitted : SameEra(c)
  BY DEF IInv, Checkpoints
<1>2. /\ accepted = newest.accepted /\ floor = newest.floor
      /\ Len(ring) = Len(newest.ring)
  BY <1>1, StateFields DEF SameEra
<1>3. UNCHANGED <<sealed, held, newest>> /\ Admitted' = Admitted
  BY DEF host, Admitted, AtFloorsOf
<1>4. Checkpoints'
  BY <1>1, <1>2, <1>3 DEF IInv, Checkpoints, SameEra, Moves
<1>5. Era = Admitted
  BY <1>1 DEF Era
<1>6. Settled(Admitted)
  BY <1>5 DEF IInv
<1>7. Settled(Era')
  <2>1. CASE ~SameEra(State')
    <3>1. Era' \subseteq Admitted
      BY <1>3, <2>1 DEF Era, SameEra
    <3> QED
      BY <1>6, <3>1 DEF Settled
  <2>2. CASE /\ ring' = ring /\ phase \notin Moving /\ phase' \notin Moving
             /\ phase' \in Accepting => phase \in Accepting
    <3>1. Era' \subseteq Admitted \cup {State'}
      BY <1>3 DEF Era
    <3>2. /\ State'.ring = State.ring /\ State'.phase \notin Moving
          /\ State'.phase \in Accepting => State.phase \in Accepting
      BY <2>2 DEF State
    <3> QED
      BY <1>6, <3>1, <3>2 DEF Settled
  <2>3. CASE phase \in Moving /\ phase' \notin Accepting
    <3>1. Era' \subseteq Admitted \cup {State'}
      BY <1>3 DEF Era
    <3>2. State.phase \in Moving /\ State'.phase \notin Accepting
      BY <2>3 DEF State
    <3> QED
      BY <1>6, <3>1, <3>2 DEF Settled
  <2>4. SameEra(State') => accepted' = accepted /\ Len(ring') = Len(ring)
    BY <1>2 DEF SameEra, State
  <2> QED
    BY <2>1, <2>2, <2>3, <2>4 DEF Moves
<1>8. Settled(Era)'
  BY <1>7 DEF Settled
<1>9. \A s \in Admitted' \cup {State'} : destroyed' \subseteq Spent(s)
  BY <1>3
<1> QED
  BY <1>4, <1>8, <1>9 DEF IInv

LEMMA AdvanceKeeps ==
    ASSUME IInv, NEW g \in Generations, Advance(g), AllUsable'
    PROVE  IInv'
<1>1. State \in held
  BY DEF Advance, Ready, Stage, Lock, Switch, Verify, FallBack, Drain, Retire, MayAdvance
<1>2. Usable(State) /\ State \in Admitted
  BY <1>1 DEF IInv, AllUsable, Checkpoints
<1>3. Moves /\ UNCHANGED host
  BY <1>2, AdvanceMoves
<1>4. Spent(State) \subseteq Spent(State)' /\ \A c \in Admitted : destroyed \subseteq Spent(c)
  BY <1>3 DEF Moves, IInv
<1>5. CASE Retire(g)
  <2> DEFINE key == KeyOf(ring, P!ActiveEpoch(ring) - 1)
  <2>1. /\ phase = "drained" /\ destroyed' = destroyed \cup {key}
        /\ P!ActiveEpoch(ring) - 1 \in 1 .. (P!ActiveEpoch(ring) - 1)
        /\ key \in Spent(State)'
    BY <1>2, <1>5, RetireMoves
  <2>2. \A c \in Admitted : c.ring = ring /\ c.phase \notin Moving
    <3>1. Admitted \subseteq Era /\ State.phase \in Accepting
      BY <2>1, StateFields DEF IInv, Checkpoints, Era, Accepting
    <3>2. \A c \in Admitted : c.ring = State.ring /\ c.phase \notin Moving
      BY <1>2, <3>1 DEF IInv, Settled
    <3> QED
      BY <3>2, StateFields
  <2>3. \A c \in Admitted : key \in Spent(c)
    BY <2>1, <2>2 DEF Spent, LastSpent, Moving
  <2> HIDE DEF key
  <2> QED
    BY <1>2, <1>3, <1>4, <2>1, <2>3, StepKeeps
<1>6. CASE ~Retire(g)
  <2>1. destroyed' = destroyed
    BY <1>6 DEF Advance, Ready, Stage, Lock, Switch, Verify, FallBack, Drain
  <2> QED
    BY <1>2, <1>3, <1>4, <2>1, StepKeeps
<1> QED
  BY <1>5, <1>6

(* The next rotation starts with the ring of the one that is retired.      *)
LEMMA OpenNextKeeps ==
    ASSUME IInv, OpenNext, AllUsable'
    PROVE  IInv'
<1>1. /\ phase = "retired" /\ phase' = "idle"
      /\ UNCHANGED <<ring, accepted, floor, sealed, held, newest, destroyed>>
  BY DEF OpenNext, K!BeginRotation, host
<1>2. Usable(State) /\ Moves
  BY AdvanceMoves DEF IInv, AllUsable
<1>3. Admitted' = Admitted
  BY <1>1 DEF Admitted, AtFloorsOf
<1>4. Checkpoints'
  BY <1>1, <1>3 DEF IInv, Checkpoints, SameEra
<1>5. SameEra(State)' <=> SameEra(State)
  BY <1>1, StateFields DEF SameEra, State
<1>6. Era' \subseteq Era \cup {State'}
  BY <1>1, <1>3 DEF Era, SameEra
<1>7. State' \in Era' => State \in Era
  BY <1>5 DEF Era, SameEra, IInv, Checkpoints
<1>8. Settled(Era)'
  <2>1. State'.ring = State.ring /\ State'.phase \notin Moving /\ State.phase \in Accepting
    BY <1>1 DEF State, Moving, Accepting
  <2>2. CASE State' \in Era'
    BY <1>6, <1>7, <2>1, <2>2 DEF IInv, Settled
  <2>3. CASE State' \notin Era'
    BY <1>6, <2>3 DEF IInv, Settled
  <2> QED
    BY <2>2, <2>3
<1>9. \A s \in Admitted' \cup {State'} : destroyed' \subseteq Spent(s)
  BY <1>1, <1>2, <1>3 DEF IInv, Moves
<1> QED
  BY <1>4, <1>8, <1>9 DEF IInv

LEMMA Preserves ==
    ASSUME MaxKept = 0, IInv, [Next]_vars
    PROVE  IInv'
<1>1. AllUsable'
  BY AllUsableKept DEF IInv
<1> QED
  BY <1>1, SealKeeps, RestoreKeeps, OpenNextKeeps, AdvanceKeeps, StutterKeeps DEF Next

-----------------------------------------------------------------------------
(* The theorems.                                                           *)

(* Whatever the host keeps, every state it is in or holds and every        *)
(* checkpoint ever sealed is usable: its ring, phase, transition, floors   *)
(* and what it accepts fit together as the phase machine left them.        *)
THEOREM StatesUsable == Spec => []AllUsable
<1>1. Init => AllUsable
  BY FirstState DEF IInv
<1>2. AllUsable /\ [Next]_vars => AllUsable'
  BY AllUsableKept
<1> QED
  BY <1>1, <1>2, PTL DEF Spec

(* The controller's variables always have their types, and the checkpoint  *)
(* sealed last is always among those that can be restored.                 *)
THEOREM TypeCorrect == Spec => []TypeOK
<1>1. ASSUME AllUsable PROVE TypeOK
  <2>1. Usable(State) /\ Usable(newest) /\ newest \in sealed
    BY <1>1 DEF AllUsable
  <2>2. ring \in Seq(P!KeyEpoch) /\ phase \in P!Phase /\ transition \in P!Transition
    BY <2>1, StateFields DEF Usable, Sound, Typed
  <2>3. K!TypeOK
    BY <2>2, SameTypes DEF K!TypeOK
  <2>4. accepted \in Generations /\ floor \in [serial : Nat, issuedAt : Nat]
    BY <2>1, Starts
  <2>5. newest \in Admitted
    BY <2>1, Numbers DEF Admitted, AtFloorsOf
  <2> QED
    BY <1>1, <2>3, <2>4, <2>5, SameTypes DEF TypeOK, AllUsable
<1>2. AllUsable => TypeOK
  BY <1>1
<1> QED
  BY StatesUsable, <1>2, PTL

(* Whatever the host keeps, no call of the controller answers a state that *)
(* a checkpoint refuses for anything but its length.                       *)
THEOREM RefusedForSizeOnly == Spec => []OnlySizeRefused
<1>1. AllUsable => OnlySizeRefused
  BY UsableIsWellFormed DEF AllUsable, OnlySizeRefused, Sealable
<1> QED
  BY StatesUsable, <1>1, PTL

(* With a careful host, in every reachable state, the host's state and     *)
(* every checkpoint it may come back to agree with the newest one on what  *)
(* is accepted and on how long the ring is, and are settled together.      *)
THEOREM Invariance ==
    ASSUME MaxKept = 0
    PROVE  Spec => []IInv
<1>1. IInv /\ [Next]_vars => IInv'
  BY Preserves
<1> QED
  BY FirstState, <1>1, PTL DEF Spec

(* With a careful host a destroyed private key is needed by no state it is *)
(* in or holds, and by no checkpoint that a crash, before or after the key *)
(* was destroyed, may bring it back to.                                    *)
THEOREM KeysKept ==
    ASSUME MaxKept = 0
    PROVE  Spec => []NeededKeysKept
<1>1. ASSUME IInv PROVE NeededKeysKept
  <2>1. held \subseteq Admitted
    BY <1>1 DEF IInv, Checkpoints
  <2>2. \A s \in Admitted \cup {State} : Sound(s) /\ destroyed \subseteq Spent(s)
    BY <1>1 DEF IInv, AllUsable, Usable, Admitted
  <2>3. \A s \in Admitted \cup {State} : Needed(s) \cap Spent(s) = {}
    BY <2>2, NeededIsNotSpent
  <2> QED
    BY <2>1, <2>2, <2>3 DEF NeededKeysKept
<1>2. IInv => NeededKeysKept
  BY <1>1
<1> QED
  BY Invariance, <1>2, PTL

(* With a careful host, from one sealed checkpoint to the next, through    *)
(* any crashes and older checkpoints in between, the accepted generation   *)
(* stays or is newer in serial and in time.                                *)
THEOREM NoAcceptedRollback ==
    ASSUME MaxKept = 0
    PROVE  Spec => AcceptedForward
<1> DEFINE Forward ==
        newest'.accepted # newest.accepted =>
            /\ newest'.accepted.serial > newest.accepted.serial
            /\ newest'.accepted.issuedAt > newest.accepted.issuedAt
<1>1. ASSUME IInv, [Next]_vars PROVE Forward
  <2>1. CASE Seal
    <3>1. newest'.accepted = accepted
      BY <2>1, StateFields DEF Seal
    <3> QED
      BY <1>1, <3>1 DEF IInv, Checkpoints, NotBefore
  <2>2. CASE Restore \/ TakeUp \/ OpenNext \/ (\E g \in Generations : Advance(g))
             \/ UNCHANGED vars
    <3>1. UNCHANGED newest
      BY <2>2 DEF Restore, TakeUp, OpenNext, Advance, Ready, Stage, Lock, Switch,
                  Verify, FallBack, Drain, Retire, Kept, vars, host
    <3> QED
      BY <3>1
  <2> QED
    BY <1>1, <2>1, <2>2 DEF Next
<1>2. IInv /\ [Next]_vars => [Forward]_vars
  BY <1>1
<1> QED
  BY <1>2, Invariance, PTL DEF Spec, AcceptedForward
=============================================================================
