--------------------------- MODULE KeyRotationProofs ---------------------------
(***************************************************************************)
(* The phase machine of KeyRotation keeps its invariants, moves epochs     *)
(* forward only and implements SigningAuthority, for every set of          *)
(* candidates, ticks, witnesses and custody answers.                       *)
(***************************************************************************)
EXTENDS KeyRotation, KeyRingProofs

-----------------------------------------------------------------------------
(* Verdicts.                                                               *)

(* A conjunction of verdicts allows only if every one of them does.        *)
LEMMA AllOfAllows ==
    ASSUME NEW vs, vs \subseteq Verdict, vs # {}
    PROVE  /\ AllOf(vs) \in Verdict
           /\ AllOf(vs) = ALLOW => \A v \in vs : v = ALLOW
<1>1. \E v \in vs : \A w \in vs : v =< w
  <2>1. CASE DENY \in vs
    BY <2>1 DEF Verdict, DENY, INDETERMINATE, ALLOW
  <2>2. CASE DENY \notin vs /\ INDETERMINATE \in vs
    BY <2>2 DEF Verdict, DENY, INDETERMINATE, ALLOW
  <2>3. CASE DENY \notin vs /\ INDETERMINATE \notin vs
    <3>1. vs = {ALLOW}
      BY <2>3 DEF Verdict
    <3> QED BY <3>1 DEF ALLOW
  <2> QED BY <2>1, <2>2, <2>3
<1>2. AllOf(vs) \in vs /\ \A w \in vs : AllOf(vs) =< w
  BY <1>1 DEF AllOf
<1>3. AllOf(vs) \in Verdict
  BY <1>2
<1>4. ASSUME AllOf(vs) = ALLOW, NEW v \in vs
      PROVE  v = ALLOW
  <2>1. ALLOW =< v
    BY <1>2, <1>4
  <2>2. v \in Verdict
    BY <1>4
  <2> QED BY <2>1, <2>2 DEF Verdict, DENY, INDETERMINATE, ALLOW
<1> QED BY <1>3, <1>4

LEMMA ClauseTypes ==
    /\ \A b \in BOOLEAN : Clause(b) \in Verdict /\ (Clause(b) = ALLOW => b)
    /\ \A b \in BOOLEAN : Wait(b) \in Verdict
    /\ \A s : SeamVerdict(s) \in Verdict
BY DEF Clause, Wait, SeamVerdict, Verdict, ALLOW, DENY, INDETERMINATE

LEMMA LockCType == \A votes, m : LockCVerdict(votes, m) \in Verdict
BY DEF LockCVerdict, QuorumVerdict, Clause, Verdict, ALLOW, DENY, INDETERMINATE

(* Lock A allows only the staged epoch that follows the active one.        *)
LEMMA LockAAllows ==
    ASSUME NEW cand, NEW ctx
    PROVE  /\ LockAVerdict(cand, ctx) \in Verdict
           /\ LockAVerdict(cand, ctx) = ALLOW =>
                  /\ VerifyRing(ring)
                  /\ cand \in Having(ring, "staged")
                  /\ cand = ActiveEpoch(ring) + 1
<1> DEFINE vs == {Clause(WellFormedCommit(ring[cand].keyCommit)),
                  Clause(\A i \in DOMAIN ring \ {cand} : ~SameKey(ring[i], ring[cand])),
                  SeamVerdict(ctx.candidateRoundTrip),
                  Clause(cand = ActiveEpoch(ring) + 1)}
<1>1. vs \subseteq Verdict /\ vs # {}
  <2>1. /\ Clause(WellFormedCommit(ring[cand].keyCommit)) \in Verdict
        /\ Clause(cand = ActiveEpoch(ring) + 1) \in Verdict
    BY DEF Clause, Verdict
  <2>2. Clause(\A i \in DOMAIN ring \ {cand} : ~SameKey(ring[i], ring[cand])) \in Verdict
    BY DEF Clause, Verdict
  <2>3. SeamVerdict(ctx.candidateRoundTrip) \in Verdict
    BY ClauseTypes
  <2> QED BY <2>1, <2>2, <2>3, Zenon
<1>2. AllOf(vs) \in Verdict
      /\ (AllOf(vs) = ALLOW => Clause(cand = ActiveEpoch(ring) + 1) = ALLOW)
  <2> HIDE DEF vs
  <2>1. Clause(cand = ActiveEpoch(ring) + 1) \in vs
    BY DEF vs
  <2> QED BY <1>1, <2>1, AllOfAllows
<1>3. DENY \in Verdict /\ DENY # ALLOW
  BY DEF Verdict, DENY, ALLOW
<1>4. LockAVerdict(cand, ctx) =
          IF ~VerifyRing(ring) \/ cand \notin Having(ring, "staged")
          THEN DENY ELSE AllOf(vs)
  BY DEF LockAVerdict
<1> HIDE DEF vs
<1> QED BY <1>2, <1>3, <1>4, ClauseTypes

(* Lock B allows only the handover from the active epoch to the next.      *)
LEMMA LockBAllows ==
    ASSUME NEW trans, NEW head, NEW ctx
    PROVE  /\ LockBVerdict(trans, head, ctx) \in Verdict
           /\ LockBVerdict(trans, head, ctx) = ALLOW =>
                  /\ trans.fromEpoch = ActiveEpoch(ring)
                  /\ trans.toEpoch = ActiveEpoch(ring) + 1
<1> DEFINE last == /\ trans.fromEpoch = ActiveEpoch(ring)
                   /\ trans.toEpoch = ActiveEpoch(ring) + 1
<1> DEFINE vs == {SeamVerdict(ctx.currentChain),
                  Clause(/\ trans.prevChainHead # NoHead
                         /\ trans.prevChainHead = head),
                  SeamVerdict(ctx.transitionMacOld),
                  SeamVerdict(ctx.transitionMacNew),
                  Clause(last)}
<1>1. vs \subseteq Verdict /\ vs # {}
  BY ClauseTypes
<1>2. AllOf(vs) \in Verdict /\ (AllOf(vs) = ALLOW => Clause(last) = ALLOW)
  <2> HIDE DEF vs
  <2>1. Clause(last) \in vs
    BY DEF vs
  <2> QED BY <1>1, <2>1, AllOfAllows
<1>3. DENY \in Verdict /\ DENY # ALLOW
  BY DEF Verdict, DENY, ALLOW
<1>4. LockBVerdict(trans, head, ctx) = IF ~VerifyRing(ring) THEN DENY ELSE AllOf(vs)
  BY DEF LockBVerdict
<1> HIDE DEF vs
<1> QED BY <1>2, <1>3, <1>4, ClauseTypes

(* The triple lock: a staged epoch exists, it follows the active one, and  *)
(* the transition leads from the one to the other.                         *)
LEMMA TripleLockAllows ==
    ASSUME NEW trans, NEW head, NEW votes, NEW m, NEW ctx,
           Authorizes(TripleLockVerdict(trans, head, votes, m, ctx))
    PROVE  /\ ActiveEpoch(ring) + 1 \in Having(ring, "staged")
           /\ trans.fromEpoch = ActiveEpoch(ring)
           /\ trans.toEpoch = ActiveEpoch(ring) + 1
<1> DEFINE cand == CHOOSE i \in Having(ring, "staged") : TRUE
<1> DEFINE a == IF Having(ring, "staged") = {} THEN DENY ELSE LockAVerdict(cand, ctx)
<1> DEFINE b == LockBVerdict(trans, head, ctx)
<1> DEFINE c == LockCVerdict(votes, m)
<1>1. AllOf({a, b, c}) = ALLOW
  BY DEF Authorizes, TripleLockVerdict
<1>2. DENY \in Verdict /\ DENY # ALLOW
  BY DEF Verdict, DENY, ALLOW
<1>3. a \in Verdict /\ b \in Verdict /\ c \in Verdict
  BY <1>2, LockAAllows, LockBAllows, LockCType
<1>4. a = ALLOW /\ b = ALLOW
  <2> HIDE DEF a, b, c
  <2> QED BY <1>1, <1>3, AllOfAllows
<1>5. LockAVerdict(cand, ctx) = ALLOW
  BY <1>2, <1>4
<1> QED BY <1>4, <1>5, LockAAllows, LockBAllows

(* The canary: as many clean batches were seen as were asked for.          *)
LEMMA VerifyAllows ==
    ASSUME NEW ev, NEW ctx, Authorizes(TripleVerifyVerdict(ev, ctx))
    PROVE  ~(ev.canaryN < 1) /\ ev.cleanBatches >= ev.canaryN
<1> DEFINE linked == /\ ev.firstNewBatchPrevHash # NoHead
                     /\ ev.firstNewBatchPrevHash = ev.lastOldBatchHash
<1> DEFINE enough == ev.cleanBatches >= ev.canaryN
<1> DEFINE vs == {SeamVerdict(ctx.forwardProbe), SeamVerdict(ctx.backwardSample),
                  Clause(linked), Wait(enough)}
<1>1. vs \subseteq Verdict /\ vs # {}
  <2>1. /\ Clause(linked) \in Verdict /\ Wait(enough) \in Verdict
        /\ SeamVerdict(ctx.forwardProbe) \in Verdict
        /\ SeamVerdict(ctx.backwardSample) \in Verdict
    BY ClauseTypes DEF Clause, Wait, Verdict
  <2> QED BY <2>1, Zenon
<1>2. /\ ~(ev.canaryN < 1 \/ ev.cleanBatches < 0)
      /\ AllOf(vs) = ALLOW
  BY DEF Authorizes, TripleVerifyVerdict, INDETERMINATE, ALLOW
<1>3. Wait(enough) = ALLOW
  <2>1. Wait(enough) \in vs
    OBVIOUS
  <2> HIDE DEF vs
  <2> QED BY <1>1, <1>2, <2>1, AllOfAllows
<1> QED BY <1>2, <1>3 DEF Wait, ALLOW, INDETERMINATE

-----------------------------------------------------------------------------
(* The inductive invariant.                                                *)

(* Right after the switch the old epoch carries the switch tick, which is  *)
(* not before the new epoch was created.  AlwaysAWayOut needs it, and no   *)
(* other conjunct records it.                                              *)
SwitchTicks ==
    phase = "switched" =>
        ring[ActiveEpoch(ring) - 1].retiredTick >= ring[ActiveEpoch(ring)].createdTick

(* The types of the ring and the phase.  That of the locked transition is  *)
(* left to TypeCorrect: nothing here depends on which chain heads there    *)
(* are, so a caller may bring any.                                         *)
Typed == ring \in Seq(KeyEpoch) /\ phase \in Phase

IInv == Typed /\ RingVerifies /\ PhaseMatchesRing /\ EpochsInOrder /\ SwitchTicks

(* What the invariant says of the ring alone, in one place.                *)
LEMMA RingFacts ==
    ASSUME Typed, RingVerifies
    PROVE  /\ ring \in Ring /\ VerifyRing(ring)
           /\ DOMAIN ring = 1 .. Len(ring) /\ Len(ring) \in Nat
           /\ ActiveEpoch(ring) \in 1 .. Len(ring)
           /\ ring[ActiveEpoch(ring)].status = "active"
           /\ \A i \in 1 .. Len(ring) :
                  ring[i].status = "active" => i = ActiveEpoch(ring)
<1>1. ring \in Ring /\ VerifyRing(ring)
  BY DEF Typed, RingVerifies, Ring
<1>2. DOMAIN ring = 1 .. Len(ring) /\ Len(ring) \in Nat
  BY <1>1, LenProperties DEF Ring
<1> QED BY <1>1, <1>2, ActiveIsUnique

LEMMA InitIInv == Init => IInv
<1> SUFFICES ASSUME Init PROVE IInv
  OBVIOUS
<1>1. PICK c \in Candidates, tick \in Ticks :
          CanCreate(c) /\ ring = CreateKeyRing(c, tick)
  BY DEF Init
<1>2. /\ ring \in Ring /\ VerifyRing(ring) /\ Len(ring) = 1
      /\ ActiveEpoch(ring) = 1 /\ ring[1].status = "active"
  BY <1>1, CreateVerifies
<1>3. phase = "idle" /\ transition = NoTransition
  BY DEF Init
<1>4. DOMAIN ring = {1}
  BY <1>2, LenProperties DEF Ring
<1>5. Typed
  BY <1>2, <1>3 DEF Typed, Ring, Phase
<1>6. RingVerifies
  BY <1>2 DEF RingVerifies
<1>7. PhaseMatchesRing
  BY <1>3 DEF PhaseMatchesRing
<1>8. EpochsInOrder
  BY <1>2, <1>4 DEF EpochsInOrder
<1>9. SwitchTicks
  BY <1>3 DEF SwitchTicks
<1> QED BY <1>5, <1>6, <1>7, <1>8, <1>9 DEF IInv

(* The steps that leave the ring alone only have to fit the phase to it.   *)
LEMMA KeepsRing ==
    ASSUME IInv, UNCHANGED ring, phase' \in Phase, PhaseMatchesRing',
           phase' # "switched" \/ UNCHANGED phase
    PROVE  IInv'
<1>1. Typed'
  BY DEF IInv, Typed
<1>2. RingVerifies'
  BY DEF IInv, RingVerifies
<1>3. EpochsInOrder'
  BY DEF IInv, EpochsInOrder
<1>4. SwitchTicks'
  BY DEF IInv, SwitchTicks
<1> QED BY <1>1, <1>2, <1>3, <1>4 DEF IInv

LEMMA StageStep ==
    ASSUME IInv, NEW c \in Candidates, NEW tick \in Ticks, StageCandidate(c, tick)
    PROVE  /\ IInv'
           /\ \A i \in DOMAIN ring : i \in DOMAIN ring' /\ ring'[i] = ring[i]
           /\ Len(ring') = Len(ring) + 1
           /\ ring'[Len(ring')].status = "staged"
           /\ ActiveEpoch(ring)' = ActiveEpoch(ring)
<1>1. /\ CanStage(ring, c, tick) /\ ring' = StageEpoch(ring, c, tick)
      /\ phase' = "staged" /\ transition' = transition
  BY DEF StageCandidate
<1>2. Typed /\ RingVerifies /\ EpochsInOrder
  BY DEF IInv
<1>3. /\ ring \in Ring /\ DOMAIN ring = 1 .. Len(ring) /\ Len(ring) \in Nat
      /\ ActiveEpoch(ring) \in 1 .. Len(ring)
  BY <1>2, RingFacts
<1>4. /\ ring' \in Ring /\ VerifyRing(ring') /\ Len(ring') = Len(ring) + 1
      /\ \A i \in DOMAIN ring : i \in DOMAIN ring' /\ ring'[i] = ring[i]
      /\ ring'[Len(ring')].status = "staged"
      /\ ActiveEpoch(ring') = ActiveEpoch(ring)
  BY <1>1, <1>3, StageVerifies
<1>5. DOMAIN ring' = 1 .. Len(ring')
  BY <1>4, LenProperties DEF Ring
<1>6. Typed'
  BY <1>1, <1>2, <1>4 DEF Typed, Ring, Phase
<1>7. RingVerifies'
  BY <1>4 DEF RingVerifies
<1>8. Having(ring, "staged") = {}
  BY <1>1 DEF CanStage
<1>9. Having(ring', "staged") = {Len(ring')}
  BY <1>3, <1>4, <1>5, <1>8 DEF Having
<1>10. PhaseMatchesRing'
  BY <1>1, <1>9 DEF PhaseMatchesRing
<1>11. EpochsInOrder'
  <2> SUFFICES ASSUME NEW i \in DOMAIN ring'
               PROVE  /\ i < ActiveEpoch(ring') => ring'[i].status \in {"retired", "revoked"}
                      /\ i > ActiveEpoch(ring') =>
                             \/ ring'[i].status = "revoked"
                             \/ ring'[i].status = "staged" /\ i = Len(ring')
    BY DEF EpochsInOrder
  <2>1. CASE i \in DOMAIN ring
    BY <1>2, <1>4, <1>8, <2>1 DEF EpochsInOrder, Having
  <2>2. CASE i = Len(ring')
    BY <1>3, <1>4, <2>2
  <2> QED BY <1>3, <1>4, <1>5, <2>1, <2>2
<1>12. SwitchTicks'
  BY <1>1 DEF SwitchTicks
<1> QED BY <1>4, <1>6, <1>7, <1>10, <1>11, <1>12 DEF IInv

LEMMA CommitStep ==
    ASSUME IInv,
           NEW trans, NEW head, NEW votes, NEW m, NEW ctx,
           CommitTripleLock(trans, head, votes, m, ctx)
    PROVE  IInv'
<1>1. /\ phase = "staged" /\ phase' = "locked" /\ transition' = trans
      /\ Authorizes(TripleLockVerdict(trans, head, votes, m, ctx))
      /\ ring' = ring
  BY DEF CommitTripleLock
<1>2. /\ ActiveEpoch(ring) + 1 \in Having(ring, "staged")
      /\ trans.fromEpoch = ActiveEpoch(ring)
      /\ trans.toEpoch = ActiveEpoch(ring) + 1
  BY <1>1, TripleLockAllows
<1>3. Having(ring, "staged") = {Len(ring)}
  BY <1>1 DEF IInv, PhaseMatchesRing
<1>4. PhaseMatchesRing'
  BY <1>1, <1>2, <1>3 DEF PhaseMatchesRing
<1> QED BY <1>1, <1>4, KeepsRing DEF Phase

LEMMA SwitchStep ==
    ASSUME IInv, NEW atTick \in Ticks, SwitchEpoch(atTick)
    PROVE  /\ IInv' /\ SameKeys(ring, ring')
           /\ \A i \in DOMAIN ring :
                  ring'[i].status = CASE ring[i].status = "active" -> "retired"
                                      [] ring[i].status = "staged" -> "active"
                                      [] OTHER -> ring[i].status
           /\ ActiveEpoch(ring') = ActiveEpoch(ring) + 1
           /\ Len(ring) = ActiveEpoch(ring) + 1
           /\ ring[ActiveEpoch(ring) + 1].status = "staged"
<1>1. /\ phase = "locked" /\ phase' = "switched" /\ transition' = transition
      /\ CanSwitch(ring, atTick) /\ ring' = SwitchActive(ring, atTick)
  BY DEF SwitchEpoch
<1>2. /\ Typed /\ RingVerifies /\ EpochsInOrder
      /\ Having(ring, "staged") = {Len(ring)}
      /\ Len(ring) = ActiveEpoch(ring) + 1
      /\ transition.fromEpoch = ActiveEpoch(ring)
      /\ transition.toEpoch = ActiveEpoch(ring) + 1
  BY <1>1 DEF IInv, PhaseMatchesRing
<1>3. /\ ring \in Ring /\ DOMAIN ring = 1 .. Len(ring) /\ Len(ring) \in Nat
      /\ ActiveEpoch(ring) \in 1 .. Len(ring)
      /\ ring[ActiveEpoch(ring)].status = "active"
      /\ \A i \in 1 .. Len(ring) : ring[i].status = "active" => i = ActiveEpoch(ring)
  BY <1>2, RingFacts
<1>4. /\ ring' \in Ring /\ VerifyRing(ring') /\ SameKeys(ring, ring')
      /\ Having(ring, "staged") = {ActiveEpoch(ring')}
      /\ \A i \in DOMAIN ring :
             ring'[i].status = CASE ring[i].status = "active" -> "retired"
                                 [] ring[i].status = "staged" -> "active"
                                 [] OTHER -> ring[i].status
      /\ ring'[ActiveEpoch(ring)].retiredTick = atTick
      /\ atTick >= ring'[ActiveEpoch(ring')].createdTick
  BY <1>1, <1>3, SwitchVerifies, TicksAssumption
<1>5. ActiveEpoch(ring') = Len(ring) /\ Len(ring') = Len(ring)
      /\ DOMAIN ring' = DOMAIN ring
  BY <1>2, <1>3, <1>4, LenProperties DEF SameKeys, Ring
<1>6. Typed'
  BY <1>1, <1>2, <1>4 DEF Typed, Ring, Phase
<1>7. RingVerifies'
  BY <1>4 DEF RingVerifies
<1>8. ring'[ActiveEpoch(ring)].status = "retired"
  BY <1>3, <1>4
<1>9. PhaseMatchesRing'
  BY <1>1, <1>2, <1>3, <1>5, <1>8 DEF PhaseMatchesRing, Having
<1>10. EpochsInOrder'
  BY <1>2, <1>3, <1>4, <1>5, <1>8 DEF EpochsInOrder
<1>11. SwitchTicks'
  BY <1>2, <1>3, <1>4, <1>5 DEF SwitchTicks
<1>12. ring[Len(ring)].status = "staged"
  BY <1>2 DEF Having
<1> QED BY <1>2, <1>4, <1>5, <1>6, <1>7, <1>9, <1>10, <1>11, <1>12 DEF IInv

LEMMA FallbackStep ==
    ASSUME IInv, NEW atTick \in Ticks, FallbackToOldEpoch(atTick)
    PROVE  /\ IInv' /\ SameKeys(ring, ring')
           /\ ActiveEpoch(ring) = Len(ring)
           /\ ActiveEpoch(ring') = ActiveEpoch(ring) - 1
           /\ ActiveEpoch(ring) - 1 \in DOMAIN ring
           /\ ring[ActiveEpoch(ring) - 1].status = "retired"
           /\ \A i \in DOMAIN ring :
                  ring'[i].status = CASE i = ActiveEpoch(ring) -> "revoked"
                                      [] i = ActiveEpoch(ring) - 1 -> "active"
                                      [] OTHER -> ring[i].status
<1>1. /\ phase = "switched" /\ phase' = "idle" /\ transition' = NoTransition
      /\ CanFallback(ring, atTick) /\ ring' = FallbackSwitch(ring, atTick)
  BY DEF FallbackToOldEpoch
<1>2. /\ Typed /\ RingVerifies /\ EpochsInOrder
      /\ ActiveEpoch(ring) = Len(ring)
  BY <1>1 DEF IInv, PhaseMatchesRing
<1>3. /\ ring \in Ring /\ DOMAIN ring = 1 .. Len(ring) /\ Len(ring) \in Nat
  BY <1>2, RingFacts
<1>4. /\ ring' \in Ring /\ VerifyRing(ring') /\ SameKeys(ring, ring')
      /\ ActiveEpoch(ring') = ActiveEpoch(ring) - 1
      /\ ActiveEpoch(ring) - 1 \in DOMAIN ring
      /\ ring[ActiveEpoch(ring) - 1].status = "retired"
      /\ \A i \in DOMAIN ring :
             ring'[i].status = CASE i = ActiveEpoch(ring) -> "revoked"
                                 [] i = ActiveEpoch(ring) - 1 -> "active"
                                 [] OTHER -> ring[i].status
  BY <1>1, <1>3, FallbackVerifies, TicksAssumption
<1>5. DOMAIN ring' = DOMAIN ring /\ Len(ring') = Len(ring)
  BY <1>3, <1>4, LenProperties DEF SameKeys, Ring
<1>6. Typed'
  BY <1>1, <1>4 DEF Typed, Ring, Phase
<1>7. RingVerifies'
  BY <1>4 DEF RingVerifies
<1>8. PhaseMatchesRing'
  BY <1>1 DEF PhaseMatchesRing
<1>9. EpochsInOrder'
  BY <1>2, <1>3, <1>4, <1>5 DEF EpochsInOrder
<1>10. SwitchTicks'
  BY <1>1 DEF SwitchTicks
<1> QED BY <1>2, <1>4, <1>6, <1>7, <1>8, <1>9, <1>10 DEF IInv

(* Retiring revokes at most one epoch: the retired predecessor of the      *)
(* active one, which is asymmetric.                                        *)
LEMMA RetireStep ==
    ASSUME IInv, NEW policy \in RetirePolicy, NEW atTick \in Ticks,
           RetireOldEpoch(policy, atTick)
    PROVE  /\ IInv' /\ SameKeys(ring, ring')
           /\ ActiveEpoch(ring') = ActiveEpoch(ring)
           /\ \/ ring' = ring
              \/ /\ OldEpoch \in DOMAIN ring
                 /\ ring[OldEpoch].status = "retired"
                 /\ ring[OldEpoch].keyKind # "symmetric"
                 /\ \A i \in DOMAIN ring :
                        ring'[i].status = IF i = OldEpoch THEN "revoked"
                                          ELSE ring[i].status
<1>1. phase = "drained" /\ phase' = "retired" /\ transition' = transition
  BY DEF RetireOldEpoch
<1>2. /\ Typed /\ RingVerifies /\ EpochsInOrder
      /\ ActiveEpoch(ring) = Len(ring)
      /\ transition.fromEpoch = ActiveEpoch(ring) - 1
      /\ transition.toEpoch = ActiveEpoch(ring)
  BY <1>1 DEF IInv, PhaseMatchesRing
<1>3. ring \in Ring /\ DOMAIN ring = 1 .. Len(ring) /\ Len(ring) \in Nat
  BY <1>2, RingFacts
<1>4. CASE policy.mode = "revoke-then-archive"
  <2>1. CanMarkRevoked(ring, OldEpoch, atTick) /\ ring' = MarkRevoked(ring, OldEpoch)
    BY <1>4 DEF RetireOldEpoch
  <2>2. /\ ring' \in Ring /\ VerifyRing(ring') /\ SameKeys(ring, ring')
        /\ ActiveEpoch(ring') = ActiveEpoch(ring)
        /\ OldEpoch \in DOMAIN ring /\ ring[OldEpoch].status = "retired"
        /\ \A i \in DOMAIN ring :
               ring'[i].status = IF i = OldEpoch THEN "revoked" ELSE ring[i].status
    BY <1>3, <2>1, MarkRevokedVerifies
  <2>3. DOMAIN ring' = DOMAIN ring /\ Len(ring') = Len(ring)
    BY <1>3, <2>2, LenProperties DEF SameKeys, Ring
  <2>4. ring[OldEpoch].keyKind # "symmetric"
    <3> DEFINE c1 == Clause(ring[OldEpoch].status = "retired")
    <3> DEFINE c2 == Clause(PolicyAllowed(ring[OldEpoch].keyKind, policy))
    <3>1. AllOf({c1, c2}) = ALLOW
      <4>1. RetireVerdict(OldEpoch, policy) = ALLOW
        BY DEF RetireOldEpoch, Authorizes
      <4>2. VerifyRing(ring)
        BY <1>2 DEF RingVerifies
      <4>3. RetireVerdict(OldEpoch, policy) =
                IF ~VerifyRing(ring) \/ OldEpoch \notin DOMAIN ring
                THEN DENY ELSE AllOf({c1, c2})
        BY DEF RetireVerdict
      <4> HIDE DEF c1, c2
      <4> QED BY <2>2, <4>1, <4>2, <4>3
    <3>2. c1 \in Verdict /\ c2 \in Verdict
      BY DEF Clause, Verdict
    <3>3. c2 = ALLOW
      <4> HIDE DEF c1, c2
      <4> QED BY <3>1, <3>2, AllOfAllows
    <3>4. PolicyAllowed(ring[OldEpoch].keyKind, policy)
      BY <3>3 DEF Clause, DENY, ALLOW
    <3> QED BY <1>4, <3>4 DEF PolicyAllowed
  <2>5. Typed'
    BY <1>1, <1>2, <2>2 DEF Typed, Ring, Phase
  <2>6. RingVerifies'
    BY <2>2 DEF RingVerifies
  <2>7. PhaseMatchesRing'
    BY <1>1, <1>2, <2>2, <2>3 DEF PhaseMatchesRing
  <2>8. EpochsInOrder'
    BY <1>2, <1>3, <2>2, <2>3 DEF EpochsInOrder
  <2>9. SwitchTicks'
    BY <1>1 DEF SwitchTicks
  <2> QED BY <2>2, <2>4, <2>5, <2>6, <2>7, <2>8, <2>9 DEF IInv
<1>5. CASE policy.mode # "revoke-then-archive"
  <2>1. ring' = ring
    BY <1>5 DEF RetireOldEpoch
  <2>2. PhaseMatchesRing'
    BY <1>1, <1>2, <2>1 DEF PhaseMatchesRing
  <2>3. IInv'
    BY <1>1, <2>1, <2>2, KeepsRing DEF Phase
  <2>4. SameKeys(ring, ring')
    BY <2>1 DEF SameKeys
  <2> QED BY <2>1, <2>3, <2>4
<1> QED BY <1>4, <1>5

(* The gates that move the phase and nothing else, and opening a process,  *)
(* whatever the evidence.                                                  *)
LEMMA PhaseStep ==
    ASSUME IInv,
           \/ BeginRotation
           \/ \E ev, ctx : CheckReadiness(ev, ctx)
           \/ \E ev, ctx : ConfirmTripleVerify(ev, ctx)
           \/ \E ev, votes, m : ConfirmDrain(ev, votes, m)
    PROVE  IInv' /\ ring' = ring
<1>1. PhaseMatchesRing
  BY DEF IInv
<1>2. CASE BeginRotation
  <2>1. phase' = "idle" /\ ring' = ring
    BY <1>2 DEF BeginRotation
  <2>2. PhaseMatchesRing' /\ phase' \in Phase
    BY <2>1 DEF PhaseMatchesRing, Phase
  <2> QED BY <2>1, <2>2, KeepsRing
<1>3. CASE \E ev, ctx : CheckReadiness(ev, ctx)
  <2>1. phase' = "ready" /\ ring' = ring
    BY <1>3 DEF CheckReadiness
  <2>2. PhaseMatchesRing' /\ phase' \in Phase
    BY <2>1 DEF PhaseMatchesRing, Phase
  <2> QED BY <2>1, <2>2, KeepsRing
<1>4. CASE \E ev, ctx : ConfirmTripleVerify(ev, ctx)
  <2>1. /\ phase = "switched" /\ phase' = "verified"
        /\ transition' = transition /\ ring' = ring
    BY <1>4 DEF ConfirmTripleVerify
  <2>2. PhaseMatchesRing' /\ phase' \in Phase
    BY <1>1, <2>1 DEF PhaseMatchesRing, Phase
  <2> QED BY <2>1, <2>2, KeepsRing
<1>5. CASE \E ev, votes, m : ConfirmDrain(ev, votes, m)
  <2>1. /\ phase = "verified" /\ phase' = "drained"
        /\ transition' = transition /\ ring' = ring
    BY <1>5 DEF ConfirmDrain
  <2>2. PhaseMatchesRing' /\ phase' \in Phase
    BY <1>1, <2>1 DEF PhaseMatchesRing, Phase
  <2> QED BY <2>1, <2>2, KeepsRing
<1> QED BY <1>2, <1>3, <1>4, <1>5

(* A step of the machine on any evidence, that of Next included.           *)
AnyStep ==
    \/ BeginRotation
    \/ \E ev, ctx : CheckReadiness(ev, ctx)
    \/ \E c \in Candidates, tick \in Ticks : StageCandidate(c, tick)
    \/ \E trans, observed, votes, m, ctx :
           CommitTripleLock(trans, observed, votes, m, ctx)
    \/ \E tick \in Ticks : SwitchEpoch(tick)
    \/ \E ev, ctx : ConfirmTripleVerify(ev, ctx)
    \/ \E tick \in Ticks : FallbackToOldEpoch(tick)
    \/ \E ev, votes, m : ConfirmDrain(ev, votes, m)
    \/ \E policy \in RetirePolicy, tick \in Ticks : RetireOldEpoch(policy, tick)

LEMMA NextIsAnyStep == Next => AnyStep
BY DEF Next, AnyStep

(* It is one of five kinds.                                                *)
LEMMA StepKinds ==
    ASSUME IInv, AnyStep
    PROVE  \/ \E c \in Candidates, tick \in Ticks : StageCandidate(c, tick)
           \/ \E tick \in Ticks : SwitchEpoch(tick)
           \/ \E tick \in Ticks : FallbackToOldEpoch(tick)
           \/ \E policy \in RetirePolicy, tick \in Ticks : RetireOldEpoch(policy, tick)
           \/ IInv' /\ ring' = ring
<1>1. CASE \E trans, observed, votes, m, ctx :
               CommitTripleLock(trans, observed, votes, m, ctx)
  <2>1. PICK trans, observed, votes, m, ctx :
            CommitTripleLock(trans, observed, votes, m, ctx)
    BY <1>1
  <2>2. ring' = ring
    BY <2>1 DEF CommitTripleLock
  <2> QED BY <2>1, <2>2, CommitStep
<1> QED BY <1>1, PhaseStep DEF AnyStep

LEMMA AnyStepIInv ==
    ASSUME IInv, AnyStep
    PROVE  IInv'
BY StepKinds, StageStep, SwitchStep, FallbackStep, RetireStep

LEMMA NextIInv == IInv /\ [Next]_vars => IInv'
<1> SUFFICES ASSUME IInv, [Next]_vars PROVE IInv'
  OBVIOUS
<1>1. CASE Next
  BY <1>1, NextIsAnyStep, AnyStepIInv
<1>2. CASE UNCHANGED vars
  BY <1>2 DEF vars, IInv, Typed, RingVerifies, PhaseMatchesRing, EpochsInOrder,
              SwitchTicks
<1> QED BY <1>1, <1>2

-----------------------------------------------------------------------------
(* The safety theorems.                                                    *)

LEMMA TransitionTyped ==
    ASSUME IInv, transition \in Transition, [Next]_vars
    PROVE  transition' \in Transition
<1>1. NoTransition \in Transition /\ Len(ring) \in Nat
  BY RingFacts DEF NoTransition, Transition, IInv
<1>2. CASE \E trans \in [fromEpoch : 1 .. Len(ring), toEpoch : 1 .. Len(ring) + 1,
                         prevChainHead : ChainHeads \cup {NoHead}],
              observed \in ChainHeads, votes \in VoteSets, m \in Thresholds,
              ctx \in Ctxs :
               CommitTripleLock(trans, observed, votes, m, ctx)
  BY <1>1, <1>2 DEF CommitTripleLock, Transition
<1>3. CASE transition' = transition \/ transition' = NoTransition
  BY <1>1, <1>3
<1> QED BY <1>2, <1>3 DEF Next, vars, BeginRotation, CheckReadiness, StageCandidate,
           SwitchEpoch, ConfirmTripleVerify, FallbackToOldEpoch, ConfirmDrain,
           RetireOldEpoch

(* The machine's variables always have their types.                        *)
THEOREM TypeCorrect == Spec => []TypeOK
<1>1. IInv /\ transition \in Transition => TypeOK
  BY DEF IInv, Typed, TypeOK
<1>2. Init => transition \in Transition
  BY DEF Init, NoTransition, Transition
<1>3. IInv /\ transition \in Transition /\ [Next]_vars => (transition \in Transition)'
  BY TransitionTyped
<1> QED BY InitIInv, NextIInv, <1>1, <1>2, <1>3, PTL DEF Spec

(* No history of rotations, fallbacks, retirements and restarts leads to a *)
(* ring that verifyRing refuses.                                           *)
THEOREM RingAlwaysVerifies == Spec => []RingVerifies
<1>1. IInv => RingVerifies
  BY DEF IInv
<1> QED BY InitIInv, NextIInv, <1>1, PTL DEF Spec

(* The phase, the locked transition and the statuses in the ring never     *)
(* contradict each other.                                                  *)
THEOREM PhaseTellsTheTruth == Spec => []PhaseMatchesRing
<1>1. IInv => PhaseMatchesRing
  BY DEF IInv
<1> QED BY InitIInv, NextIInv, <1>1, PTL DEF Spec

(* No epoch is ever out of order.                                          *)
THEOREM EpochsStayInOrder == Spec => []EpochsInOrder
<1>1. IInv => EpochsInOrder
  BY DEF IInv
<1> QED BY InitIInv, NextIInv, <1>1, PTL DEF Spec

LEMMA WayOutHolds == IInv => AlwaysAWayOut
<1> SUFFICES ASSUME IInv PROVE AlwaysAWayOut
  OBVIOUS
<1> DEFINE act == ActiveEpoch(ring)
<1>1. /\ ring \in Ring /\ VerifyRing(ring)
      /\ DOMAIN ring = 1 .. Len(ring) /\ Len(ring) \in Nat /\ act \in 1 .. Len(ring)
  BY RingFacts DEF IInv
<1>2. phase \in {"switched", "drained"} => act - 1 \in Having(ring, "retired")
  BY DEF IInv, PhaseMatchesRing
<1>3. ASSUME phase = "switched", NEW tick \in Ticks, tick >= ring[OldEpoch].retiredTick
      PROVE  CanFallback(ring, tick)
  <2>1. ring[act - 1].retiredTick >= ring[act].createdTick
    BY <1>3 DEF IInv, SwitchTicks
  <2>2. OldEpoch = act - 1 /\ act - 1 \in DOMAIN ring
    BY <1>2, <1>3 DEF OldEpoch, Having
  <2>3. /\ tick \in Nat /\ ring[act].createdTick \in Nat
        /\ ring[act - 1].retiredTick \in Nat \cup {NoTick}
    BY <1>1, <2>2, EpochFields, TicksAssumption
  <2>4. tick >= ring[act].createdTick
    BY <1>3, <2>1, <2>2, <2>3 DEF NoTick
  <2> QED BY <1>1, <1>2, <1>3, <2>2, <2>4 DEF CanFallback
<1>4. ASSUME phase = "drained"
      PROVE  Authorizes(RetireVerdict(OldEpoch, [mode |-> "cold-retain",
                                                 revocationRecorded |-> FALSE]))
  <2> DEFINE policy == [mode |-> "cold-retain", revocationRecorded |-> FALSE]
  <2>1. OldEpoch \in DOMAIN ring /\ ring[OldEpoch].status = "retired"
    BY <1>2, <1>4 DEF OldEpoch, Having
  <2>2. /\ Clause(ring[OldEpoch].status = "retired") = ALLOW
        /\ Clause(PolicyAllowed(ring[OldEpoch].keyKind, policy)) = ALLOW
    BY <2>1 DEF Clause, PolicyAllowed
  <2>3. RetireVerdict(OldEpoch, policy) = AllOf({ALLOW})
    BY <1>1, <2>1, <2>2 DEF RetireVerdict
  <2>4. AllOf({ALLOW}) = ALLOW
    BY DEF AllOf, ALLOW
  <2> QED BY <2>3, <2>4 DEF Authorizes
<1> QED BY <1>3, <1>4 DEF AlwaysAWayOut

(* A rotation that has switched can always be taken back, and one that has *)
(* drained can always be retired.                                          *)
THEOREM WayOut == Spec => []AlwaysAWayOut
BY InitIInv, NextIInv, WayOutHolds, PTL DEF Spec

(* No step rewrites the history of the keys; a status moves backwards only *)
(* in the fallback, and there only for one epoch.                          *)
THEOREM OnlyForward == Spec => ForwardOnly
<1> DEFINE Forward ==
      /\ Len(ring') >= Len(ring)
      /\ \A i \in DOMAIN ring :
            /\ SameKeyMaterial(ring'[i], ring[i])
            /\ \/ ring'[i].status = ring[i].status
               \/ <<ring[i].status, ring'[i].status>> \in ForwardStatus
               \/ /\ i + 1 \in DOMAIN ring
                  /\ ring[i].status = "retired" /\ ring'[i].status = "active"
                  /\ ring[i + 1].status = "active"
                  /\ ring'[i + 1].status = "revoked"
               \/ /\ i - 1 \in DOMAIN ring
                  /\ ring[i].status = "active" /\ ring'[i].status = "revoked"
                  /\ ring'[i - 1].status = "active"
<1>1. IInv /\ [Next]_vars => [Forward]_vars
  <2> SUFFICES ASSUME IInv, Next PROVE Forward
    OBVIOUS
  <2>1. /\ DOMAIN ring = 1 .. Len(ring) /\ Len(ring) \in Nat
        /\ ActiveEpoch(ring) \in 1 .. Len(ring)
        /\ ring[ActiveEpoch(ring)].status = "active"
        /\ \A i \in 1 .. Len(ring) :
               ring[i].status = "active" => i = ActiveEpoch(ring)
    BY RingFacts DEF IInv
  <2>2. SameKeys(ring, ring') =>
            /\ Len(ring') >= Len(ring)
            /\ \A i \in DOMAIN ring : SameKeyMaterial(ring'[i], ring[i])
    BY <2>1 DEF SameKeys, SameKeyMaterial
  <2>3. CASE \E c \in Candidates, tick \in Ticks : StageCandidate(c, tick)
    <3>1. /\ \A i \in DOMAIN ring : ring'[i] = ring[i]
          /\ Len(ring') = Len(ring) + 1
      BY <2>3, StageStep
    <3> QED BY <2>1, <3>1 DEF SameKeyMaterial
  <2>4. CASE \E tick \in Ticks : SwitchEpoch(tick)
    <3>1. /\ SameKeys(ring, ring')
          /\ \A i \in DOMAIN ring :
                 ring'[i].status = CASE ring[i].status = "active" -> "retired"
                                     [] ring[i].status = "staged" -> "active"
                                     [] OTHER -> ring[i].status
      BY <2>4, SwitchStep
    <3>2. \A i \in DOMAIN ring :
              \/ ring'[i].status = ring[i].status
              \/ <<ring[i].status, ring'[i].status>> \in ForwardStatus
      BY <3>1 DEF ForwardStatus
    <3> QED BY <2>2, <3>1, <3>2
  <2>5. CASE \E tick \in Ticks : FallbackToOldEpoch(tick)
    <3> DEFINE a == ActiveEpoch(ring)
    <3>1. /\ SameKeys(ring, ring') /\ a - 1 \in DOMAIN ring
          /\ ring[a - 1].status = "retired"
          /\ \A i \in DOMAIN ring :
                 ring'[i].status = CASE i = a -> "revoked"
                                     [] i = a - 1 -> "active"
                                     [] OTHER -> ring[i].status
      BY <2>5, FallbackStep
    <3>2. a # a - 1 /\ (a - 1) + 1 = a /\ a \in DOMAIN ring
      BY <2>1
    <3>3. ring'[a].status = "revoked" /\ ring'[a - 1].status = "active"
      BY <3>1, <3>2
    <3>4. \A i \in DOMAIN ring : i # a /\ i # a - 1 => ring'[i].status = ring[i].status
      BY <3>1
    <3> QED BY <2>1, <2>2, <3>1, <3>2, <3>3, <3>4
  <2>6. CASE \E policy \in RetirePolicy, tick \in Ticks : RetireOldEpoch(policy, tick)
    <3>1. /\ SameKeys(ring, ring')
          /\ \/ ring' = ring
             \/ /\ ring[OldEpoch].status = "retired"
                /\ \A i \in DOMAIN ring :
                       ring'[i].status = IF i = OldEpoch THEN "revoked"
                                         ELSE ring[i].status
      BY <2>6, RetireStep
    <3>2. \A i \in DOMAIN ring :
              \/ ring'[i].status = ring[i].status
              \/ <<ring[i].status, ring'[i].status>> \in ForwardStatus
      BY <3>1 DEF ForwardStatus
    <3> QED BY <2>2, <3>1, <3>2
  <2>7. CASE ring' = ring
    BY <2>1, <2>7 DEF SameKeyMaterial
  <2> QED BY <2>3, <2>4, <2>5, <2>6, <2>7, NextIsAnyStep, StepKinds
<1> QED BY InitIInv, NextIInv, <1>1, PTL DEF Spec, ForwardOnly

(* A retired symmetric key keeps verifying what it sealed.                 *)
THEOREM SymmetricNeverOrphaned == Spec => SymmetricKeyKept
<1> DEFINE Kept ==
      \A i \in DOMAIN ring :
          ring[i].keyKind = "symmetric" /\ ring[i].status = "retired"
              => ring'[i].status # "revoked"
<1>1. IInv /\ [Next]_vars => [Kept]_vars
  <2> SUFFICES ASSUME IInv, Next,
                      NEW i \in DOMAIN ring, ring[i].keyKind = "symmetric",
                      ring[i].status = "retired"
               PROVE  ring'[i].status # "revoked"
    OBVIOUS
  <2>1. ring[ActiveEpoch(ring)].status = "active"
    BY RingFacts DEF IInv
  <2>2. CASE \E c \in Candidates, tick \in Ticks : StageCandidate(c, tick)
    <3>1. ring'[i] = ring[i]
      BY <2>2, StageStep
    <3> QED BY <3>1
  <2>3. CASE \E tick \in Ticks : SwitchEpoch(tick)
    <3>1. ring'[i].status = CASE ring[i].status = "active" -> "retired"
                              [] ring[i].status = "staged" -> "active"
                              [] OTHER -> ring[i].status
      BY <2>3, SwitchStep
    <3> QED BY <3>1
  <2>4. CASE \E tick \in Ticks : FallbackToOldEpoch(tick)
    <3>1. ring'[i].status = CASE i = ActiveEpoch(ring) -> "revoked"
                              [] i = ActiveEpoch(ring) - 1 -> "active"
                              [] OTHER -> ring[i].status
      BY <2>4, FallbackStep
    <3>2. i # ActiveEpoch(ring)
      BY <2>1
    <3> QED BY <3>1, <3>2
  <2>5. CASE \E policy \in RetirePolicy, tick \in Ticks : RetireOldEpoch(policy, tick)
    <3>1. \/ ring' = ring
          \/ /\ ring[OldEpoch].keyKind # "symmetric"
             /\ ring'[i].status = IF i = OldEpoch THEN "revoked" ELSE ring[i].status
      BY <2>5, RetireStep
    <3> QED BY <3>1
  <2>6. CASE ring' = ring
    BY <2>6
  <2> QED BY <2>2, <2>3, <2>4, <2>5, <2>6, NextIsAnyStep, StepKinds
<1> QED BY InitIInv, NextIInv, <1>1, PTL DEF Spec, SymmetricKeyKept

(* After a fallback no step on any evidence changes the signer.            *)
LEMMA FallbackFinalStep ==
    ASSUME IInv, AnyStep, FellBack
    PROVE  FellBack' /\ ActiveEpoch(ring)' = ActiveEpoch(ring)
<1> DEFINE a == ActiveEpoch(ring)
<1>1. PICK k \in DOMAIN ring : k > a /\ ring[k].status = "revoked"
  BY DEF FellBack
<1>2. /\ DOMAIN ring = 1 .. Len(ring) /\ Len(ring) \in Nat /\ a \in 1 .. Len(ring)
  BY RingFacts DEF IInv
<1>3. CASE \E c \in Candidates, tick \in Ticks : StageCandidate(c, tick)
  <2>1. /\ ring'[k] = ring[k] /\ k \in DOMAIN ring'
        /\ ActiveEpoch(ring)' = ActiveEpoch(ring)
    BY <1>1, <1>3, StageStep
  <2> QED BY <1>1, <2>1 DEF FellBack
<1>4. CASE \E tick \in Ticks : SwitchEpoch(tick)
  <2>1. Len(ring) = a + 1 /\ ring[a + 1].status = "staged"
    BY <1>4, SwitchStep
  <2>2. k = a + 1
    BY <1>1, <1>2, <2>1
  <2> QED BY <1>1, <2>1, <2>2
<1>5. CASE \E tick \in Ticks : FallbackToOldEpoch(tick)
  <2>1. a = Len(ring)
    BY <1>5, FallbackStep
  <2> QED BY <1>1, <1>2, <2>1
<1>6. CASE \E policy \in RetirePolicy, tick \in Ticks : RetireOldEpoch(policy, tick)
  <2>1. /\ ActiveEpoch(ring)' = ActiveEpoch(ring)
        /\ SameKeys(ring, ring')
        /\ \/ ring' = ring
           \/ ring'[k].status = IF k = OldEpoch THEN "revoked" ELSE ring[k].status
    BY <1>1, <1>6, RetireStep
  <2>2. k \in DOMAIN ring' /\ ring'[k].status = "revoked"
    BY <1>1, <2>1 DEF SameKeys
  <2> QED BY <1>1, <2>1, <2>2 DEF FellBack
<1>7. CASE ring' = ring
  BY <1>1, <1>7 DEF FellBack
<1> QED BY <1>3, <1>4, <1>5, <1>6, <1>7, StepKinds

(* After the first fallback no rotation ever completes its switch again.   *)
THEOREM FallbackEndsRotation == Spec => FallbackIsFinal
<1> DEFINE Final == FellBack => FellBack' /\ ActiveEpoch(ring)' = ActiveEpoch(ring)
<1>1. IInv /\ [Next]_vars => [Final]_vars
  BY NextIsAnyStep, FallbackFinalStep
<1> QED BY InitIInv, NextIInv, <1>1, PTL DEF Spec, FallbackIsFinal

-----------------------------------------------------------------------------
(* Refinement.                                                             *)

(* An operation that keeps the keys keeps the domain.                      *)
LEMMA SameDomain ==
    ASSUME NEW s \in Ring, NEW t \in Ring, SameKeys(s, t)
    PROVE  DOMAIN t = DOMAIN s
BY LenProperties DEF SameKeys, Ring

(* Every step of the phase machine is a step of the signing authority, or  *)
(* invisible to it.                                                        *)
THEOREM KeyRotationImplementsAuthority == Spec => ImplementsAuthority
<1> DEFINE a == ActiveEpoch(ring)
<1>1. Init => Authority!Init
  <2> SUFFICES ASSUME Init PROVE Authority!Init
    OBVIOUS
  <2>1. PICK c \in Candidates, tick \in Ticks :
            CanCreate(c) /\ ring = CreateKeyRing(c, tick)
    BY DEF Init
  <2>2. /\ ring \in Ring /\ Len(ring) = 1
        /\ ActiveEpoch(ring) = 1 /\ ring[1].status = "active"
    BY <2>1, CreateVerifies
  <2>3. VerifiableEpochs(ring) = {1}
    BY <2>2, LenProperties DEF VerifiableEpochs, Ring
  <2> QED BY <2>2, <2>3 DEF Authority!Init
<1>2. IInv /\ IInv' /\ [Next]_vars
          => [Authority!Next]_<<Len(ring), ActiveEpoch(ring), VerifiableEpochs(ring)>>
  <2> SUFFICES ASSUME IInv, IInv', Next
               PROVE  \/ Authority!Next
                      \/ UNCHANGED <<Len(ring), ActiveEpoch(ring), VerifiableEpochs(ring)>>
    BY DEF vars
  <2>1. /\ ring \in Ring /\ DOMAIN ring = 1 .. Len(ring) /\ Len(ring) \in Nat
        /\ a \in 1 .. Len(ring) /\ ring[a].status = "active"
        /\ \A i \in 1 .. Len(ring) : ring[i].status = "active" => i = a
    BY RingFacts DEF IInv
  <2>2. ring' \in Ring
    BY DEF IInv, Typed, Ring
  <2>3. CASE \E c \in Candidates, tick \in Ticks : StageCandidate(c, tick)
    <3>1. /\ \A i \in DOMAIN ring : ring'[i] = ring[i]
          /\ Len(ring') = Len(ring) + 1
          /\ ring'[Len(ring')].status = "staged"
          /\ ActiveEpoch(ring)' = ActiveEpoch(ring)
      BY <2>3, StageStep
    <3>2. DOMAIN ring' = 1 .. (Len(ring) + 1)
      BY <2>2, <3>1, LenProperties DEF Ring
    <3>3. VerifiableEpochs(ring') = VerifiableEpochs(ring) \cup {Len(ring) + 1}
      BY <2>1, <3>1, <3>2 DEF VerifiableEpochs
    <3>4. Authority!Mint
      BY <3>1, <3>3 DEF Authority!Mint
    <3> QED BY <3>4 DEF Authority!Next
  <2>4. CASE \E tick \in Ticks : SwitchEpoch(tick)
    <3>1. /\ SameKeys(ring, ring')
          /\ \A i \in DOMAIN ring :
                 ring'[i].status = CASE ring[i].status = "active" -> "retired"
                                     [] ring[i].status = "staged" -> "active"
                                     [] OTHER -> ring[i].status
          /\ ActiveEpoch(ring') = a + 1 /\ Len(ring) = a + 1
          /\ ring[a + 1].status = "staged"
      BY <2>4, SwitchStep
    <3>2. DOMAIN ring' = DOMAIN ring /\ Len(ring') = Len(ring)
      BY <2>1, <2>2, <3>1, SameDomain DEF SameKeys
    <3>3. \A i \in DOMAIN ring : ring'[i].status = "revoked" <=> ring[i].status = "revoked"
      BY <3>1
    <3>4. VerifiableEpochs(ring') = VerifiableEpochs(ring)
      BY <3>2, <3>3 DEF VerifiableEpochs
    <3>5. Len(ring) \in VerifiableEpochs(ring)
      BY <2>1, <3>1 DEF VerifiableEpochs
    <3>6. Authority!HandOver
      BY <3>1, <3>2, <3>4, <3>5 DEF Authority!HandOver
    <3> QED BY <3>6 DEF Authority!Next
  <2>5. CASE \E tick \in Ticks : FallbackToOldEpoch(tick)
    <3>1. /\ SameKeys(ring, ring') /\ a = Len(ring)
          /\ ActiveEpoch(ring') = a - 1 /\ a - 1 \in DOMAIN ring
          /\ ring[a - 1].status = "retired"
          /\ \A i \in DOMAIN ring :
                 ring'[i].status = CASE i = a -> "revoked"
                                     [] i = a - 1 -> "active"
                                     [] OTHER -> ring[i].status
      BY <2>5, FallbackStep
    <3>2. DOMAIN ring' = DOMAIN ring /\ Len(ring') = Len(ring)
      BY <2>1, <2>2, <3>1, SameDomain DEF SameKeys
    <3>3. \A i \in DOMAIN ring :
              ring'[i].status = "revoked" <=> (ring[i].status = "revoked" \/ i = a)
      BY <2>1, <3>1
    <3>4. VerifiableEpochs(ring') = VerifiableEpochs(ring) \ {a}
      BY <3>2, <3>3 DEF VerifiableEpochs
    <3>5. a - 1 \in VerifiableEpochs(ring)
      BY <3>1 DEF VerifiableEpochs
    <3>6. Authority!HandBack
      BY <3>1, <3>2, <3>4, <3>5 DEF Authority!HandBack
    <3> QED BY <3>6 DEF Authority!Next
  <2>6. CASE \E policy \in RetirePolicy, tick \in Ticks : RetireOldEpoch(policy, tick)
    <3>1. /\ SameKeys(ring, ring')
          /\ ActiveEpoch(ring') = a
          /\ \/ ring' = ring
             \/ /\ a - 1 \in DOMAIN ring /\ ring[a - 1].status = "retired"
                /\ \A i \in DOMAIN ring :
                       ring'[i].status = IF i = a - 1 THEN "revoked" ELSE ring[i].status
      BY <2>6, RetireStep DEF OldEpoch
    <3>2. DOMAIN ring' = DOMAIN ring /\ Len(ring') = Len(ring)
      BY <2>1, <2>2, <3>1, SameDomain DEF SameKeys
    <3>3. CASE ring' = ring
      BY <3>3
    <3>4. CASE ring' # ring
      <4>1. \A i \in DOMAIN ring :
                ring'[i].status = "revoked" <=> (ring[i].status = "revoked" \/ i = a - 1)
        BY <3>1, <3>4
      <4>2. VerifiableEpochs(ring') = VerifiableEpochs(ring) \ {a - 1}
        BY <3>2, <4>1 DEF VerifiableEpochs
      <4>3. a - 1 \in VerifiableEpochs(ring) /\ a - 1 < a
        BY <2>1, <3>1, <3>4 DEF VerifiableEpochs
      <4>4. Authority!Revoke(a - 1)
        BY <3>1, <3>2, <4>2, <4>3 DEF Authority!Revoke
      <4> QED BY <4>3, <4>4 DEF Authority!Next
    <3> QED BY <3>3, <3>4
  <2>7. CASE ring' = ring
    BY <2>7
  <2> QED BY <2>3, <2>4, <2>5, <2>6, <2>7, NextIsAnyStep, StepKinds
<1> QED BY InitIInv, NextIInv, <1>1, <1>2, PTL DEF Spec, ImplementsAuthority, Authority!Spec
=============================================================================
