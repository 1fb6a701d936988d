--------------------------- MODULE EpochLedgerProofs ---------------------------
(***************************************************************************)
(* A ledger that is sealed while its key is rotated verifies at every      *)
(* moment under the keys the ring then gives, for any keys, any sizes and  *)
(* any failed writes, until a rotation falls back.                         *)
(*                                                                         *)
(* What either side does alone is taken from KeyRotationProofs and         *)
(* AuditEgressProofs, instantiated here; the first section shows that      *)
(* their definitions are those of the model.  What is new is how far the   *)
(* writer and the ring can be apart.  The writer is never ahead of the     *)
(* signer unless the signer was taken back, the epochs up to the signer    *)
(* are never revoked, those of the ledger that lie after it always are,    *)
(* and a switch is verified only when the writer has sealed a batch under  *)
(* the new epoch.                                                          *)
(***************************************************************************)
EXTENDS EpochLedger, FiniteSetTheorems, TLAPS

KP == INSTANCE KeyRotationProofs WITH
    ring <- keyRing, Ctxs <- {}, VoteSets <- {}, Thresholds <- {2},
    Counts <- Nat, ChainHeads <- {}

WP == INSTANCE AuditEgressProofs WITH
    ring <- staged, Epochs <- Nat \ {0}

-----------------------------------------------------------------------------
(* The phase machine of the proofs is the one of the model.                *)

LEMMA Assumed ==
    /\ KP!CandidatesAssumption /\ KP!TicksAssumption /\ KP!CtxsAssumption
    /\ KP!VoteSetsAssumption /\ KP!CountsAssumption
<1>1. KP!CandidatesAssumption
  BY CeremonyAssumption DEF KP!CandidatesAssumption,
    K!Candidate, KP!Candidate, K!KeyIds, KP!KeyIds, K!KeyKind, KP!KeyKind,
    K!KeyCommits, KP!KeyCommits, K!FileRefs, KP!FileRefs
<1>2. KP!TicksAssumption
  BY CeremonyAssumption DEF KP!TicksAssumption
<1>3. KP!CtxsAssumption /\ KP!VoteSetsAssumption /\ KP!CountsAssumption
  BY DEF KP!CtxsAssumption, KP!VoteSetsAssumption, KP!CountsAssumption
<1> QED
  BY <1>1, <1>2, <1>3

LEMMA SameRing ==
    /\ \A r : K!VerifyRing(r) <=> KP!VerifyRing(r)
    /\ \A r : K!ActiveEpoch(r) = KP!ActiveEpoch(r)
    /\ \A r, status : K!Having(r, status) = KP!Having(r, status)
    /\ \A c, tick : K!CreateKeyRing(c, tick) = KP!CreateKeyRing(c, tick)
    /\ \A c : K!CanCreate(c) <=> KP!CanCreate(c)
    /\ K!NoTransition = KP!NoTransition
    /\ K!OldEpoch = KP!OldEpoch
BY DEF K!VerifyRing, KP!VerifyRing, K!WellFormedEpoch, KP!WellFormedEpoch,
  K!Having, KP!Having, K!SameKey, KP!SameKey, K!WellFormedCommit,
  KP!WellFormedCommit, K!NoTick, KP!NoTick, K!ActiveEpoch, KP!ActiveEpoch,
  K!CreateKeyRing, KP!CreateKeyRing, K!NewEpoch, KP!NewEpoch, K!CanCreate,
  KP!CanCreate, K!NoTransition, KP!NoTransition, K!OldEpoch, KP!OldEpoch

LEMMA SameQuorum ==
  ASSUME NEW votes, NEW m
  PROVE  K!LockCVerdict(votes, m) = KP!LockCVerdict(votes, m)
BY DEF K!LockCVerdict, KP!LockCVerdict, K!QuorumVerdict, KP!QuorumVerdict,
  K!Malformed, KP!Malformed, K!Equivocates, KP!Equivocates, K!Approvals,
  KP!Approvals, K!Cardinality, KP!Cardinality, K!IsFiniteSet, KP!IsFiniteSet,
  K!Clause, KP!Clause, K!ALLOW, KP!ALLOW, K!DENY, KP!DENY, K!INDETERMINATE,
  KP!INDETERMINATE

LEMMA SameTripleLock ==
  ASSUME NEW trans, NEW head, NEW votes, NEW m, NEW ctx
  PROVE  K!TripleLockVerdict(trans, head, votes, m, ctx) =
             KP!TripleLockVerdict(trans, head, votes, m, ctx)
<1>1. \A cand : K!LockAVerdict(cand, ctx) = KP!LockAVerdict(cand, ctx)
  BY DEF K!LockAVerdict, KP!LockAVerdict, K!ActiveEpoch, KP!ActiveEpoch,
    K!VerifyRing, KP!VerifyRing, K!WellFormedEpoch, KP!WellFormedEpoch,
    K!Having, KP!Having, K!SameKey, KP!SameKey, K!WellFormedCommit,
    KP!WellFormedCommit, K!NoTick, KP!NoTick, K!AllOf, KP!AllOf, K!Clause,
    KP!Clause, K!Wait, KP!Wait, K!SeamVerdict, KP!SeamVerdict, K!Authorizes,
    KP!Authorizes, K!ALLOW, KP!ALLOW, K!DENY, KP!DENY, K!INDETERMINATE,
    KP!INDETERMINATE
<1>2. K!LockBVerdict(trans, head, ctx) = KP!LockBVerdict(trans, head, ctx)
  BY DEF K!LockBVerdict, KP!LockBVerdict, K!ActiveEpoch, KP!ActiveEpoch,
    K!VerifyRing, KP!VerifyRing, K!WellFormedEpoch, KP!WellFormedEpoch,
    K!Having, KP!Having, K!SameKey, KP!SameKey, K!WellFormedCommit,
    KP!WellFormedCommit, K!NoTick, KP!NoTick, K!AllOf, KP!AllOf, K!Clause,
    KP!Clause, K!Wait, KP!Wait, K!SeamVerdict, KP!SeamVerdict, K!Authorizes,
    KP!Authorizes, K!ALLOW, KP!ALLOW, K!DENY, KP!DENY, K!INDETERMINATE,
    KP!INDETERMINATE
<1>3. K!Having(keyRing, "staged") = KP!Having(keyRing, "staged")
  BY SameRing
<1>4. (CHOOSE i \in K!Having(keyRing, "staged") : TRUE) =
          (CHOOSE i \in KP!Having(keyRing, "staged") : TRUE)
  BY DEF K!Having, KP!Having
<1>5. K!DENY = KP!DENY /\ \A vs : K!AllOf(vs) = KP!AllOf(vs)
  BY DEF K!AllOf, KP!AllOf, K!DENY, KP!DENY, K!INDETERMINATE, KP!INDETERMINATE
<1> QED
  BY <1>1, <1>2, <1>3, <1>4, <1>5, SameQuorum
     DEF K!TripleLockVerdict, KP!TripleLockVerdict

(* Every step of the machine, whatever the evidence.                       *)
LEMMA SameSteps ==
    /\ K!BeginRotation => KP!BeginRotation
    /\ \A ev, ctx : K!CheckReadiness(ev, ctx) => KP!CheckReadiness(ev, ctx)
    /\ \A c, tick : K!StageCandidate(c, tick) => KP!StageCandidate(c, tick)
    /\ \A trans, head, votes, m, ctx :
           K!CommitTripleLock(trans, head, votes, m, ctx) =>
                KP!CommitTripleLock(trans, head, votes, m, ctx)
    /\ \A tick : K!SwitchEpoch(tick) => KP!SwitchEpoch(tick)
    /\ \A ev, ctx : K!ConfirmTripleVerify(ev, ctx) => KP!ConfirmTripleVerify(ev, ctx)
    /\ \A tick : K!FallbackToOldEpoch(tick) => KP!FallbackToOldEpoch(tick)
    /\ \A ev, votes, m : K!ConfirmDrain(ev, votes, m) => KP!ConfirmDrain(ev, votes, m)
    /\ \A policy, tick : K!RetireOldEpoch(policy, tick) => KP!RetireOldEpoch(policy, tick)
<1>1. K!BeginRotation => KP!BeginRotation
  BY DEF K!BeginRotation, KP!BeginRotation, K!NoTransition, KP!NoTransition
<1>2. \A ev, ctx : K!CheckReadiness(ev, ctx) => KP!CheckReadiness(ev, ctx)
  BY DEF K!CheckReadiness, KP!CheckReadiness, K!ReadinessVerdict,
    KP!ReadinessVerdict, K!AllOf, KP!AllOf, K!Clause, KP!Clause, K!Wait, KP!Wait,
    K!SeamVerdict, KP!SeamVerdict, K!Authorizes, KP!Authorizes, K!ALLOW,
    KP!ALLOW, K!DENY, KP!DENY, K!INDETERMINATE, KP!INDETERMINATE
<1>3. \A c, tick : K!StageCandidate(c, tick) => KP!StageCandidate(c, tick)
  BY DEF K!StageCandidate, KP!StageCandidate, K!CanStage, KP!CanStage,
    K!StageEpoch, KP!StageEpoch, K!NewEpoch, KP!NewEpoch, K!VerifyRing,
    KP!VerifyRing, K!WellFormedEpoch, KP!WellFormedEpoch, K!Having, KP!Having,
    K!SameKey, KP!SameKey, K!WellFormedCommit, KP!WellFormedCommit, K!NoTick,
    KP!NoTick
<1>4. \A trans, head, votes, m, ctx :
          K!CommitTripleLock(trans, head, votes, m, ctx) =>
              KP!CommitTripleLock(trans, head, votes, m, ctx)
  BY SameTripleLock DEF K!CommitTripleLock, KP!CommitTripleLock,
    K!Authorizes, KP!Authorizes, K!ALLOW, KP!ALLOW
<1>5. \A tick : K!SwitchEpoch(tick) => KP!SwitchEpoch(tick)
  BY DEF K!SwitchEpoch, KP!SwitchEpoch, K!CanSwitch, KP!CanSwitch,
    K!SwitchActive, KP!SwitchActive, K!VerifyRing, KP!VerifyRing,
    K!WellFormedEpoch, KP!WellFormedEpoch, K!Having, KP!Having, K!SameKey,
    KP!SameKey, K!WellFormedCommit, KP!WellFormedCommit, K!NoTick, KP!NoTick
<1>6. \A ev, ctx : K!ConfirmTripleVerify(ev, ctx) => KP!ConfirmTripleVerify(ev, ctx)
  BY DEF K!ConfirmTripleVerify, KP!ConfirmTripleVerify, K!TripleVerifyVerdict,
    KP!TripleVerifyVerdict, K!AllOf, KP!AllOf, K!Clause, KP!Clause, K!Wait,
    KP!Wait, K!SeamVerdict, KP!SeamVerdict, K!Authorizes, KP!Authorizes, K!ALLOW,
    KP!ALLOW, K!DENY, KP!DENY, K!INDETERMINATE, KP!INDETERMINATE
<1>7. \A tick : K!FallbackToOldEpoch(tick) => KP!FallbackToOldEpoch(tick)
  BY DEF K!FallbackToOldEpoch, KP!FallbackToOldEpoch, K!CanFallback,
    KP!CanFallback, K!FallbackSwitch, KP!FallbackSwitch, K!ActiveEpoch,
    KP!ActiveEpoch, K!NoTransition, KP!NoTransition, K!VerifyRing, KP!VerifyRing,
    K!WellFormedEpoch, KP!WellFormedEpoch, K!Having, KP!Having, K!SameKey,
    KP!SameKey, K!WellFormedCommit, KP!WellFormedCommit, K!NoTick, KP!NoTick
<1>8. \A ev, votes, m : K!ConfirmDrain(ev, votes, m) => KP!ConfirmDrain(ev, votes, m)
  BY SameQuorum DEF K!ConfirmDrain, KP!ConfirmDrain, K!DrainVerdict,
    KP!DrainVerdict, K!AllOf, KP!AllOf, K!Clause, KP!Clause, K!Wait, KP!Wait,
    K!SeamVerdict, KP!SeamVerdict, K!Authorizes, KP!Authorizes, K!ALLOW,
    KP!ALLOW, K!DENY, KP!DENY, K!INDETERMINATE, KP!INDETERMINATE
<1>9. \A policy, tick : K!RetireOldEpoch(policy, tick) => KP!RetireOldEpoch(policy, tick)
  BY DEF K!RetireOldEpoch, KP!RetireOldEpoch, K!RetireVerdict, KP!RetireVerdict,
    K!PolicyAllowed, KP!PolicyAllowed, K!CanMarkRevoked, KP!CanMarkRevoked,
    K!MarkRevoked, KP!MarkRevoked, K!OldEpoch, KP!OldEpoch, K!ActiveEpoch,
    KP!ActiveEpoch, K!VerifyRing, KP!VerifyRing, K!WellFormedEpoch,
    KP!WellFormedEpoch, K!Having, KP!Having, K!SameKey, KP!SameKey,
    K!WellFormedCommit, KP!WellFormedCommit, K!NoTick, KP!NoTick, K!AllOf,
    KP!AllOf, K!Clause, KP!Clause, K!Wait, KP!Wait, K!SeamVerdict, KP!SeamVerdict,
    K!Authorizes, KP!Authorizes, K!ALLOW, KP!ALLOW, K!DENY, KP!DENY,
    K!INDETERMINATE, KP!INDETERMINATE
<1> QED
  BY <1>1, <1>2, <1>3, <1>4, <1>5, <1>6, <1>7, <1>8, <1>9

LEMMA SameSigner ==
    /\ Signer = KP!ActiveEpoch(keyRing) /\ Signer' = KP!ActiveEpoch(keyRing')
    /\ (K!FellBack <=> KP!FellBack) /\ (K!FellBack' <=> KP!FellBack')
    /\ K!VerifiableEpochs(keyRing) = KP!VerifiableEpochs(keyRing)
<1>1. Signer = KP!ActiveEpoch(keyRing) /\ Signer' = KP!ActiveEpoch(keyRing')
  BY SameRing DEF Signer
<1>2. (K!FellBack <=> KP!FellBack) /\ (K!FellBack' <=> KP!FellBack')
  BY SameRing DEF K!FellBack, KP!FellBack
<1>3. K!VerifiableEpochs(keyRing) = KP!VerifiableEpochs(keyRing)
  BY DEF K!VerifiableEpochs, KP!VerifiableEpochs
<1> QED
  BY <1>1, <1>2, <1>3

-----------------------------------------------------------------------------
(* The writer of the proofs is the one of the model.                       *)

LEMMA WriterAssumed ==
    WP!EpochsAssumption /\ WP!SizesAssumption /\ WP!BoundsAssumption
BY WriterAssumption DEF WP!EpochsAssumption, WP!SizesAssumption, WP!BoundsAssumption

LEMMA SameLines ==
    /\ W!TORN = WP!TORN
    /\ \A lines : W!Parses(lines) <=> WP!Parses(lines)
    /\ \A b : W!HashOf(b) = WP!HashOf(b)
    /\ \A lines, known :
           W!VerifyChainEpochAware(lines, known) <=> WP!VerifyChainEpochAware(lines, known)
BY DEF W!TORN, WP!TORN, W!Parses, WP!Parses, W!HashOf, WP!HashOf, W!BatchHash,
  WP!BatchHash, W!VerifyChainEpochAware, WP!VerifyChainEpochAware, W!Chained,
  WP!Chained, W!LinkOK, WP!LinkOK

LEMMA SameSeal ==
    ASSUME NEW records, NEW result
    PROVE  W!Seal(records, result) <=> WP!Seal(records, result)
BY DEF W!Seal, WP!Seal, W!AppendLine, WP!AppendLine, W!Batch, WP!Batch, W!BatchHash,
  WP!BatchHash, W!TORN, WP!TORN, W!file, WP!file

LEMMA SameCalls ==
    /\ W!Init => WP!Init
    /\ W!WriteResult = WP!WriteResult
    /\ \A result : W!Push(result) => WP!Push(result)
    /\ \A result : W!Flush(result) => WP!Flush(result)
    /\ \A epoch, result : W!AdoptEpoch(epoch, result) => WP!AdoptEpoch(epoch, result)
    /\ \A epoch : W!Reopen(epoch) => WP!Reopen(epoch)
<1>1. W!Init => WP!Init
  BY DEF W!Init, WP!Init
<1>2. \A result : W!Push(result) => WP!Push(result)
  BY SameSeal DEF W!Push, WP!Push, W!file, WP!file
<1>3. \A result : W!Flush(result) => WP!Flush(result)
  BY SameSeal DEF W!Flush, WP!Flush
<1>4. \A epoch, result : W!AdoptEpoch(epoch, result) => WP!AdoptEpoch(epoch, result)
  BY SameSeal DEF W!AdoptEpoch, WP!AdoptEpoch, W!file, WP!file
<1>5. \A epoch : W!Reopen(epoch) => WP!Reopen(epoch)
  BY DEF W!Reopen, WP!Reopen, W!file, WP!file
<1> QED
  BY <1>1, <1>2, <1>3, <1>4, <1>5 DEF W!WriteResult, WP!WriteResult

-----------------------------------------------------------------------------
(* The inductive invariant.                                                *)

(* The caller only ever retires cold, and a fallback revokes what lies     *)
(* after the signer.                                                       *)
KeysUpToSigner ==
    \A i \in DOMAIN keyRing : i =< Signer => keyRing[i].status # "revoked"

(* An epoch of the ring that signs, has signed, or was taken back.         *)
Accounted(epoch) ==
    /\ epoch \in DOMAIN keyRing
    /\ epoch =< Signer \/ keyRing[epoch].status = "revoked"

EpochsAccounted ==
    /\ Accounted(epochId)
    /\ \A i \in DOMAIN ledger : ledger[i] # W!TORN => Accounted(ledger[i].epochId)

LockInside == lockedAt \in 0 .. Len(ledger)

IInv ==
    /\ KP!IInv /\ WP!IInv
    /\ KeysUpToSigner /\ EpochsAccounted
    /\ WriterInStep /\ LockInside /\ HandoverOnChain

(* What the two sides give, in one place.                                  *)
LEMMA Facts ==
    ASSUME KP!IInv, WP!IInv
    PROVE  /\ DOMAIN keyRing = 1 .. Len(keyRing) /\ Len(keyRing) \in Nat
           /\ Signer \in 1 .. Len(keyRing)
           /\ epochId \in Nat \ {0} /\ writers \in Nat \ {0}
           /\ DOMAIN ledger = 1 .. Len(ledger) /\ Len(ledger) \in Nat
<1>1. /\ DOMAIN keyRing = 1 .. Len(keyRing) /\ Len(keyRing) \in Nat
      /\ Signer \in 1 .. Len(keyRing)
  BY KP!RingFacts, Assumed, SameSigner DEF KP!IInv
<1>2. epochId \in Nat \ {0} /\ writers \in Nat \ {0} /\ WP!IsSeq(ledger)
  BY DEF WP!IInv, WP!TypeOK, WP!LedgerShape
<1>3. DOMAIN ledger = 1 .. Len(ledger) /\ Len(ledger) \in Nat
  BY <1>2 DEF WP!IsSeq
<1> QED
  BY <1>1, <1>2, <1>3

(* Between the lock and the retirement no rotation has fallen back.        *)
Rotating == {"locked", "switched", "verified", "drained", "retired"}

LEMMA NoFallbackInside == KP!IInv /\ phase \in Rotating => ~K!FellBack
<1> SUFFICES ASSUME KP!IInv, phase \in Rotating, KP!FellBack PROVE FALSE
  BY SameSigner
<1>1. /\ DOMAIN keyRing = 1 .. Len(keyRing) /\ Len(keyRing) \in Nat
      /\ Signer \in 1 .. Len(keyRing) /\ Signer = KP!ActiveEpoch(keyRing)
  BY KP!RingFacts, Assumed, SameSigner DEF KP!IInv
<1>2. PICK k \in DOMAIN keyRing : k > Signer /\ keyRing[k].status = "revoked"
  BY <1>1 DEF KP!FellBack
<1>3. CASE phase = "locked"
  <2>1. Len(keyRing) = Signer + 1
    BY <1>1, <1>3 DEF KP!IInv, KP!PhaseMatchesRing
  <2>2. k = Len(keyRing)
    BY <1>1, <1>2, <2>1
  <2>3. Len(keyRing) \in KP!Having(keyRing, "staged")
    BY <1>3 DEF KP!IInv, KP!PhaseMatchesRing
  <2> QED
    BY <1>2, <2>2, <2>3 DEF KP!Having
<1>4. CASE phase # "locked"
  <2>1. Len(keyRing) = Signer
    BY <1>1, <1>4 DEF KP!IInv, KP!PhaseMatchesRing, Rotating
  <2> QED
    BY <1>1, <1>2, <2>1
<1> QED
  BY <1>3, <1>4

LEMMA NoFallbackNext == KP!IInv' /\ phase' \in Rotating => ~K!FellBack'
<1> DEFINE Inside == KP!IInv /\ phase \in Rotating => ~K!FellBack
<1>1. Inside
  BY NoFallbackInside
<1>2. Inside'
  <2> HIDE DEF Inside
  <2> QED
    BY <1>1, PTL
<1> QED
  BY <1>2

(* The untorn ledger of one writer is a chain that ends at the writer's    *)
(* head, of epochs it has had.                                             *)
LEMMA LedgerWhole ==
    ASSUME WP!IInv, writers = 1, W!Parses(ledger)
    PROVE  /\ \A i \in 1 .. Len(ledger) :
                  /\ WP!LinkOK(ledger, i, IF i = 1 THEN GENESIS
                                          ELSE WP!HashOf(ledger[i - 1]))
                  /\ ledger[i].epochId \in Nat \ {0} /\ ledger[i].epochId =< epochId
           /\ \A i, j \in 1 .. Len(ledger) :
                  i < j => ledger[i].epochId =< ledger[j].epochId
           /\ prevHash = IF Len(ledger) = 0 THEN GENESIS
                         ELSE W!HashOf(ledger[Len(ledger)])
<1>1. WP!Parses(ledger) /\ WP!Whole
  BY SameLines DEF WP!IInv, WP!OneWriterWhole, WP!OneOpened
<1>2. DOMAIN ledger = 1 .. Len(ledger)
  BY DEF WP!IInv, WP!LedgerShape, WP!IsSeq
<1>3. \A i \in 1 .. Len(ledger) : ledger[i].epochId \in Nat \ {0}
  BY <1>1, <1>2 DEF WP!Parses, WP!IInv, WP!TypeOK, WP!IsBatch
<1> QED
  BY <1>1, <1>3, SameLines DEF WP!Whole

-----------------------------------------------------------------------------
(* A step of the ceremony.                                                 *)

LEMMA CeremonyIsStep ==
    ASSUME Ceremony
    PROVE  KP!AnyStep
<1>1. ColdRetain \in KP!RetirePolicy
  BY DEF ColdRetain, KP!RetirePolicy
<1> QED
  BY <1>1, SameSteps DEF Ceremony, KP!AnyStep

(* Which phases it leads to, and from where.                               *)
LEMMA PhaseMoves ==
    ASSUME Ceremony
    PROVE  /\ phase' = "locked" =>
                  UNCHANGED keyRing /\ transition' = Handover
           /\ phase' = "switched" => phase = "locked" /\ transition' = transition
           /\ phase' \in {"verified", "drained", "retired"} =>
                  /\ UNCHANGED <<keyRing, transition>>
                  /\ \/ phase \in {"verified", "drained", "retired"}
                     \/ /\ phase = "switched" /\ W!Parses(ledger)
                        /\ KP!ConfirmTripleVerify(Boundary(Signer), Ctx)
<1>1. CASE K!BeginRotation
  BY <1>1 DEF K!BeginRotation
<1>2. CASE K!CheckReadiness(Quiet, Ctx)
  BY <1>2 DEF K!CheckReadiness
<1>3. CASE \E c \in Candidates, tick \in Ticks : K!StageCandidate(c, tick)
  BY <1>3 DEF K!StageCandidate
<1>4. CASE K!CommitTripleLock(Handover, prevHash, Witnesses, 2, Ctx)
  BY <1>4 DEF K!CommitTripleLock
<1>5. CASE \E tick \in Ticks : K!SwitchEpoch(tick)
  BY <1>5 DEF K!SwitchEpoch
<1>6. CASE W!Parses(ledger) /\ K!ConfirmTripleVerify(Boundary(Signer), Ctx)
  <2>1. KP!ConfirmTripleVerify(Boundary(Signer), Ctx)
    BY <1>6, SameSteps
  <2>2. phase = "switched" /\ phase' = "verified" /\ UNCHANGED <<keyRing, transition>>
    BY <1>6 DEF K!ConfirmTripleVerify
  <2> QED
    BY <1>6, <2>1, <2>2
<1>7. CASE \E tick \in Ticks : K!FallbackToOldEpoch(tick)
  BY <1>7 DEF K!FallbackToOldEpoch
<1>8. CASE K!ConfirmDrain(Drained, Witnesses, 2)
  BY <1>8 DEF K!ConfirmDrain
<1>9. CASE \E tick \in Ticks : K!RetireOldEpoch(ColdRetain, tick)
  BY <1>9 DEF K!RetireOldEpoch, ColdRetain
<1> QED
  BY <1>1, <1>2, <1>3, <1>4, <1>5, <1>6, <1>7, <1>8, <1>9 DEF Ceremony

(* Only the newest epoch of a switch that is undone is ever revoked.       *)
LEMMA RingMoves ==
    ASSUME KP!IInv, KeysUpToSigner, Ceremony
    PROVE  /\ KP!IInv' /\ KeysUpToSigner' /\ Signer' \in Nat
           /\ Signer' >= Signer \/ K!FellBack'
           /\ K!FellBack => K!FellBack' /\ Signer' = Signer
           /\ \A epoch \in Nat : Accounted(epoch) =>
                  /\ epoch \in DOMAIN keyRing'
                  /\ epoch =< Signer' \/ keyRing'[epoch].status = "revoked"
<1> DEFINE AllAccounted ==
               \A epoch \in Nat : Accounted(epoch) =>
                   /\ epoch \in DOMAIN keyRing'
                   /\ epoch =< Signer' \/ keyRing'[epoch].status = "revoked"
<1>1. KP!AnyStep /\ KP!IInv'
  BY CeremonyIsStep, KP!AnyStepIInv, Assumed
<1>2. K!FellBack => K!FellBack' /\ Signer' = Signer
  BY <1>1, KP!FallbackFinalStep, Assumed, SameSigner
<1>3. /\ DOMAIN keyRing = 1 .. Len(keyRing) /\ Len(keyRing) \in Nat
      /\ Signer \in 1 .. Len(keyRing) /\ Signer = KP!ActiveEpoch(keyRing)
      /\ keyRing[Signer].status = "active"
  BY KP!RingFacts, Assumed, SameSigner DEF KP!IInv
<1>4. /\ DOMAIN keyRing' = 1 .. Len(keyRing') /\ Len(keyRing') \in Nat
      /\ Signer' = KP!ActiveEpoch(keyRing') /\ Signer' \in Nat
  <2>1. keyRing' \in KP!Ring /\ KP!VerifyRing(keyRing')
    BY <1>1 DEF KP!IInv, KP!Typed, KP!Ring, KP!RingVerifies
  <2>2. DOMAIN keyRing' = 1 .. Len(keyRing') /\ Len(keyRing') \in Nat
    BY <2>1 DEF KP!Ring
  <2>3. KP!ActiveEpoch(keyRing') \in 1 .. Len(keyRing')
    BY <2>1, KP!ActiveIsUnique, Assumed
  <2> QED
    BY <2>2, <2>3, SameSigner
<1>5. CASE \E c \in Candidates, tick \in Ticks : KP!StageCandidate(c, tick)
  <2>1. /\ \A i \in DOMAIN keyRing : keyRing'[i] = keyRing[i]
        /\ Signer' = Signer
    BY <1>3, <1>4, <1>5, KP!StageStep, Assumed
  <2>2. KeysUpToSigner'
    BY <1>3, <1>4, <2>1 DEF KeysUpToSigner
  <2>3. Len(keyRing) =< Len(keyRing')
    BY <1>3, <1>5, KP!StageStep, Assumed
  <2>4. AllAccounted
    BY <1>3, <1>4, <2>1, <2>3 DEF Accounted
  <2> QED
    BY <1>1, <1>2, <1>3, <1>4, <2>1, <2>2, <2>4
<1>6. CASE \E tick \in Ticks : KP!SwitchEpoch(tick)
  <2>1. PICK tick \in Ticks : KP!SwitchEpoch(tick)
    BY <1>6
  <2>2. /\ KP!SameKeys(keyRing, keyRing') /\ Signer' = Signer + 1
        /\ Len(keyRing) = Signer + 1 /\ keyRing[Signer + 1].status = "staged"
    BY <1>3, <1>4, <2>1, KP!SwitchStep, Assumed
  <2>3. \A i \in DOMAIN keyRing :
            keyRing'[i].status = CASE keyRing[i].status = "active" -> "retired"
                                   [] keyRing[i].status = "staged" -> "active"
                                   [] OTHER -> keyRing[i].status
    BY <2>1, KP!SwitchStep, Assumed
  <2>4. \A i \in DOMAIN keyRing :
            keyRing'[i].status \in {"retired", "active", keyRing[i].status}
    BY <2>3
  <2>5. Len(keyRing') = Len(keyRing)
    BY <2>2 DEF KP!SameKeys
  <2>6. \A i \in DOMAIN keyRing : keyRing[i].status # "revoked"
    BY <1>3, <2>2 DEF KeysUpToSigner
  <2>7. KeysUpToSigner'
    BY <1>3, <1>4, <2>4, <2>5, <2>6 DEF KeysUpToSigner
  <2>8. AllAccounted
    BY <1>3, <1>4, <2>2, <2>5 DEF Accounted
  <2> QED
    BY <1>1, <1>2, <1>3, <1>4, <2>2, <2>7, <2>8
<1>7. CASE \E tick \in Ticks : KP!FallbackToOldEpoch(tick)
  <2>1. PICK tick \in Ticks : KP!FallbackToOldEpoch(tick)
    BY <1>7
  <2>2. /\ KP!SameKeys(keyRing, keyRing') /\ Signer = Len(keyRing)
        /\ Signer' = Signer - 1
    BY <1>3, <1>4, <2>1, KP!FallbackStep, Assumed
  <2>3. \A i \in DOMAIN keyRing :
            keyRing'[i].status = CASE i = Signer -> "revoked"
                                   [] i = Signer - 1 -> "active"
                                   [] OTHER -> keyRing[i].status
    BY <1>3, <2>1, KP!FallbackStep, Assumed
  <2>4. /\ keyRing'[Signer].status = "revoked"
        /\ \A i \in DOMAIN keyRing :
               i < Signer => keyRing'[i].status \in {"active", keyRing[i].status}
    BY <1>3, <2>3
  <2>5. Len(keyRing') = Len(keyRing)
    BY <2>2 DEF KP!SameKeys
  <2>6. KP!FellBack'
    BY <1>3, <1>4, <2>2, <2>4, <2>5 DEF KP!FellBack
  <2>7. KeysUpToSigner'
    BY <1>3, <1>4, <2>2, <2>4, <2>5 DEF KeysUpToSigner
  <2>8. AllAccounted
    BY <1>3, <1>4, <2>2, <2>4, <2>5 DEF Accounted
  <2> QED
    BY <1>1, <1>2, <1>4, <2>6, <2>7, <2>8, SameSigner
<1>8. CASE keyRing' = keyRing
  <2>1. Signer' = Signer
    BY <1>8 DEF Signer
  <2>2. AllAccounted
    BY <1>8, <2>1 DEF Accounted
  <2> QED
    BY <1>1, <1>2, <1>3, <1>4, <1>8, <2>1, <2>2 DEF KeysUpToSigner
<1>9. CASE Ceremony /\ \E tick \in Ticks : K!RetireOldEpoch(ColdRetain, tick)
  BY <1>8, <1>9 DEF K!RetireOldEpoch, ColdRetain
<1> QED
  <2>1. \/ K!BeginRotation \/ K!CheckReadiness(Quiet, Ctx)
        \/ K!CommitTripleLock(Handover, prevHash, Witnesses, 2, Ctx)
        \/ K!ConfirmTripleVerify(Boundary(Signer), Ctx)
        \/ K!ConfirmDrain(Drained, Witnesses, 2)
        => keyRing' = keyRing
    BY DEF K!BeginRotation, K!CheckReadiness, K!CommitTripleLock,
       K!ConfirmTripleVerify, K!ConfirmDrain
  <2> QED
    BY <1>5, <1>6, <1>7, <1>8, <1>9, <2>1, SameSteps DEF Ceremony

(* The canary sees a batch of the new epoch on the ledger.                 *)
LEMMA CanaryOnLedger ==
    ASSUME KP!IInv, WP!IInv, KP!ConfirmTripleVerify(Boundary(Signer), Ctx)
    PROVE  \E i \in DOMAIN ledger : ledger[i].epochId = Signer
<1>1. KP!Authorizes(KP!TripleVerifyVerdict(Boundary(Signer), Ctx))
  BY DEF KP!ConfirmTripleVerify
<1>2. Boundary(Signer).cleanBatches >= Boundary(Signer).canaryN
  BY <1>1, KP!VerifyAllows, Assumed
<1>3. Cardinality(BatchesOf(Signer)) >= 1
  BY <1>2 DEF Boundary
<1>4. BatchesOf(Signer) # {}
  BY <1>3, FS_EmptySet
<1> QED
  BY <1>4 DEF BatchesOf

LEMMA CeremonyKeeps ==
    ASSUME IInv, Ceremony, UNCHANGED egress,
           lockedAt' = IF phase' = "locked" THEN Len(ledger) ELSE lockedAt
    PROVE  IInv'
<1>1. /\ KP!IInv /\ WP!IInv /\ KeysUpToSigner /\ EpochsAccounted /\ WriterInStep
      /\ LockInside /\ HandoverOnChain
  BY DEF IInv
<1>2. UNCHANGED <<staged, seq, prevHash, epochId, ledger, tornTail, pushed, accepted,
                  writers, opened>>
  BY DEF egress
<1>3. /\ KP!IInv' /\ KeysUpToSigner' /\ Signer' \in Nat
      /\ Signer' >= Signer \/ K!FellBack'
      /\ K!FellBack => K!FellBack' /\ Signer' = Signer
      /\ \A epoch \in Nat : Accounted(epoch) =>
             /\ epoch \in DOMAIN keyRing'
             /\ epoch =< Signer' \/ keyRing'[epoch].status = "revoked"
  BY <1>1, RingMoves
<1>4. WP!IInv'
  <2>1. UNCHANGED WP!vars
    BY <1>2 DEF WP!vars, WP!writer, WP!file
  <2> QED
    BY <1>1, <2>1, WP!Preserves, WriterAssumed
<1>5. /\ Signer \in Nat /\ Signer' \in Nat /\ epochId \in Nat
      /\ DOMAIN ledger = 1 .. Len(ledger) /\ Len(ledger) \in Nat
  BY <1>1, <1>3, Facts
<1>6. WriterInStep'
  <2>1. ~K!FellBack' => epochId' =< Signer'
    BY <1>1, <1>2, <1>3, <1>5 DEF WriterInStep
  <2>2. ASSUME phase' \in {"verified", "drained", "retired"}, writers' = 1
        PROVE  epochId' = Signer'
    <3>1. UNCHANGED keyRing /\ Signer' = Signer
      BY <2>2, PhaseMoves DEF Signer
    <3>2. CASE phase \in {"verified", "drained", "retired"}
      BY <1>1, <1>2, <2>2, <3>1, <3>2 DEF WriterInStep
    <3>3. CASE /\ phase = "switched" /\ W!Parses(ledger)
               /\ KP!ConfirmTripleVerify(Boundary(Signer), Ctx)
      <4>1. PICK i \in DOMAIN ledger : ledger[i].epochId = Signer
        BY <1>1, <3>3, CanaryOnLedger
      <4>2. Signer =< epochId
        BY <1>1, <1>2, <1>5, <2>2, <3>3, <4>1, LedgerWhole
      <4>3. epochId =< Signer
        BY <1>1, <3>3, NoFallbackInside DEF WriterInStep, Rotating
      <4> QED
        BY <1>2, <1>5, <3>1, <4>2, <4>3
    <3> QED
      BY <2>2, <3>2, <3>3, PhaseMoves
  <2> QED
    BY <2>1, <2>2 DEF WriterInStep
<1>7. LockInside'
  BY <1>1, <1>2, <1>5 DEF LockInside
<1>8. HandoverOnChain'
  <2> SUFFICES ASSUME phase' \in Rotating,
                      writers = 1, W!Parses(ledger)
               PROVE  /\ transition'.prevChainHead =
                             IF lockedAt' = 0 THEN GENESIS ELSE W!HashOf(ledger[lockedAt'])
                      /\ \A i \in 1 .. lockedAt' : ledger[i].epochId < transition'.toEpoch
    BY <1>2 DEF HandoverOnChain, Rotating
  <2>1. CASE phase' = "locked"
    <3>1. /\ transition'.prevChainHead = prevHash /\ transition'.toEpoch = Signer + 1
          /\ Signer' = Signer /\ lockedAt' = Len(ledger)
      BY <2>1, PhaseMoves DEF Handover, Signer
    <3>2. epochId =< Signer
      <4>1. ~K!FellBack'
        BY <1>3, <2>1, NoFallbackNext DEF Rotating
      <4> QED
        BY <1>1, <1>3, <4>1 DEF WriterInStep
    <3>3. /\ prevHash = IF Len(ledger) = 0 THEN GENESIS ELSE W!HashOf(ledger[Len(ledger)])
          /\ \A i \in 1 .. Len(ledger) : ledger[i].epochId \in Nat
                                             /\ ledger[i].epochId =< epochId
      BY <1>1, LedgerWhole
    <3>4. \A i \in 1 .. Len(ledger) : ledger[i].epochId < Signer + 1
      BY <1>5, <3>2, <3>3
    <3> QED
      BY <3>1, <3>3, <3>4
  <2>2. CASE phase' # "locked"
    <3>1. transition' = transition /\ lockedAt' = lockedAt
          /\ phase \in Rotating
      BY <2>2, PhaseMoves DEF Rotating
    <3> QED
      BY <1>1, <3>1 DEF HandoverOnChain, Rotating
  <2> QED
    BY <2>1, <2>2
<1>9. EpochsAccounted'
  <2>1. Accounted(epochId)'
    BY <1>1, <1>2, <1>3, <1>5 DEF EpochsAccounted, Accounted
  <2>2. ASSUME NEW i \in DOMAIN ledger, ledger[i] # W!TORN
        PROVE  Accounted(ledger[i].epochId)'
    <3>1. Accounted(ledger[i].epochId) /\ ledger[i].epochId \in Nat
      BY <1>1, <2>2, Facts DEF EpochsAccounted, Accounted
    <3> QED
      BY <1>2, <1>3, <3>1 DEF Accounted
  <2> QED
    BY <1>2, <2>1, <2>2, SameLines DEF EpochsAccounted, W!TORN
<1> QED
  BY <1>3, <1>4, <1>6, <1>7, <1>8, <1>9 DEF IInv

-----------------------------------------------------------------------------
(* A step of the writer.                                                   *)

Egress == Writing \/ W!Reopen(Signer)

(* It is one of the writer's model; the epoch it names is the signer's.    *)
LEMMA EgressIsStep ==
    ASSUME KP!IInv, Egress
    PROVE  /\ WP!Next
           /\ epochId' = epochId \/ epochId' = Signer
           /\ epochId' # epochId /\ writers' = writers => epochId < Signer
<1>1. Signer \in Nat \ {0}
  BY KP!RingFacts, Assumed, SameSigner DEF KP!IInv
<1>2. CASE \E result \in W!WriteResult : W!Push(result) \/ W!Flush(result)
  <2>1. \E result \in WP!WriteResult : WP!Push(result) \/ WP!Flush(result)
    BY <1>2, SameCalls
  <2>2. WP!Next /\ epochId' = epochId
    BY <2>1 DEF WP!Next, WP!Push, WP!Flush
  <2> QED
    BY <2>2
<1>3. CASE \E result \in W!WriteResult : W!AdoptEpoch(Signer, result)
  <2>1. \E result \in WP!WriteResult : WP!AdoptEpoch(Signer, result)
    BY <1>3, SameCalls
  <2>2. WP!Next
    BY <1>1, <2>1 DEF WP!Next
  <2>3. epochId < Signer /\ epochId' \in {epochId, Signer}
    BY <2>1 DEF WP!AdoptEpoch
  <2> QED
    BY <2>2, <2>3
<1>4. CASE W!Reopen(Signer)
  <2>1. WP!Reopen(Signer)
    BY <1>4, SameCalls
  <2>2. WP!Next
    BY <1>1, <2>1 DEF WP!Next
  <2>3. epochId' = Signer /\ writers < MaxWriters /\ writers' = writers + 1
    BY <2>1 DEF WP!Reopen
  <2>4. writers' # writers
    BY <2>3, WriterAssumption
  <2> QED
    BY <2>2, <2>3, <2>4
<1> QED
  BY <1>2, <1>3, <1>4 DEF Egress, Writing

LEMMA EgressKeeps ==
    ASSUME IInv, Egress, UNCHANGED <<ceremony, lockedAt>>
    PROVE  IInv'
<1>1. /\ KP!IInv /\ WP!IInv /\ KeysUpToSigner /\ EpochsAccounted /\ WriterInStep
      /\ LockInside /\ HandoverOnChain
      /\ UNCHANGED <<keyRing, phase, transition, lockedAt>>
  BY DEF IInv, ceremony
<1>2. Signer' = Signer /\ (K!FellBack' <=> K!FellBack)
  BY <1>1 DEF Signer, K!FellBack
<1>3. KP!IInv' /\ KeysUpToSigner'
  BY <1>1, <1>2 DEF KP!IInv, KP!Typed, KP!RingVerifies, KP!PhaseMatchesRing,
     KP!EpochsInOrder, KP!SwitchTicks, KeysUpToSigner
<1>4. /\ WP!Next
      /\ epochId' = epochId \/ epochId' = Signer
      /\ epochId' # epochId /\ writers' = writers => epochId < Signer
  BY <1>1, EgressIsStep
<1>5. WP!IInv'
  BY <1>1, <1>4, WP!Preserves, WriterAssumed
<1>6. /\ \A i \in DOMAIN ledger : i \in DOMAIN ledger' /\ ledger'[i] = ledger[i]
      /\ \A i \in DOMAIN ledger' :
             i \in DOMAIN ledger \/ ledger'[i] = W!TORN \/ ledger'[i].epochId = epochId
      /\ W!Parses(ledger') => W!Parses(ledger)
      /\ writers' = 1 => writers = 1
  BY <1>1, <1>4, WP!LinesStay, WriterAssumed, SameLines
<1>7. /\ Signer \in Nat /\ epochId \in Nat /\ Signer \in DOMAIN keyRing
      /\ DOMAIN ledger = 1 .. Len(ledger) /\ Len(ledger) \in Nat
  BY <1>1, Facts
<1>8. Len(ledger') \in Nat /\ DOMAIN ledger' = 1 .. Len(ledger')
  BY <1>5 DEF WP!IInv, WP!LedgerShape, WP!IsSeq
<1>9. Len(ledger) =< Len(ledger')
  <2>1. CASE Len(ledger) = 0
    BY <1>8, <2>1
  <2>2. CASE Len(ledger) # 0
    <3>1. Len(ledger) \in DOMAIN ledger
      BY <1>7, <2>2
    <3> QED
      BY <1>6, <1>7, <1>8, <3>1
  <2> QED
    BY <2>1, <2>2
<1>10. LockInside'
  BY <1>1, <1>7, <1>8, <1>9 DEF LockInside
<1>11. WriterInStep'
  BY <1>1, <1>2, <1>4, <1>6, <1>7 DEF WriterInStep
<1>12. HandoverOnChain'
  <2> SUFFICES ASSUME phase \in Rotating, writers' = 1, W!Parses(ledger')
               PROVE  /\ transition.prevChainHead =
                             IF lockedAt = 0 THEN GENESIS ELSE W!HashOf(ledger'[lockedAt])
                      /\ \A i \in 1 .. lockedAt : ledger'[i].epochId < transition.toEpoch
    BY <1>1 DEF HandoverOnChain, Rotating
  <2>1. /\ transition.prevChainHead =
                   IF lockedAt = 0 THEN GENESIS ELSE W!HashOf(ledger[lockedAt])
        /\ \A i \in 1 .. lockedAt : ledger[i].epochId < transition.toEpoch
    BY <1>1, <1>6 DEF HandoverOnChain, Rotating
  <2>2. /\ lockedAt # 0 => lockedAt \in DOMAIN ledger
        /\ \A i \in 1 .. lockedAt : i \in DOMAIN ledger
    BY <1>1, <1>7 DEF LockInside
  <2> QED
    BY <1>6, <2>1, <2>2
<1>13. EpochsAccounted'
  <2>1. Accounted(epochId) /\ Accounted(Signer)
    BY <1>1, <1>7 DEF EpochsAccounted, Accounted
  <2>2. \A epoch : Accounted(epoch) => Accounted(epoch)'
    BY <1>1, <1>2 DEF Accounted
  <2>3. Accounted(epochId)'
    BY <1>4, <2>1, <2>2
  <2>4. ASSUME NEW i \in DOMAIN ledger', ledger'[i] # W!TORN
        PROVE  Accounted(ledger'[i].epochId)
    BY <1>1, <1>6, <2>1, <2>4 DEF EpochsAccounted
  <2> QED
    BY <2>2, <2>3, <2>4 DEF EpochsAccounted, W!TORN
<1> QED
  BY <1>3, <1>5, <1>11, <1>12, <1>10, <1>13 DEF IInv

LEMMA StutterKeeps ==
    ASSUME IInv, UNCHANGED vars
    PROVE  IInv'
<1>1. UNCHANGED <<ceremony, egress, lockedAt>>
  BY DEF vars
<1>2. KP!IInv' /\ KeysUpToSigner'
  BY <1>1 DEF ceremony, IInv, KP!IInv, KP!Typed, KP!RingVerifies, KP!PhaseMatchesRing,
     KP!EpochsInOrder, KP!SwitchTicks, KeysUpToSigner, Signer
<1>3. UNCHANGED WP!vars
  BY <1>1 DEF egress, WP!vars, WP!writer, WP!file
<1>4. WP!IInv'
  BY <1>3, WP!Preserves, WriterAssumed DEF IInv
<1>5. WriterInStep'
  BY <1>1 DEF ceremony, egress, IInv, WriterInStep, Signer, K!FellBack
<1>6. HandoverOnChain'
  BY <1>1 DEF ceremony, egress, IInv, HandoverOnChain
<1>7. EpochsAccounted' /\ LockInside'
  BY <1>1 DEF ceremony, egress, IInv, EpochsAccounted, Accounted, Signer, LockInside,
     W!TORN
<1> QED
  BY <1>2, <1>4, <1>5, <1>6, <1>7 DEF IInv

LEMMA Preserves ==
    ASSUME IInv, [Next]_vars
    PROVE  IInv'
BY CeremonyKeeps, EgressKeeps, StutterKeeps DEF Next, Egress

LEMMA Establishes == Init => IInv
<1> SUFFICES ASSUME Init PROVE IInv
  OBVIOUS
<1>1. KP!Init /\ WP!Init /\ epochId = 1
  <2>1. KP!Init
    BY SameRing DEF Init, K!Init, KP!Init
  <2> QED
    BY <2>1, SameCalls DEF Init
<1>2. KP!IInv /\ WP!IInv
  BY <1>1, KP!InitIInv, Assumed, WP!Establishes, WriterAssumed
<1>3. PICK c \in Candidates, tick \in Ticks :
          KP!CanCreate(c) /\ keyRing = KP!CreateKeyRing(c, tick)
  BY <1>1 DEF KP!Init
<1>4. Signer = 1 /\ keyRing[1].status = "active" /\ Len(keyRing) = 1
  BY <1>3, KP!CreateVerifies, Assumed, SameSigner
<1>5. phase = "idle"
  BY <1>1 DEF KP!Init
<1>6. DOMAIN keyRing = {1}
  BY <1>2, <1>4, Facts
<1>7. KeysUpToSigner
  BY <1>4, <1>6 DEF KeysUpToSigner
<1>8. ledger = << >> /\ lockedAt = 0
  BY <1>1 DEF WP!Init, Init
<1>9. EpochsAccounted /\ LockInside
  BY <1>1, <1>4, <1>6, <1>8 DEF EpochsAccounted, Accounted, LockInside
<1> QED
  BY <1>1, <1>2, <1>4, <1>5, <1>7, <1>9 DEF IInv, WriterInStep, HandoverOnChain

-----------------------------------------------------------------------------
(* The theorems.                                                           *)

(* In every reachable state both sides keep the invariants they keep       *)
(* alone, and they are no further apart than the caller leaves them.       *)
THEOREM Invariance == Spec => []IInv
<1>1. IInv /\ [Next]_vars => IInv'
  BY Preserves
<1> QED
  BY Establishes, <1>1, PTL DEF Spec

(* Until a rotation falls back the untorn ledger of one writer verifies    *)
(* end to end under the keys the ring gives at that moment, wherever the   *)
(* ceremony stands and whatever writes failed.                             *)
THEOREM LedgerAlwaysVerifies == Spec => []LedgerFollowsRing
<1>1. ASSUME IInv PROVE LedgerFollowsRing
  <2> SUFFICES ASSUME writers = 1, W!Parses(ledger), ~K!FellBack
               PROVE  LedgerVerifies
    BY DEF LedgerFollowsRing
  <2>1. KP!IInv /\ WP!IInv /\ KeysUpToSigner /\ WriterInStep
    BY <1>1 DEF IInv
  <2>2. /\ DOMAIN keyRing = 1 .. Len(keyRing) /\ Len(keyRing) \in Nat
        /\ Signer \in 1 .. Len(keyRing) /\ epochId \in Nat /\ epochId =< Signer
        /\ DOMAIN ledger = 1 .. Len(ledger)
    BY <2>1, Facts DEF WriterInStep
  <2>3. /\ \A i \in 1 .. Len(ledger) :
               /\ WP!LinkOK(ledger, i, IF i = 1 THEN GENESIS
                                       ELSE WP!HashOf(ledger[i - 1]))
               /\ ledger[i].epochId \in Nat \ {0} /\ ledger[i].epochId =< epochId
        /\ \A i, j \in 1 .. Len(ledger) :
               i < j => ledger[i].epochId =< ledger[j].epochId
    BY <2>1, LedgerWhole
  <2>4. WP!Chained(ledger)
    BY <2>2, <2>3 DEF WP!Chained
  <2>5. ASSUME NEW i \in DOMAIN ledger
        PROVE  ledger[i].epochId >= 1
                   /\ ledger[i].epochId \in KP!VerifiableEpochs(keyRing)
    <3>1. ledger[i].epochId \in 1 .. Len(keyRing) /\ ledger[i].epochId =< Signer
      BY <2>2, <2>3
    <3> QED
      BY <2>1, <2>2, <3>1 DEF KeysUpToSigner, KP!VerifiableEpochs
  <2>6. WP!VerifyChainEpochAware(ledger, KP!VerifiableEpochs(keyRing))
    BY <2>2, <2>3, <2>4, <2>5 DEF WP!VerifyChainEpochAware
  <2> QED
    BY <2>6, SameLines, SameSigner DEF LedgerVerifies
<1>2. IInv => LedgerFollowsRing
  BY <1>1
<1> QED
  BY Invariance, <1>2, PTL

(* Once a switch is verified the writer seals under the epoch that signs,  *)
(* and it is never ahead of the signer unless a rotation fell back.        *)
THEOREM WriterKeepsStep == Spec => []WriterInStep
<1>1. IInv => WriterInStep
  BY DEF IInv
<1> QED
  BY Invariance, <1>1, PTL

(* The chain head in a locked transition is that of the batch that was the *)
(* last at the locks, of an earlier epoch, and goes on naming that batch.  *)
THEOREM HandoverStaysOnChain == Spec => []HandoverOnChain
<1>1. IInv => HandoverOnChain
  BY DEF IInv
<1> QED
  BY Invariance, <1>1, PTL

(* With any number of writers and failed writes, a batch is accepted       *)
(* exactly as long as its epoch is not after the one that signs.           *)
THEOREM HistoryKept == Spec => []HistoryUpToSigner
<1>1. ASSUME IInv PROVE HistoryUpToSigner
  <2> SUFFICES ASSUME NEW i \in DOMAIN ledger, ledger[i] # W!TORN
               PROVE  ledger[i].epochId \in K!VerifiableEpochs(keyRing)
                          <=> ledger[i].epochId =< Signer
    BY DEF HistoryUpToSigner
  <2>1. Accounted(ledger[i].epochId) /\ KeysUpToSigner
    BY <1>1 DEF IInv, EpochsAccounted
  <2> QED
    BY <2>1 DEF Accounted, KeysUpToSigner, K!VerifiableEpochs
<1>2. IInv => HistoryUpToSigner
  BY <1>1
<1> QED
  BY Invariance, <1>2, PTL

(* A writer that a fallback left ahead of the signer stays in its revoked  *)
(* epoch until it is replaced.                                             *)
THEOREM StrandedStays == Spec => StrandedForGood
<1> DEFINE Stays == Stranded /\ writers' = writers => Stranded' /\ epochId' = epochId
<1>1. ASSUME IInv, [Next]_vars, Stranded, writers' = writers
      PROVE  Stranded' /\ epochId' = epochId
  <2>1. KP!IInv /\ WP!IInv /\ KeysUpToSigner /\ WriterInStep
    BY <1>1 DEF IInv
  <2>2. Signer \in Nat /\ epochId \in Nat
    BY <2>1, Facts
  <2>3. K!FellBack
    BY <1>1, <2>1, <2>2 DEF Stranded, WriterInStep
  <2>4. CASE Ceremony /\ UNCHANGED egress
    <3>1. Signer' = Signer
      BY <2>1, <2>3, <2>4, RingMoves
    <3>2. epochId' = epochId
      BY <2>4 DEF egress
    <3> QED
      BY <1>1, <3>1, <3>2 DEF Stranded
  <2>5. CASE Egress /\ UNCHANGED ceremony
    <3>1. Signer' = Signer
      BY <2>5 DEF ceremony, Signer
    <3>2. epochId' = epochId
      BY <1>1, <2>1, <2>2, <2>5, EgressIsStep DEF Stranded
    <3> QED
      BY <1>1, <3>1, <3>2 DEF Stranded
  <2>6. CASE UNCHANGED vars
    BY <1>1, <2>6 DEF vars, ceremony, egress, Stranded, Signer
  <2> QED
    BY <1>1, <2>4, <2>5, <2>6 DEF Next, Egress
<1>2. IInv /\ [Next]_vars => [Stays]_vars
  BY <1>1
<1> QED
  BY <1>2, Invariance, PTL DEF Spec, StrandedForGood
=============================================================================
