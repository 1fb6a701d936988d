------------------------------ MODULE KeyRotation ------------------------------
(***************************************************************************)
(* The phase machine of galerina-tower-citizen/src/key-rotation.ts.  A     *)
(* rotation process carries a key ring through                             *)
(*                                                                         *)
(*   idle -> ready -> staged -> locked -> switched -> verified -> drained  *)
(*        -> retired                                                       *)
(*                                                                         *)
(* one gate at a time; the one way back is from switched to idle.  Each    *)
(* gate is a function of the process and of evidence the caller brings:    *)
(* what the custody layer's checks answer, the votes of the witnesses,     *)
(* counters, chain heads.  The evidence is chosen freely at every call.    *)
(* A gate that does not allow, a call in the wrong phase and a ring        *)
(* function that throws all leave the process as it was, so they are       *)
(* steps of the specification only as stuttering.                          *)
(***************************************************************************)
EXTENDS KeyRing, Verdicts

CONSTANTS
    Signers,      \* the witnesses
    Ctxs,         \* the answers of the custody checks that can occur
    VoteSets,     \* the vote lists that can occur
    Thresholds,   \* the quorum thresholds callers pass
    Counts,       \* the values of counters in evidence; -1 is malformed
    ChainHeads,   \* hashes of ledger batches
    NoHead        \* the empty hash

VARIABLES
    ring,         \* process.ring
    phase,        \* process.phase
    transition    \* process.transition

vars == <<ring, phase, transition>>

Phase == {"idle", "ready", "staged", "locked", "switched", "verified",
          "drained", "retired"}

RotationCtx ==
    [candidateRoundTrip : Seam, currentChain : Seam,
     transitionMacOld : Seam, transitionMacNew : Seam,
     forwardProbe : Seam, backwardSample : Seam]

ASSUME CtxsAssumption == Ctxs \subseteq RotationCtx
ASSUME VoteSetsAssumption ==
    \A votes \in VoteSets : votes \subseteq Vote(Signers) /\ IsFiniteSet(votes)
ASSUME CountsAssumption == Counts \subseteq Int /\ Thresholds \subseteq Int

Transition ==
    [fromEpoch : Nat, toEpoch : Nat, prevChainHead : ChainHeads \cup {NoHead}]

(* null in the code: no transition has been locked                         *)
NoTransition == [fromEpoch |-> 0, toEpoch |-> 0, prevChainHead |-> NoHead]

ReadinessEvidence ==
    [auditRunsMidFlight : Counts, queueDepth : Counts, maxQueueDepth : Counts]
VerifyEvidence ==
    [firstNewBatchPrevHash : ChainHeads \cup {NoHead},
     lastOldBatchHash : ChainHeads \cup {NoHead},
     cleanBatches : Counts, canaryN : Counts]
DrainEvidence == [oldEpochPendingSigning : Counts, oldEpochInFlight : Counts]
RetirePolicy ==
    [mode : {"cold-retain", "destroy-private", "revoke-then-archive"},
     revocationRecorded : BOOLEAN]

-----------------------------------------------------------------------------
(* The gates.                                                              *)

ReadinessVerdict(ev, ctx) ==
    IF ev.auditRunsMidFlight < 0 \/ ev.queueDepth < 0 \/ ev.maxQueueDepth < 0
    THEN INDETERMINATE
    ELSE AllOf({Wait(ev.auditRunsMidFlight = 0),
                SeamVerdict(ctx.currentChain),
                Wait(ev.queueDepth =< ev.maxQueueDepth)})

(* Mutant: the candidate follows the newest epoch, not the active one.     *)
LockAVerdictByLength(cand, ctx) ==
    IF ~VerifyRing(ring) \/ cand \notin Having(ring, "staged") THEN DENY
    ELSE AllOf({Clause(WellFormedCommit(ring[cand].keyCommit)),
                Clause(\A i \in DOMAIN ring \ {cand} : ~SameKey(ring[i], ring[cand])),
                SeamVerdict(ctx.candidateRoundTrip),
                Clause(cand = Len(ring))})

(* The staged candidate is distinct from every other epoch, works, and is  *)
(* the successor of the active epoch.                                      *)
LockAVerdict(cand, ctx) ==
    IF ~VerifyRing(ring) \/ cand \notin Having(ring, "staged") THEN DENY
    ELSE AllOf({Clause(WellFormedCommit(ring[cand].keyCommit)),
                Clause(\A i \in DOMAIN ring \ {cand} : ~SameKey(ring[i], ring[cand])),
                SeamVerdict(ctx.candidateRoundTrip),
                Clause(cand = ActiveEpoch(ring) + 1)})

(* Mutant: the epochs the handover names are not compared with the ring.   *)
LockBVerdictAnyEpochs(trans, observedChainHead, ctx) ==
    IF ~VerifyRing(ring) THEN DENY
    ELSE AllOf({SeamVerdict(ctx.currentChain),
                Clause(/\ trans.prevChainHead # NoHead
                       /\ trans.prevChainHead = observedChainHead),
                SeamVerdict(ctx.transitionMacOld),
                SeamVerdict(ctx.transitionMacNew)})

(* The handover chains onto the observed ledger head and is signed by the  *)
(* old and the new key.                                                    *)
LockBVerdict(trans, observedChainHead, ctx) ==
    IF ~VerifyRing(ring) THEN DENY
    ELSE AllOf({SeamVerdict(ctx.currentChain),
                Clause(/\ trans.prevChainHead # NoHead
                       /\ trans.prevChainHead = observedChainHead),
                SeamVerdict(ctx.transitionMacOld),
                SeamVerdict(ctx.transitionMacNew),
                Clause(/\ trans.fromEpoch = ActiveEpoch(ring)
                       /\ trans.toEpoch = ActiveEpoch(ring) + 1)})

LockCVerdict(votes, m) ==
    IF m < 2 THEN INDETERMINATE ELSE QuorumVerdict(votes, m)

TripleLockVerdict(trans, observedChainHead, votes, m, ctx) ==
    AllOf({IF Having(ring, "staged") = {} THEN DENY
           ELSE LockAVerdict(CHOOSE i \in Having(ring, "staged") : TRUE, ctx),
           LockBVerdict(trans, observedChainHead, ctx),
           LockCVerdict(votes, m)})

(* Mutant: only the probes are looked at.                                  *)
TripleVerifyProbesOnly(ev, ctx) ==
    AllOf({SeamVerdict(ctx.forwardProbe), SeamVerdict(ctx.backwardSample)})

TripleVerifyVerdict(ev, ctx) ==
    IF ev.canaryN < 1 \/ ev.cleanBatches < 0 THEN INDETERMINATE
    ELSE AllOf({SeamVerdict(ctx.forwardProbe),
                SeamVerdict(ctx.backwardSample),
                Clause(/\ ev.firstNewBatchPrevHash # NoHead
                       /\ ev.firstNewBatchPrevHash = ev.lastOldBatchHash),
                Wait(ev.cleanBatches >= ev.canaryN)})

DrainVerdict(ev, votes, m) ==
    IF ev.oldEpochPendingSigning < 0 \/ ev.oldEpochInFlight < 0 THEN DENY
    ELSE AllOf({Wait(ev.oldEpochPendingSigning = 0),
                Wait(ev.oldEpochInFlight = 0),
                LockCVerdict(votes, m)})

(* Mutant: the kind of the key is not looked at.                           *)
PolicyAllowedAnyKind(kind, policy) ==
    policy.mode = "revoke-then-archive" => policy.revocationRecorded

(* What may become of a retired key: a symmetric one is only ever kept,    *)
(* since the key that signs is the key that verifies.                      *)
PolicyAllowed(kind, policy) ==
    /\ kind = "symmetric" => policy.mode = "cold-retain"
    /\ policy.mode = "revoke-then-archive" => policy.revocationRecorded

RetireVerdict(epochId, policy) ==
    IF ~VerifyRing(ring) \/ epochId \notin DOMAIN ring THEN DENY
    ELSE AllOf({Clause(ring[epochId].status = "retired"),
                Clause(PolicyAllowed(ring[epochId].keyKind, policy))})

-----------------------------------------------------------------------------
(* The phases.                                                             *)

Init ==
    /\ \E c \in Candidates, tick \in Ticks :
           CanCreate(c) /\ ring = CreateKeyRing(c, tick)
    /\ phase = "idle"
    /\ transition = NoTransition

(* A caller may open a new process over the ring it holds at any time.     *)
BeginRotation ==
    /\ phase' = "idle"
    /\ transition' = NoTransition
    /\ UNCHANGED ring

CheckReadiness(ev, ctx) ==
    /\ phase = "idle"
    /\ Authorizes(ReadinessVerdict(ev, ctx))
    /\ phase' = "ready"
    /\ UNCHANGED <<ring, transition>>

StageCandidate(c, tick) ==
    /\ phase = "ready"
    /\ CanStage(ring, c, tick)
    /\ ring' = StageEpoch(ring, c, tick)
    /\ phase' = "staged"
    /\ UNCHANGED transition

CommitTripleLock(trans, observedChainHead, votes, m, ctx) ==
    /\ phase = "staged"
    /\ Authorizes(TripleLockVerdict(trans, observedChainHead, votes, m, ctx))
    /\ transition' = trans
    /\ phase' = "locked"
    /\ UNCHANGED ring

SwitchEpoch(atTick) ==
    /\ phase = "locked"
    /\ CanSwitch(ring, atTick)
    /\ ring' = SwitchActive(ring, atTick)
    /\ phase' = "switched"
    /\ UNCHANGED transition

ConfirmTripleVerify(ev, ctx) ==
    /\ phase = "switched"
    /\ Authorizes(TripleVerifyVerdict(ev, ctx))
    /\ phase' = "verified"
    /\ UNCHANGED <<ring, transition>>

(* The one sanctioned reversal.                                            *)
FallbackToOldEpoch(atTick) ==
    /\ phase = "switched"
    /\ CanFallback(ring, atTick)
    /\ ring' = FallbackSwitch(ring, atTick)
    /\ phase' = "idle"
    /\ transition' = NoTransition

ConfirmDrain(ev, votes, m) ==
    /\ phase = "verified"
    /\ Authorizes(DrainVerdict(ev, votes, m))
    /\ phase' = "drained"
    /\ UNCHANGED <<ring, transition>>

OldEpoch == ActiveEpoch(ring) - 1

RetireOldEpoch(policy, atTick) ==
    /\ phase = "drained"
    /\ Authorizes(RetireVerdict(OldEpoch, policy))
    /\ IF policy.mode = "revoke-then-archive"
       THEN /\ CanMarkRevoked(ring, OldEpoch, atTick)
            /\ ring' = MarkRevoked(ring, OldEpoch)
       ELSE UNCHANGED ring
    /\ phase' = "retired"
    /\ UNCHANGED transition

Next ==
    \/ BeginRotation
    \/ \E ev \in ReadinessEvidence, ctx \in Ctxs : CheckReadiness(ev, ctx)
    \/ \E c \in Candidates, tick \in Ticks : StageCandidate(c, tick)
    \/ \E trans \in [fromEpoch : 1 .. Len(ring), toEpoch : 1 .. Len(ring) + 1,
                     prevChainHead : ChainHeads \cup {NoHead}],
          observed \in ChainHeads, votes \in VoteSets, m \in Thresholds,
          ctx \in Ctxs :
           CommitTripleLock(trans, observed, votes, m, ctx)
    \/ \E tick \in Ticks : SwitchEpoch(tick)
    \/ \E ev \in VerifyEvidence, ctx \in Ctxs : ConfirmTripleVerify(ev, ctx)
    \/ \E tick \in Ticks : FallbackToOldEpoch(tick)
    \/ \E ev \in DrainEvidence, votes \in VoteSets, m \in Thresholds :
           ConfirmDrain(ev, votes, m)
    \/ \E policy \in RetirePolicy, tick \in Ticks : RetireOldEpoch(policy, tick)

Spec == Init /\ [][Next]_vars

-----------------------------------------------------------------------------
(* Properties.                                                             *)

TypeOK ==
    /\ ring \in Seq(KeyEpoch)
    /\ phase \in Phase
    /\ transition \in Transition

(* Every ring the machine produces passes the verification that every      *)
(* operation starts with (verifyRing).  A single write that broke it would *)
(* be permanent: all later operations would refuse the ring.               *)
RingVerifies == VerifyRing(ring)

(* The phase, the statuses in the ring and the locked transition tell one  *)
(* story, although they are changed by different operations and a new      *)
(* process may be opened over the ring at any point: a candidate waits     *)
(* exactly where the phase says so, a switched process signs with the      *)
(* newest epoch named by its transition, and until the retire decision its *)
(* predecessor is retired and nothing worse.                               *)
PhaseMatchesRing ==
    LET act == ActiveEpoch(ring) IN
    /\ phase \in {"staged", "locked"} => Having(ring, "staged") = {Len(ring)}
    /\ phase = "locked" =>
           /\ Len(ring) = act + 1
           /\ transition.fromEpoch = act /\ transition.toEpoch = act + 1
    /\ phase \in {"switched", "verified", "drained", "retired"} =>
           /\ act = Len(ring)
           /\ transition.fromEpoch = act - 1 /\ transition.toEpoch = act
    /\ phase \in {"switched", "verified", "drained"} =>
           act - 1 \in Having(ring, "retired")

(* Around the signer the ring is ordered: before it every epoch has lost   *)
(* its signing power, after it there is at most the staged candidate, last *)
(* in the ring, and candidates that failed.                                *)
EpochsInOrder ==
    LET act == ActiveEpoch(ring) IN
    \A i \in DOMAIN ring :
        /\ i < act => ring[i].status \in {"retired", "revoked"}
        /\ i > act => \/ ring[i].status = "revoked"
                      \/ ring[i].status = "staged" /\ i = Len(ring)

(* No phase after the switch is a dead end: from switched the old epoch    *)
(* can be re-activated at any tick not before the switch, and from drained *)
(* a cold-retain retirement is allowed.                                    *)
AlwaysAWayOut ==
    /\ phase = "switched" =>
           \A tick \in Ticks :
               tick >= ring[OldEpoch].retiredTick => CanFallback(ring, tick)
    /\ phase = "drained" =>
           Authorizes(RetireVerdict(OldEpoch, [mode |-> "cold-retain",
                                               revocationRecorded |-> FALSE]))

SameKeyMaterial(d, e) ==
    /\ d.epochId = e.epochId
    /\ d.keyId = e.keyId
    /\ d.keyKind = e.keyKind
    /\ d.keyCommit = e.keyCommit
    /\ d.fileRef = e.fileRef
    /\ d.createdTick = e.createdTick

ForwardStatus ==
    {<<"staged", "active">>, <<"active", "retired">>, <<"retired", "revoked">>}

(* Rotation appends and never replaces: an epoch is never removed and its  *)
(* key never changes, and its status moves forward only, but for the one   *)
(* sanctioned reversal, in which an epoch signs again in the very step     *)
(* that revokes its failed successor.                                      *)
ForwardOnly ==
    [][/\ Len(ring') >= Len(ring)
       /\ \A i \in DOMAIN ring :
              /\ SameKeyMaterial(ring'[i], ring[i])
              /\ \/ ring'[i].status = ring[i].status
                 \/ <<ring[i].status, ring'[i].status>> \in ForwardStatus
                 \/ /\ i + 1 \in DOMAIN ring
                    /\ ring[i].status = "retired" /\ ring'[i].status = "active"
                    /\ ring[i + 1].status = "active"
                    /\ ring'[i + 1].status = "revoked"
                 \/ /\ i - 1 \in DOMAIN ring
                    /\ ring[i].status = "active" /\ ring'[i].status = "revoked"
                    /\ ring'[i - 1].status = "active"]_vars

(* The ledger sealed under a retired symmetric key is never orphaned: such *)
(* a key may sign again after a fallback, but while it is retired no step  *)
(* takes its verification away.                                            *)
SymmetricKeyKept ==
    [][\A i \in DOMAIN ring :
           ring[i].keyKind = "symmetric" /\ ring[i].status = "retired"
               => ring'[i].status # "revoked"]_vars

(* A candidate failed live verification and was revoked.                   *)
FellBack ==
    \E i \in DOMAIN ring : i > ActiveEpoch(ring) /\ ring[i].status = "revoked"

(* After a fallback the signer never changes again, however many further   *)
(* candidates are minted: the next one is numbered after the revoked one,  *)
(* while the locks demand the number after the active one.  The code says  *)
(* otherwise of fallbackToOldEpoch: "Returns the process to idle for a     *)
(* fresh mint" (key-rotation.ts), a mint that can only ever be staged.     *)
FallbackIsFinal ==
    [][FellBack => FellBack' /\ ActiveEpoch(ring)' = ActiveEpoch(ring)]_vars

(* The machine as the rest of the system sees it.                          *)
Authority == INSTANCE SigningAuthority WITH
    minted <- Len(ring),
    signer <- ActiveEpoch(ring),
    verifiable <- VerifiableEpochs(ring)

(* Every step of the phase machine is a step of a signing authority or     *)
(* changes neither the signer nor what is accepted.                        *)
ImplementsAuthority == Authority!Spec
=============================================================================
