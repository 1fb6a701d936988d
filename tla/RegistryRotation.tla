--------------------------- MODULE RegistryRotation ---------------------------
(***************************************************************************)
(* The production rotation of the registry's signing key:                  *)
(* advanceRegistryRotationState of                                         *)
(* galerina-framework-app-kernel/src/registry-rotation-controller.ts over  *)
(* the checkpoints of galerina-tower-citizen/src/registry-key-rotation.ts, *)
(* around the phase machine of KeyRotation.                                *)
(*                                                                         *)
(* A rotation is driven by a host that restores an authenticated           *)
(* checkpoint, advances it by at most one phase, and seals the outcome.    *)
(* The outcome of a call cannot be advanced again before it was sealed and *)
(* restored.  A restored state can be advanced for as long as somebody     *)
(* refers to it: restoredRotationStates never forgets one, and neither the *)
(* controller nor the seal compares it with the floors again.  How many    *)
(* the host goes on referring to is a parameter; a careful host (MaxKept   *)
(* is 0) lets go of a state once it has sealed what came of it.            *)
(*                                                                         *)
(* The host may crash at any point, which loses an outcome that is not     *)
(* sealed but not what custody has done; and it may come back with an      *)
(* older checkpoint, as far as the rollback floors admit one.  The floors  *)
(* are kept by the host; they are those of the checkpoint sealed last.     *)
(*                                                                         *)
(* A generation stands for all that is admitted together: the root's       *)
(* receipt for the key, the index it signed, the persisted file, the       *)
(* forward probe and the durability profile, which the controller compares *)
(* with one another.                                                       *)
(***************************************************************************)
EXTENDS Integers, Sequences, FiniteSets

CONSTANTS
    Candidates, WeakCommit, Ticks, Signers, Ctxs, VoteSets, Thresholds, Counts,
    ChainHeads, NoHead,  \* of KeyRotation
    Generations,         \* the generations that are admitted
    Bootstrap,           \* the one that is accepted at first
    PayloadLength(_),    \* the length of the JSON text of a state
    MaxPayload,          \* the longest a checkpoint may have
    MaxKept              \* the restored states a host keeps beside its own

VARIABLES
    ring, phase, transition, \* state.process
    accepted,                \* the accepted serial, index and generation
    floor,                   \* delegationSerialFloor and indexIssuedAtFloor
    held,                    \* the states in restoredRotationStates that
                             \* the host still refers to
    sealed,                  \* the checkpoints that were ever sealed
    newest,                  \* the one sealed last
    destroyed,               \* the keys whose private half is destroyed
    refused                  \* history: the keys whose canary was refused

process == <<ring, phase, transition>>
host == <<held, sealed, newest>>
vars == <<process, accepted, floor, host, destroyed, refused>>

K == INSTANCE KeyRotation

Generation == [key : Candidates, serial : Nat, issuedAt : Nat]

ASSUME GenerationsAssumption ==
    /\ Generations \subseteq Generation
    /\ Bootstrap \in Generations
    /\ \A g \in Generations : g.serial > 0 /\ g.issuedAt > 0
ASSUME CeremonyAssumption ==
    /\ Candidates \subseteq K!Candidate /\ Ticks \subseteq Nat
    /\ Ctxs \subseteq K!RotationCtx
    /\ \A votes \in VoteSets : votes \subseteq K!Vote(Signers) /\ IsFiniteSet(votes)
    /\ Counts \subseteq Int /\ Thresholds \subseteq Int
ASSUME BoundsAssumption == MaxKept \in Nat /\ MaxPayload \in Nat
ASSUME KeysAssumption == \A c \in Candidates : c.keyKind = "asymmetric"

State == [ring |-> ring, phase |-> phase, transition |-> transition,
          accepted |-> accepted, floor |-> floor]

Becomes(s) ==
    /\ ring' = s.ring /\ phase' = s.phase /\ transition' = s.transition
    /\ accepted' = s.accepted /\ floor' = s.floor

Accepting == {"verified", "drained", "retired"}

KeyOf(r, epoch) == r[epoch].keyId

-----------------------------------------------------------------------------
(* Checkpoints.                                                            *)

(* The process is in a shape its phase allows, and what is accepted lies   *)
(* above the floors.                                                       *)
StateWellFormed(s) ==
    /\ K!VerifyRing(s.ring)
    /\ s.accepted.serial > s.floor.serial
    /\ s.accepted.issuedAt > s.floor.issuedAt
    /\ LET staged == Cardinality(K!Having(s.ring, "staged"))
           locked == s.transition # K!NoTransition IN
       CASE s.phase \in {"idle", "ready"} -> staged = 0 /\ ~locked
         [] s.phase = "staged" -> staged = 1 /\ ~locked
         [] s.phase = "locked" -> staged = 1 /\ locked
         [] OTHER -> staged = 0 /\ locked

Fits(s) == PayloadLength(s) =< MaxPayload

(* What can be sealed, and restored from what was sealed.                  *)
Sealable(s) == StateWellFormed(s) /\ Fits(s)

(* Mutant: only the length of the ring is compared.                        *)
AtFloorsOfLength(s, floors) == Len(s.ring) >= Len(floors.ring)

(* Mutant: a checkpoint has to be above the floor of serials, not at it.   *)
AtFloorsOfBelow(s, floors) ==
    /\ Len(s.ring) >= Len(floors.ring)
    /\ s.floor.serial > floors.floor.serial

AtFloorsOf(s, floors) ==
    /\ Len(s.ring) >= Len(floors.ring)
    /\ s.floor.serial >= floors.floor.serial
    /\ s.floor.issuedAt >= floors.floor.issuedAt
    /\ s.accepted.serial >= floors.accepted.serial
    /\ s.accepted.issuedAt >= floors.accepted.issuedAt
    /\ s.accepted = floors.accepted

(* The checkpoints the floors admit.                                       *)
Admitted == {c \in sealed : AtFloorsOf(c, newest)}

Init ==
    /\ K!CanCreate(Bootstrap.key)
    /\ \E tick \in Ticks : ring = K!CreateKeyRing(Bootstrap.key, tick)
    /\ phase = "idle" /\ transition = K!NoTransition
    /\ accepted = Bootstrap /\ floor = [serial |-> 0, issuedAt |-> 0]
    /\ Fits(State)
    /\ held = {}
    /\ sealed = {State} /\ newest = State
    /\ destroyed = {} /\ refused = {}

(* The restored states the host goes on referring to.                      *)
Keeping == {kept \in SUBSET held : IsFiniteSet(kept) /\ Cardinality(kept) =< MaxKept}

(* Anything of the right shape and size can be sealed; the floors are the  *)
(* host's, and follow it.                                                  *)
Seal ==
    /\ Sealable(State)
    /\ newest' = State
    /\ sealed' = sealed \cup {State}
    /\ held' \in Keeping
    /\ UNCHANGED <<process, accepted, floor, destroyed, refused>>

(* The host restores a checkpoint, whether to go on or after a crash.      *)
Restore ==
    /\ \E c \in Admitted, kept \in Keeping :
           Sealable(c) /\ Becomes(c) /\ held' = kept \cup {c}
    /\ UNCHANGED <<sealed, newest, destroyed, refused>>

(* The host goes on with a state it restored before.                       *)
TakeUp ==
    /\ \E s \in held : Becomes(s)
    /\ UNCHANGED <<host, destroyed, refused>>

(* After a rotation is retired the host opens the next one over its ring.  *)
OpenNext ==
    /\ phase = "retired"
    /\ K!BeginRotation
    /\ UNCHANGED <<accepted, floor, host, destroyed, refused>>

-----------------------------------------------------------------------------
(* One call of advanceRegistryRotationState.                               *)

(* Mutant: an outcome that was not sealed may be advanced further.         *)
MayAdvanceUnsealed(g) ==
    /\ IF phase \in Accepting
       THEN g = accepted
       ELSE g.serial > accepted.serial /\ g.issuedAt > accepted.issuedAt

(* The candidate is newer than what is accepted, or is what was accepted   *)
(* in this rotation.                                                       *)
MayAdvance(g) ==
    /\ State \in held
    /\ IF phase \in Accepting
       THEN g = accepted
       ELSE g.serial > accepted.serial /\ g.issuedAt > accepted.issuedAt

(* What every step but the one that accepts leaves as it was.              *)
Kept == UNCHANGED <<accepted, floor, host>>

Ready(g) ==
    /\ MayAdvance(g)
    /\ \E ev \in K!ReadinessEvidence, ctx \in Ctxs : K!CheckReadiness(ev, ctx)
    /\ Kept /\ UNCHANGED <<destroyed, refused>>

(* The key that is staged is the one the root admitted; the name custody   *)
(* keeps it by is the caller's choice.                                     *)
Stage(g) ==
    /\ MayAdvance(g)
    /\ \E c \in Candidates, tick \in Ticks :
           /\ c.keyId = g.key.keyId /\ c.keyCommit = g.key.keyCommit
           /\ K!StageCandidate(c, tick)
    /\ Kept /\ UNCHANGED <<destroyed, refused>>

(* Custody signs the handover with the old key and the new one.  Which     *)
(* generation the call names is not compared with the ring.                *)
Lock(g) ==
    /\ MayAdvance(g)
    /\ phase = "staged"
    /\ \E to \in K!Having(ring, "staged"), head \in ChainHeads,
          votes \in VoteSets, m \in Thresholds, ctx \in Ctxs :
           LET from == K!ActiveEpoch(ring) IN
           /\ to = from + 1
           /\ {KeyOf(ring, from), KeyOf(ring, to)} \cap destroyed = {}
           /\ K!CommitTripleLock(
                  [fromEpoch |-> from, toEpoch |-> to, prevChainHead |-> head],
                  head, votes, m, ctx)
    /\ Kept /\ UNCHANGED <<destroyed, refused>>

Switch(g) ==
    /\ MayAdvance(g)
    /\ \E tick \in Ticks : K!SwitchEpoch(tick)
    /\ Kept /\ UNCHANGED <<destroyed, refused>>

(* Mutant: the floors are moved to the new generation, not the old one.    *)
VerifyAndRaise(g) ==
    /\ MayAdvance(g)
    /\ \E ev \in K!VerifyEvidence, ctx \in Ctxs : K!ConfirmTripleVerify(ev, ctx)
    /\ accepted' = g
    /\ floor' = [serial |-> g.serial, issuedAt |-> g.issuedAt]
    /\ UNCHANGED <<host, destroyed, refused>>

(* The canary is clean: the generation the call names is accepted.         *)
Verify(g) ==
    /\ MayAdvance(g)
    /\ \E ev \in K!VerifyEvidence, ctx \in Ctxs : K!ConfirmTripleVerify(ev, ctx)
    /\ accepted' = g
    /\ floor' = [serial |-> accepted.serial, issuedAt |-> accepted.issuedAt]
    /\ UNCHANGED <<host, destroyed, refused>>

(* The canary is refused, not merely incomplete: the old key signs again.  *)
FallBack(g) ==
    /\ MayAdvance(g)
    /\ \E ev \in K!VerifyEvidence, ctx \in Ctxs :
           K!TripleVerifyVerdict(ev, ctx) = K!DENY
    /\ \E tick \in Ticks : K!FallbackToOldEpoch(tick)
    /\ refused' = refused \cup {KeyOf(ring, K!ActiveEpoch(ring))}
    /\ Kept /\ UNCHANGED destroyed

Drain(g) ==
    /\ MayAdvance(g)
    /\ \E ev \in K!DrainEvidence, votes \in VoteSets, m \in Thresholds :
           K!ConfirmDrain(ev, votes, m)
    /\ Kept /\ UNCHANGED <<destroyed, refused>>

DestroyPrivate == [mode |-> "destroy-private", revocationRecorded |-> FALSE]

(* Custody destroys the old private key, and only then is it retired.      *)
Retire(g) ==
    /\ MayAdvance(g)
    /\ \E tick \in Ticks : K!RetireOldEpoch(DestroyPrivate, tick)
    /\ destroyed' = destroyed \cup {KeyOf(ring, K!OldEpoch)}
    /\ Kept /\ UNCHANGED refused

Advance(g) ==
    \/ Ready(g) \/ Stage(g) \/ Lock(g) \/ Switch(g) \/ Verify(g)
    \/ FallBack(g) \/ Drain(g) \/ Retire(g)

Next == Seal \/ Restore \/ TakeUp \/ OpenNext \/ \E g \in Generations : Advance(g)

Spec == Init /\ [][Next]_vars

-----------------------------------------------------------------------------
(* Properties.                                                             *)

(* The types, and that the checkpoint sealed last is one of those that can *)
(* be restored.                                                            *)
TypeOK ==
    /\ K!TypeOK
    /\ accepted \in Generations
    /\ floor \in [serial : Nat, issuedAt : Nat]
    /\ newest \in Admitted
    /\ destroyed \subseteq K!KeyIds /\ refused \subseteq K!KeyIds

(* Of an outcome the controller says that it "must be sealed and restored  *)
(* before another phase may advance".  Whatever the host keeps, only its   *)
(* length can stand against that: staging takes a custody reference of any *)
(* length and a ring never shrinks, so the keys may have moved and the     *)
(* rotation can neither go on nor be saved.                                *)
OnlySizeRefused == Fits(State) => Sealable(State)

(* The keys a state needs to sign: the active one, the staged one, and     *)
(* while the switch may still be undone the one before.                    *)
Needed(s) ==
    LET act == K!ActiveEpoch(s.ring) IN
    {KeyOf(s.ring, i) : i \in {act} \cup K!Having(s.ring, "staged")
                             \cup (IF s.phase = "switched" THEN {act - 1} ELSE {})}

(* A private key is destroyed before the checkpoint that says so is        *)
(* sealed.  Still no state a careful host is in, holds, or can come back   *)
(* to after a crash, ever needs it: a fallback never re-activates a key    *)
(* that is gone.                                                           *)
NeededKeysKept ==
    \A s \in Admitted \cup held \cup {State} : Needed(s) \cap destroyed = {}

(* With a careful host what is accepted moves forward only, in serial and  *)
(* in time, across crashes and restored checkpoints, although the seal     *)
(* compares nothing with what was sealed before.                           *)
AcceptedForward ==
    [][newest'.accepted # newest.accepted =>
           /\ newest'.accepted.serial > newest.accepted.serial
           /\ newest'.accepted.issuedAt > newest.accepted.issuedAt]_vars

(* "Production loading opens only the generation named by authenticated    *)
(* state ... and requires the active key epoch": after the canary the      *)
(* accepted generation is signed by the key that is active.  It need not   *)
(* be: a call after staging may name another generation.                   *)
AcceptedIsActive ==
    phase \in Accepting =>
        accepted.key.keyId = KeyOf(ring, K!ActiveEpoch(ring))

(* "It was never destroyed; reversal is free" (key-rotation.ts, of the     *)
(* previous epoch): the key a fallback re-activates is still there.  It    *)
(* need not be when the switched state is one the host kept while a later  *)
(* checkpoint was retired.                                                 *)
ReversalFree == K!FellBack => KeyOf(ring, K!ActiveEpoch(ring)) \notin destroyed

(* "A key that failed live verification never gets a second chance"        *)
(* (key-rotation.ts): no key passes the canary after it was refused.  It   *)
(* does when the host comes back to the switched checkpoint after a crash. *)
NoSecondChance ==
    phase \in Accepting => KeyOf(ring, K!ActiveEpoch(ring)) \notin refused
=============================================================================
