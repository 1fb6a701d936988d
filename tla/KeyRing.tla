-------------------------------- MODULE KeyRing --------------------------------
(***************************************************************************)
(* The append-only key ring of galerina-tower-citizen/src/key-rotation.ts: *)
(* the history of signing-key epochs and the pure functions that check,    *)
(* extend and relabel it.                                                  *)
(*                                                                         *)
(* A ring is a sequence of epoch records.  The ring's head MAC is left     *)
(* out: every ring here is the result of one of these functions, each of   *)
(* which recomputes it, so it always matches.  The three names an epoch's  *)
(* key goes by (keyId, keyCommit, fileRef) are opaque values; WeakCommit   *)
(* stands for every commitment that is not substantial hex.                *)
(***************************************************************************)
EXTENDS Integers, Sequences

CONSTANTS
    Candidates,   \* the key descriptions custody may offer for an epoch
    WeakCommit,   \* the malformed commitment
    Ticks         \* the instants a caller may pass in

KeyKind == {"symmetric", "asymmetric"}
KeyEpochStatus == {"staged", "active", "retired", "revoked"}

(* null in the code: the epoch has not been retired                        *)
NoTick == -1

KeyIds == {c.keyId : c \in Candidates}
KeyCommits == {c.keyCommit : c \in Candidates}
FileRefs == {c.fileRef : c \in Candidates}

Candidate == [keyId : KeyIds, keyKind : KeyKind,
              keyCommit : KeyCommits, fileRef : FileRefs]

ASSUME CandidatesAssumption == Candidates \subseteq Candidate
ASSUME TicksAssumption == Ticks \subseteq Nat

KeyEpoch == [epochId : Nat, keyId : KeyIds, keyKind : KeyKind,
             keyCommit : KeyCommits, fileRef : FileRefs,
             createdTick : Nat, retiredTick : Nat \cup {NoTick},
             status : KeyEpochStatus]

WellFormedCommit(commit) == commit # WeakCommit

(* Two keys that must not both be in a ring: they share an id, a           *)
(* commitment or a custody file.                                           *)
SameKey(d, e) ==
    \/ d.keyId = e.keyId
    \/ d.keyCommit = e.keyCommit
    \/ d.fileRef = e.fileRef

Having(ring, status) == {i \in DOMAIN ring : ring[i].status = status}

WellFormedEpoch(ring, i) ==
    LET e == ring[i] IN
    /\ e.epochId = i
    /\ WellFormedCommit(e.keyCommit)
    /\ IF e.status \in {"retired", "revoked"}
       THEN e.retiredTick # NoTick /\ e.retiredTick >= e.createdTick
       ELSE e.retiredTick = NoTick

(* The structural verification every operation starts with.                *)
VerifyRing(ring) ==
    /\ ring # << >>
    /\ \A i \in DOMAIN ring : WellFormedEpoch(ring, i)
    /\ \A i, j \in DOMAIN ring : i < j =>
           /\ ring[i].createdTick < ring[j].createdTick
           /\ ~SameKey(ring[i], ring[j])
    /\ \E i \in DOMAIN ring : Having(ring, "active") = {i}
    /\ \A i, j \in Having(ring, "staged") : i = j

(* The epoch that signs.                                                   *)
ActiveEpoch(ring) == CHOOSE i \in DOMAIN ring : ring[i].status = "active"

(* The epochs epochForVerification answers for.                            *)
VerifiableEpochs(ring) == {i \in DOMAIN ring : ring[i].status # "revoked"}

NewEpoch(id, c, tick, status) ==
    [epochId |-> id, keyId |-> c.keyId, keyKind |-> c.keyKind,
     keyCommit |-> c.keyCommit, fileRef |-> c.fileRef,
     createdTick |-> tick, retiredTick |-> NoTick, status |-> status]

CanCreate(c) == WellFormedCommit(c.keyCommit)

CreateKeyRing(c, tick) == <<NewEpoch(1, c, tick, "active")>>

(* Mutant: a second candidate may be staged.                               *)
CanStageAnother(ring, c, tick) ==
    /\ ring # << >>
    /\ WellFormedCommit(c.keyCommit)
    /\ tick > ring[Len(ring)].createdTick
    /\ \A i \in DOMAIN ring : ~SameKey(ring[i], c)

CanStage(ring, c, tick) ==
    /\ VerifyRing(ring)
    /\ Having(ring, "staged") = {}
    /\ WellFormedCommit(c.keyCommit)
    /\ tick > ring[Len(ring)].createdTick
    /\ \A i \in DOMAIN ring : ~SameKey(ring[i], c)

(* Mutant: the two ticks of the new epoch are swapped.                     *)
StageEpochSwapped(ring, c, tick) ==
    Append(ring, [NewEpoch(ring[Len(ring)].epochId + 1, c, tick, "staged")
                     EXCEPT !.createdTick = NoTick, !.retiredTick = tick])

(* Mutant: a candidate takes the place of one that was revoked.            *)
StageEpochReusing(ring, c, tick) ==
    IF ring[Len(ring)].status = "revoked"
    THEN [ring EXCEPT ![Len(ring)] = NewEpoch(Len(ring), c, tick, "staged")]
    ELSE Append(ring, NewEpoch(Len(ring) + 1, c, tick, "staged"))

StageEpoch(ring, c, tick) ==
    Append(ring, NewEpoch(ring[Len(ring)].epochId + 1, c, tick, "staged"))

CanSwitch(ring, atTick) ==
    /\ VerifyRing(ring)
    /\ Having(ring, "staged") # {}
    /\ \A i \in DOMAIN ring :
           ring[i].status \in {"staged", "active"} => atTick >= ring[i].createdTick

(* Mutant: the old key is revoked, not retired.                            *)
SwitchActiveRevoking(ring, atTick) ==
    [i \in DOMAIN ring |->
        CASE ring[i].status = "active" ->
                 [ring[i] EXCEPT !.status = "revoked", !.retiredTick = atTick]
          [] ring[i].status = "staged" -> [ring[i] EXCEPT !.status = "active"]
          [] OTHER -> ring[i]]

SwitchActive(ring, atTick) ==
    [i \in DOMAIN ring |->
        CASE ring[i].status = "active" ->
                 [ring[i] EXCEPT !.status = "retired", !.retiredTick = atTick]
          [] ring[i].status = "staged" -> [ring[i] EXCEPT !.status = "active"]
          [] OTHER -> ring[i]]

(* Mutant: the fallback must come strictly after the switch.               *)
CanFallbackLater(ring, atTick) ==
    /\ VerifyRing(ring)
    /\ LET act == ActiveEpoch(ring) IN
       /\ act - 1 \in Having(ring, "retired")
       /\ atTick >= ring[act].createdTick
       /\ atTick > ring[act - 1].retiredTick

CanFallback(ring, atTick) ==
    /\ VerifyRing(ring)
    /\ LET act == ActiveEpoch(ring) IN
       /\ act - 1 \in Having(ring, "retired")
       /\ atTick >= ring[act].createdTick
       /\ atTick >= ring[act - 1].retiredTick

(* Mutant: the re-activated epoch keeps its retirement tick.               *)
FallbackSwitchDated(ring, atTick) ==
    LET act == ActiveEpoch(ring) IN
    [ring EXCEPT
        ![act] = [@ EXCEPT !.status = "revoked", !.retiredTick = atTick],
        ![act - 1] = [@ EXCEPT !.status = "active"]]

(* Mutant: the failed candidate is retired, so it still verifies.          *)
FallbackSwitchRetiring(ring, atTick) ==
    LET act == ActiveEpoch(ring) IN
    [ring EXCEPT
        ![act] = [@ EXCEPT !.status = "retired", !.retiredTick = atTick],
        ![act - 1] = [@ EXCEPT !.status = "active", !.retiredTick = NoTick]]

FallbackSwitch(ring, atTick) ==
    LET act == ActiveEpoch(ring) IN
    [ring EXCEPT
        ![act] = [@ EXCEPT !.status = "revoked", !.retiredTick = atTick],
        ![act - 1] = [@ EXCEPT !.status = "active", !.retiredTick = NoTick]]

CanMarkRevoked(ring, epochId, atTick) ==
    /\ VerifyRing(ring)
    /\ epochId \in Having(ring, "retired")
    /\ atTick >= ring[epochId].createdTick
    /\ atTick >= ring[epochId].retiredTick

MarkRevoked(ring, epochId) == [ring EXCEPT ![epochId].status = "revoked"]
=============================================================================
