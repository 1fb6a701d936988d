------------------------------ MODULE EpochLedger ------------------------------
(***************************************************************************)
(* The audit ledger while its key is rotated: the phase machine of         *)
(* KeyRotation and the writer of AuditEgress, side by side.                *)
(*                                                                         *)
(* Neither calls the other.  A caller moves the ceremony forward with      *)
(* evidence it reads off the ledger and tells the writer to adopt the      *)
(* epoch that signs; records arrive and writes fail in between.  The       *)
(* caller here is an honest one: the locked transition names the chain     *)
(* head of that moment, the checks of the chain are what the epoch-aware   *)
(* verifier answers with the ring's verifiable epochs, the witnesses and   *)
(* the other checks agree.                                                 *)
(***************************************************************************)
EXTENDS Integers, Sequences, FiniteSets

CONSTANTS
    Candidates, WeakCommit, Ticks, Signers,
    BatchSize, RingCapacity, MaxRecords, MaxWriters, GENESIS,
    NoHead        \* evidence that is not there

VARIABLES
    keyRing, phase, transition,
    staged, seq, prevHash, epochId, ledger, tornTail, pushed, accepted, writers,
    opened,
    lockedAt      \* history: how long the ledger was at the last triple lock

ceremony == <<keyRing, phase, transition>>
egress == <<staged, seq, prevHash, epochId, ledger, tornTail, pushed, accepted,
            writers, opened>>
vars == <<ceremony, egress, lockedAt>>

K == INSTANCE KeyRotation WITH
    ring <- keyRing, Ctxs <- {}, VoteSets <- {}, Thresholds <- {2},
    Counts <- Nat, ChainHeads <- {}

W == INSTANCE AuditEgress WITH
    ring <- staged, Epochs <- Nat \ {0}

ASSUME CeremonyAssumption == Candidates \subseteq K!Candidate /\ Ticks \subseteq Nat
ASSUME WriterAssumption ==
    /\ BatchSize \in Nat \ {0} /\ RingCapacity \in Nat \ {0}
    /\ MaxRecords \in Nat /\ MaxWriters \in Nat

Signer == K!ActiveEpoch(keyRing)

(* keyForEpoch: the key of an epoch the ring still verifies under.         *)
LedgerVerifies ==
    W!VerifyChainEpochAware(ledger, K!VerifiableEpochs(keyRing))

BatchesOf(epoch) ==
    {i \in DOMAIN ledger : ledger[i] # W!TORN /\ ledger[i].epochId = epoch}

-----------------------------------------------------------------------------
(* The evidence of an honest caller.                                       *)

ChainCheck ==
    CASE ~W!Parses(ledger) -> "throws"
      [] W!Parses(ledger) /\ LedgerVerifies -> "true"
      [] OTHER -> "false"

Ctx == [candidateRoundTrip |-> "true", currentChain |-> ChainCheck,
        transitionMacOld |-> "true", transitionMacNew |-> "true",
        forwardProbe |-> ChainCheck, backwardSample |-> ChainCheck]

Witnesses == {[signer |-> s, verdict |-> 1] : s \in Signers}

Quiet == [auditRunsMidFlight |-> 0, queueDepth |-> Len(staged),
          maxQueueDepth |-> BatchSize]

Handover == [fromEpoch |-> Signer, toEpoch |-> Signer + 1,
             prevChainHead |-> prevHash]

(* The last batch that is not of the new epoch, and the first that is.     *)
Boundary(epoch) ==
    LET new == BatchesOf(epoch)
        first == CHOOSE i \in new : \A j \in new : i =< j IN
    [firstNewBatchPrevHash |->
         IF new = {} THEN NoHead ELSE ledger[first].prevHash,
     lastOldBatchHash |->
         IF new = {} THEN prevHash
         ELSE IF first = 1 THEN GENESIS ELSE W!HashOf(ledger[first - 1]),
     cleanBatches |-> Cardinality(new), canaryN |-> 1]

Drained == [oldEpochPendingSigning |-> Len(staged), oldEpochInFlight |-> 0]

ColdRetain == [mode |-> "cold-retain", revocationRecorded |-> FALSE]

-----------------------------------------------------------------------------

Init ==
    /\ epochId = 1
    /\ W!Init
    /\ K!Init
    /\ lockedAt = 0

Ceremony ==
    \/ K!BeginRotation
    \/ K!CheckReadiness(Quiet, Ctx)
    \/ \E c \in Candidates, tick \in Ticks : K!StageCandidate(c, tick)
    \/ K!CommitTripleLock(Handover, prevHash, Witnesses, 2, Ctx)
    \/ \E tick \in Ticks : K!SwitchEpoch(tick)
    \/ W!Parses(ledger) /\ K!ConfirmTripleVerify(Boundary(Signer), Ctx)
    \/ \E tick \in Ticks : K!FallbackToOldEpoch(tick)
    \/ K!ConfirmDrain(Drained, Witnesses, 2)
    \/ \E tick \in Ticks : K!RetireOldEpoch(ColdRetain, tick)

(* The writer's calls; the caller has it adopt the epoch that signs.       *)
Writing ==
    \E result \in W!WriteResult :
        \/ W!Push(result)
        \/ W!Flush(result)
        \/ W!AdoptEpoch(Signer, result)

Next ==
    \/ /\ Ceremony
       /\ lockedAt' = IF phase' = "locked" THEN Len(ledger) ELSE lockedAt
       /\ UNCHANGED egress
    \/ Writing /\ UNCHANGED <<ceremony, lockedAt>>
    \/ W!Reopen(Signer) /\ UNCHANGED <<ceremony, lockedAt>>

Spec == Init /\ [][Next]_vars

-----------------------------------------------------------------------------
(* Properties.                                                             *)

(* At every moment of every rotation, whatever writes fail and wherever    *)
(* the ceremony stands or is abandoned, the ledger of one writer verifies  *)
(* end to end under the keys the ring then gives, as long as no rotation   *)
(* fell back.                                                              *)
LedgerFollowsRing ==
    writers = 1 /\ W!Parses(ledger) /\ ~K!FellBack => LedgerVerifies

(* Once a switch is verified the writer seals under the epoch that signs,  *)
(* until the next switch; it never seals under an epoch that does not yet  *)
(* sign.                                                                   *)
WriterInStep ==
    /\ phase \in {"verified", "drained", "retired"} /\ writers = 1 =>
           epochId = Signer
    /\ ~K!FellBack => epochId =< Signer

(* The locked transition names the batch that was the last when the locks  *)
(* were committed, of an epoch before the new one, and goes on naming it.  *)
(* The code says more of it ("the old epoch's last batch hash - no gap, no *)
(* fork", key-rotation.ts): there is no fork, but whatever the writer      *)
(* seals before it adopts the new epoch lies in between.                   *)
HandoverOnChain ==
    /\ phase \in {"locked", "switched", "verified", "drained", "retired"}
    /\ writers = 1
    /\ W!Parses(ledger)
    => /\ transition.prevChainHead =
              IF lockedAt = 0 THEN GENESIS ELSE W!HashOf(ledger[lockedAt])
       /\ \A i \in 1 .. lockedAt : ledger[i].epochId < transition.toEpoch

(* A fallback strands a writer that had already switched: it goes on       *)
(* sealing under the revoked epoch and cannot be told to return.           *)
Stranded == epochId > Signer

StrandedForGood ==
    [][Stranded /\ writers' = writers => Stranded' /\ epochId' = epochId]_vars

(* Of any number of writers: a batch of the ledger is accepted exactly as  *)
(* long as its epoch is not after the one that signs.  The design promises *)
(* that every historical batch stays verifiable forever; a fallback breaks *)
(* that for the batches of the epoch it takes back, and nothing else does, *)
(* not a rotation that was abandoned nor a writer that was replaced.       *)
HistoryUpToSigner ==
    \A i \in DOMAIN ledger :
        ledger[i] # W!TORN =>
            (ledger[i].epochId \in K!VerifiableEpochs(keyRing)
                 <=> ledger[i].epochId =< Signer)
=============================================================================
