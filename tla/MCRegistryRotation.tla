-------------------------- MODULE MCRegistryRotation --------------------------
(***************************************************************************)
(* Three keys, so that one rotation can complete and a second one complete *)
(* or fall back, and a generation under each, so that a call may also name *)
(* the one of a later rotation; evidence that is complete, is incomplete,  *)
(* or refuses the canary.  The second key can be staged under a long       *)
(* custody reference, and a checkpoint has room for the references of      *)
(* three epochs unless one is long.                                        *)
(***************************************************************************)
EXTENDS RegistryRotation

CONSTANTS k1, k2, k3, w1, w2, h1, long

Key(k) == [keyId |-> k, keyKind |-> "asymmetric", keyCommit |-> k, fileRef |-> k]

Gen(k, n) == [key |-> Key(k), serial |-> n, issuedAt |-> n]

MCCandidates == {Key(k1), Key(k2), Key(k3), [Key(k2) EXCEPT !.fileRef = long]}
MCBootstrap == Gen(k1, 1)
MCGenerations == {Gen(k1, 1), Gen(k2, 2), Gen(k3, 3)}

MCMaxPayload == 3

MCPayloadLength(s) ==
    Len(s.ring)
        + MCMaxPayload * Cardinality({i \in DOMAIN s.ring : s.ring[i].fileRef = long})

Healthy == [candidateRoundTrip |-> "true", currentChain |-> "true",
            transitionMacOld |-> "true", transitionMacNew |-> "true",
            forwardProbe |-> "true", backwardSample |-> "true"]

MCCtxs == {Healthy, [Healthy EXCEPT !.backwardSample = "false"]}

MCVoteSets == {{[signer |-> w1, verdict |-> 1], [signer |-> w2, verdict |-> 1]}}
=============================================================================
