----------------------------- MODULE MCKeyRotation -----------------------------
(***************************************************************************)
(* A small instance of KeyRotation: a symmetric and two asymmetric keys,   *)
(* one candidate that reuses a custody file, one with a weak commitment;   *)
(* custody checks that all answer, one of them refusing or not wired at a  *)
(* time; two witnesses; four ticks.                                        *)
(***************************************************************************)
EXTENDS KeyRotation, TLC

CONSTANTS k1, k2, k3, k4, w1, w2, h1, h2

Key(id, kind, commit, file) ==
    [keyId |-> id, keyKind |-> kind, keyCommit |-> commit, fileRef |-> file]

MCCandidates ==
    {Key(k1, "symmetric", k1, k1), Key(k2, "asymmetric", k2, k2),
     Key(k3, "symmetric", k3, k3), Key(k4, "asymmetric", k4, k1),
     Key(k4, "asymmetric", WeakCommit, k4)}

Healthy == [candidateRoundTrip |-> "true", currentChain |-> "true",
            transitionMacOld |-> "true", transitionMacNew |-> "true",
            forwardProbe |-> "true", backwardSample |-> "true"]

MCCtxs ==
    {Healthy,
     [Healthy EXCEPT !.candidateRoundTrip = "false"],
     [Healthy EXCEPT !.currentChain = "absent"],
     [Healthy EXCEPT !.transitionMacNew = "throws"],
     [Healthy EXCEPT !.forwardProbe = "false"]}

Ballot(signer, verdict) == [signer |-> signer, verdict |-> verdict]

MCCounts == -1 .. 1

MCVoteSets ==
    {{Ballot(w1, ALLOW)},
     {Ballot(w1, ALLOW), Ballot(w2, ALLOW)},
     {Ballot(w1, ALLOW), Ballot(w2, ALLOW), Ballot(w2, DENY)}}
=============================================================================
