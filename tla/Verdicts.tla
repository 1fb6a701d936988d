------------------------------- MODULE Verdicts -------------------------------
(***************************************************************************)
(* The three-valued governance verdict of galerina-tower-citizen: a        *)
(* balanced trit DENY < INDETERMINATE < ALLOW, composed by Kleene          *)
(* conjunction (the minimum) and collapsed to a decision only at the trust *)
(* boundary, where ALLOW alone authorizes.  Also the two sources of        *)
(* verdicts the key rotation uses: a custody check passed in as a function *)
(* (a seam) and a quorum of signer votes.                                  *)
(***************************************************************************)
EXTENDS Integers, FiniteSets

DENY == -1
INDETERMINATE == 0
ALLOW == 1

Verdict == {DENY, INDETERMINATE, ALLOW}

(* The conjunction of the verdicts in the set vs.  With no clause there is *)
(* no positive evidence, so the empty conjunction abstains.                *)
AllOf(vs) ==
    IF vs = {} THEN INDETERMINATE
               ELSE CHOOSE v \in vs : \A w \in vs : v =< w

(* A condition that is either a plain allow or a plain refusal.            *)
Clause(condition) == IF condition THEN ALLOW ELSE DENY

(* A condition whose failure only means "not yet".                         *)
Wait(condition) == IF condition THEN ALLOW ELSE INDETERMINATE

(* What a custody check can do: it is not wired in, or it throws, or it    *)
(* answers.  Not running and crashing both abstain.                        *)
Seam == {"absent", "throws", "true", "false"}

SeamVerdict(s) ==
    CASE s = "true"  -> ALLOW
      [] s = "false" -> DENY
      [] OTHER       -> INDETERMINATE

(* Any value in a vote that is not a verdict.                              *)
Malformed == 2

(* A vote list as the set of its votes: the tally reads nothing else.      *)
Vote(Signers) == [signer : Signers, verdict : Verdict \cup {Malformed}]

Equivocates(votes) ==
    \E v, w \in votes : v.signer = w.signer /\ v.verdict # w.verdict

Approvals(votes) == {v \in votes : v.verdict = ALLOW}

(* M distinct approving signers.  A malformed vote, a signer that answers  *)
(* twice differently, or a meaningless threshold abstains.                 *)
QuorumVerdict(votes, m) ==
    IF \/ m < 1
       \/ \E v \in votes : v.verdict = Malformed
       \/ Equivocates(votes)
    THEN INDETERMINATE
    ELSE Clause(Cardinality({v.signer : v \in Approvals(votes)}) >= m)

(* Only ALLOW crosses the trust boundary.                                  *)
Authorizes(v) == v = ALLOW
=============================================================================
