----------------------------- MODULE MCEpochLedger -----------------------------
(***************************************************************************)
(* Three symmetric keys, so that one rotation can complete and another be  *)
(* attempted; four records in batches of two, enough to seal under two     *)
(* epochs and to stage records across a switch; every write may fail; at   *)
(* most one restart of the writer.                                         *)
(***************************************************************************)
EXTENDS EpochLedger, TLC

CONSTANTS k1, k2, k3, w1, w2

Key(k) == [keyId |-> k, keyKind |-> "symmetric", keyCommit |-> k, fileRef |-> k]

MCCandidates == {Key(k1), Key(k2), Key(k3)}

(* The keys are alike.                                                     *)
MCSymmetry == Permutations({k1, k2, k3})
=============================================================================
