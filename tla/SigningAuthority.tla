---------------------------- MODULE SigningAuthority ---------------------------
(***************************************************************************)
(* What a key rotation promises to the rest of the system, with no ring,   *)
(* no phases and no evidence: which key signs, and which keys' signatures  *)
(* are still accepted.                                                     *)
(*                                                                         *)
(* Keys are numbered in the order they are minted.  There is always        *)
(* exactly one signer and it is always accepted; a signer hands over only  *)
(* to the key minted last, or, when the newest key turned out bad, back to *)
(* its immediate predecessor, and then the bad key is refused for good.    *)
(***************************************************************************)
EXTENDS Integers

VARIABLES
    minted,       \* keys 1 .. minted exist
    signer,       \* the key that signs
    verifiable    \* the keys whose signatures are accepted

Init ==
    /\ minted = 1
    /\ signer = 1
    /\ verifiable = {1}

Mint ==
    /\ minted' = minted + 1
    /\ verifiable' = verifiable \cup {minted + 1}
    /\ UNCHANGED signer

(* The newest key takes over; every older key keeps verifying.             *)
HandOver ==
    /\ minted = signer + 1
    /\ minted \in verifiable
    /\ signer' = minted
    /\ UNCHANGED <<minted, verifiable>>

(* The newest key is the signer and turns out bad.                         *)
HandBack ==
    /\ signer = minted
    /\ signer - 1 \in verifiable
    /\ signer' = signer - 1
    /\ verifiable' = verifiable \ {signer}
    /\ UNCHANGED minted

(* A key that no longer signs is revoked.                                  *)
Revoke(key) ==
    /\ key \in verifiable
    /\ key < signer
    /\ verifiable' = verifiable \ {key}
    /\ UNCHANGED <<minted, signer>>

Next ==
    \/ Mint
    \/ HandOver
    \/ HandBack
    \/ \E key \in verifiable : Revoke(key)

Spec == Init /\ [][Next]_<<minted, signer, verifiable>>
=============================================================================
