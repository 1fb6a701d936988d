--------------------------- MODULE MCSecretsRotation ---------------------------
(***************************************************************************)
(* Four calls of any kind over two secrets: a load, two rotations that     *)
(* overlap it and each other, and one more of any kind.                    *)
(***************************************************************************)
EXTENDS SecretsRotation
=============================================================================
