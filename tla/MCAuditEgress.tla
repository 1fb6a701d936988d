----------------------------- MODULE MCAuditEgress -----------------------------
(***************************************************************************)
(* Five records in batches of two, so that a batch can be complete, cut    *)
(* short by a flush or by a switch of the epoch, and lost; a writer that   *)
(* starts without an epoch or with one of two; every write may fail with   *)
(* or without part of the line on disk; one restart.                       *)
(***************************************************************************)
EXTENDS AuditEgress
=============================================================================
