--------------------------- MODULE MCGenerationStore ---------------------------
(***************************************************************************)
(* Three calls: one that fails after it has published, one that finds its  *)
(* file, and one that publishes anew.                                      *)
(***************************************************************************)
EXTENDS GenerationStore
=============================================================================
