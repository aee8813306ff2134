-------------------------- MODULE MCDocumentIndexing --------------------------
(* DocumentIndexing on small instances. *)
EXTENDS DocumentIndexing, TLC

RunSymmetry == Permutations(Run)
=============================================================================
