-------------------------- MODULE GenerationStoreMC --------------------------
(***************************************************************************)
(* The processes of GenerationStore are alike.                             *)
(***************************************************************************)
EXTENDS GenerationStore, TLC

Symmetry == Permutations(Procs)
==============================================================================
