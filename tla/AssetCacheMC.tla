---------------------------- MODULE AssetCacheMC ----------------------------
(* AssetCache for TLC: which addresses blobs get, and which thread is      *)
(* which, makes no difference.                                             *)
EXTENDS AssetCache, TLC

Symmetry ==
    Permutations(Maps) \cup Permutations(Heaps) \cup Permutations(Openers)
=============================================================================
