---------------------------- MODULE MCPpHashpool ----------------------------
(* Instances of PpHashpool for TLC: the sets are given by the .cfg files.    *)
EXTENDS PpHashpool, TLC

Symmetry == Permutations(Callers) \cup Permutations(HashThreads) \cup Permutations(Datasets)
=============================================================================
