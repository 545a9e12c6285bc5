---------------------------- MODULE MCRxHashpool ----------------------------
(* Instances of RxHashpool for TLC: the sets are given by the .cfg files.    *)
EXTENDS RxHashpool, TLC

Symmetry == Permutations(Callers) \cup Permutations(HashThreads) \cup Permutations(Datasets)
=============================================================================
