------------------------------- MODULE MCNode -------------------------------
(* Instances of Node for TLC: the constants are given by the .cfg files.     *)
EXTENDS Node, TLC

Symmetry == Permutations(Readers)
=============================================================================
