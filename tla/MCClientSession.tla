--------------------------- MODULE MCClientSession ---------------------------
(* Instances of ClientSession for TLC: the constants are in the .cfg file.   *)
EXTENDS ClientSession, TLC

Symmetry == Permutations(Places)
=============================================================================
