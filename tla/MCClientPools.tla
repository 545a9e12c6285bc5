---------------------------- MODULE MCClientPools ----------------------------
(* ClientPools, for TLC: connections are interchangeable.                  *)
EXTENDS ClientPools, TLC

Symmetry == Permutations(Sockets) \cup Permutations(Pools)
=============================================================================
