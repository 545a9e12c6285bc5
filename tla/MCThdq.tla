------------------------------- MODULE MCThdq -------------------------------
(* Instances of Thdq for TLC: the sets are given by the .cfg file.           *)
EXTENDS Thdq
=============================================================================
