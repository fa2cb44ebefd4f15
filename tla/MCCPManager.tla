---------------------------- MODULE MCCPManager ----------------------------
(* Instances of CPManager for TLC. *)
EXTENDS CPManager, TLC

ThreadSymmetry == Permutations(Threads)
=============================================================================
