--------------------------- MODULE MCRaftReplDev ---------------------------
(* Instances of RaftReplDev for TLC. *)
EXTENDS RaftReplDev, TLC

Symm == Permutations(Peers)
=============================================================================
