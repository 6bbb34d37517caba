------------------------------- MODULE MCRaft -------------------------------
(* RaftCluster on small instances. *)
EXTENDS RaftCluster, TLC

Symmetry == Permutations(Server)
=============================================================================
