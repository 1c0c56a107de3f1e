----------------------------- MODULE MCRaftLog ------------------------------
(* Small clusters of RaftLog. *)
EXTENDS RaftLog, TLC

Symmetry == Permutations(Node)

=============================================================================
