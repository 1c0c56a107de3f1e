--------------------------- MODULE MCRaftElection ---------------------------
(* Small clusters of RaftElection: the nodes of Quiet never stand, the     *)
(* others stand until term Last.                                           *)
EXTENDS RaftElection, TLC

CONSTANTS Quiet, Last

Until == [n \in Node |-> IF n \in Quiet THEN 0 ELSE Last]

Symmetry == Permutations(Node \ Quiet) \cup Permutations(Quiet)

=============================================================================
