------------------------------ MODULE MCDelivery ------------------------------
(***************************************************************************)
(* The two systems that deliver what they are given in one order, one of   *)
(* them in each behaviour: the actor engine with two clients and two       *)
(* workers, and the log of three nodes whose leader nobody replaces.  The  *)
(* other one stands still in its initial state.                            *)
(***************************************************************************)
EXTENDS Actors, RaftLog, TLC

VARIABLE part

Symmetry == Permutations(Node)

DeliveryInit == part \in {"actors", "log"} /\ EngineInit /\ Init

DeliveryNext ==
  /\ UNCHANGED part
  /\ \/ part = "actors" /\ EngineNext /\ UNCHANGED vars
     \/ part = "log" /\ Next /\ UNCHANGED engineVars

DeliverySpec == DeliveryInit /\ [][DeliveryNext]_<<part, engineVars, vars>>

=============================================================================
