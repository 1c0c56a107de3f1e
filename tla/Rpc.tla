-------------------------------- MODULE Rpc --------------------------------
(***************************************************************************)
(* What a caller may rely on: a call runs at most once on the server, in   *)
(* the order of the calls; a result is that of the call itself; a call     *)
(* that is refused never runs.  After an error or a time-out it may have   *)
(* run, or may still do.                                                   *)
(***************************************************************************)
EXTENDS Naturals

CONSTANT Call          \* calls, numbered in their order

VARIABLES outcome,     \* what the caller knows of each call
          runs         \* how often each has run on the server

rpcVars == <<outcome, runs>>

RpcInit == /\ outcome = [n \in Call |-> "new"]
           /\ runs = [n \in Call |-> 0]

Make(n) == /\ outcome[n] = "new"
           /\ outcome' = [outcome EXCEPT ![n] = "called"]
           /\ UNCHANGED runs

Refuse(n) == /\ outcome[n] = "new"
             /\ outcome' = [outcome EXCEPT ![n] = "refused"]
             /\ UNCHANGED runs

Run(n) == /\ outcome[n] \notin {"new", "refused"}
          /\ \A m \in Call : m >= n => runs[m] = 0
          /\ runs' = [runs EXCEPT ![n] = 1]
          /\ UNCHANGED outcome

Result(n) == /\ outcome[n] = "called" /\ runs[n] = 1
             /\ outcome' = [outcome EXCEPT ![n] = "result"]
             /\ UNCHANGED runs

GiveUp(n) == /\ outcome[n] = "called"
             /\ \E e \in {"error", "timeout"} : outcome' = [outcome EXCEPT ![n] = e]
             /\ UNCHANGED runs

RpcNext == \E n \in Call : Make(n) \/ Refuse(n) \/ Run(n) \/ Result(n) \/ GiveUp(n)

RpcSpec == RpcInit /\ [][RpcNext]_rpcVars

=============================================================================
