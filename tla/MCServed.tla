------------------------------ MODULE MCServed ------------------------------
(***************************************************************************)
(* Two systems in which what has been asked for is done, one of them in    *)
(* each behaviour: the calls of one client to one server, and the log of a *)
(* leader and a follower.  In a system that stands still no step is        *)
(* enabled that fairness asks for.                                         *)
(***************************************************************************)
EXTENDS RpcCalls

CONSTANTS Leader, Follower, Nobody, NoRpc

VARIABLES part, node, thread, rpc, late_, committing, call, lost, applied, answers

logVars == <<node, thread, rpc, late_, committing, call, lost, applied, answers>>

\* One request may be given up though the follower is up.
Log == INSTANCE RaftLog WITH
  Node <- {Leader, Follower}, Restless <- {}, MaxTerm <- 1, MaxCalls <- 2,
  MaxLost <- 1, MaxTasks <- 1, MaxExpire <- 0, MaxFile <- 2, late <- late_

ServedInit ==
  /\ part \in {"calls", "log"} /\ Log!Init
  /\ IF part = "calls" THEN CallsInit ELSE Connects("idle")

\* The nodes are alike: the one that is elected is called the leader.
ServedNext ==
  /\ UNCHANGED part
  /\ \/ part = "calls" /\ CallsNext /\ UNCHANGED logVars
     \/ part = "log" /\ Log!Next /\ node'[Follower].state # "leader"
        /\ UNCHANGED callsVars

ServedSpec == /\ ServedInit /\ [][ServedNext]_<<part, callsVars, logVars>>
              /\ CallsFairness /\ Log!Fairness

\* In the end every entry the leader has written is in every node's log.
ReachesAll == Log!ReachesAll

=============================================================================
