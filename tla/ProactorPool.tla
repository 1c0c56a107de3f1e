----------------------------- MODULE ProactorPool -----------------------------
(***************************************************************************)
(* proactor_pool: its threads start one after the other, each waiting for  *)
(* the message box of the one before, and accepted connections are handed  *)
(* to the threads in turn: the connection through a list, a handle that    *)
(* takes it from there through the box of the thread.                      *)
(*                                                                         *)
(* start_proactors waits on a condition variable without a condition: a    *)
(* notification before the wait is lost, and a wake-up without one lets    *)
(* the next thread start beside the one that is not ready yet.             *)
(***************************************************************************)
EXTENDS Naturals, Sequences, FiniteSets

CONSTANTS PoolSize,      \* size_
          MaxAccepts,    \* bound: connections accepted
          MaxSpurious    \* bound: wake-ups without a notification

ASSUME PoolAssumption ==
  PoolSize \in Nat \ {0} /\ MaxAccepts \in Nat /\ MaxSpurious \in Nat

VARIABLES starter,       \* the thread in start_proactors: [at, i]
          worker,        \* where each thread is
          index,         \* the index its box reads from, captured when registered
          msgboxs,       \* msgboxs_: whose box stands at each place
          notified_,     \* a notification the starter has not woken up from
          connections,   \* connections_
          mailbox,       \* handles posted to each place of msgboxs_
          mbox_index,    \* mbox_index_
          accept,        \* how far accept_callback is
          accepted,      \* history: connections accepted
          handed,        \* history: [conn, by] in the order they were handed out
          spurious,      \* history: wake-ups without a notification
          empty          \* history: back() of an empty list

poolVars == <<starter, worker, index, msgboxs, notified_, connections, mailbox,
              mbox_index, accept, accepted, handed, spurious, empty>>

Thread == 1 .. PoolSize
Conn == 1 .. MaxAccepts

PoolTypeOK ==
  /\ starter \in [at : {"spawn", "wait", "woken", "running", "stopped"}, i : 1 .. PoolSize + 1]
  /\ worker \in [Thread -> {"none", "new", "boxed", "run", "ready", "ended"}]
  /\ index \in [Thread -> 0 .. PoolSize + 1]
  /\ msgboxs \in Seq(Thread)
  /\ notified_ \in BOOLEAN /\ empty \in BOOLEAN
  /\ connections \in Seq(Conn)
  /\ mailbox \in [Thread -> Nat]
  /\ mbox_index \in Nat /\ accept \in 0 .. 1
  /\ accepted \in 0 .. MaxAccepts
  /\ handed \in Seq([conn : Conn, by : Thread])
  /\ spurious \in 0 .. MaxSpurious

PoolInit ==
  /\ starter = [at |-> "spawn", i |-> 1]
  /\ worker = [t \in Thread |-> "none"] /\ index = [t \in Thread |-> 0]
  /\ msgboxs = <<>> /\ notified_ = FALSE
  /\ connections = <<>> /\ mailbox = [t \in Thread |-> 0]
  /\ mbox_index = 0 /\ accept = 0 /\ accepted = 0
  /\ handed = <<>> /\ spurious = 0 /\ empty = FALSE

handing == <<connections, mailbox, mbox_index, accept, accepted, handed, empty>>

-----------------------------------------------------------------------------
(* start_proactors.                                                        *)

Spawn ==
  /\ starter.at = "spawn" /\ starter.i <= PoolSize
  /\ worker' = [worker EXCEPT ![starter.i] = "new"]
  /\ starter' = [starter EXCEPT !.at = "wait"]
  /\ UNCHANGED <<index, msgboxs, notified_, spurious, handing>>

\* Whether the starter goes on: it has been notified.
GoesOn == notified_

\* wait returns.  The notification may have come before: notified_ is set by
\* a worker only while the starter waits.
Woken ==
  /\ starter.at = "woken"
  /\ \/ GoesOn /\ UNCHANGED spurious
     \/ ~GoesOn /\ spurious < MaxSpurious /\ spurious' = spurious + 1
  /\ notified_' = FALSE
  /\ starter' = [at |-> IF starter.i = PoolSize THEN "running" ELSE "spawn",
                 i |-> starter.i + 1]
  /\ UNCHANGED <<worker, index, msgboxs, handing>>

\* The starter reaches its wait.
Waits == /\ starter.at = "wait" /\ starter' = [starter EXCEPT !.at = "woken"]
         /\ UNCHANGED <<worker, index, msgboxs, notified_, spurious, handing>>

-----------------------------------------------------------------------------
(* The thread function.                                                    *)

\* emplace_back of the box ...
AddBox(t) ==
  /\ worker[t] = "new"
  /\ msgboxs' = Append(msgboxs, t)
  /\ worker' = [worker EXCEPT ![t] = "boxed"]
  /\ UNCHANGED <<starter, index, notified_, spurious, handing>>

\* ... and regist_notify on back(), with the index of the loop by value,
\* taken from the starter's variable now.
Register(t) ==
  /\ worker[t] = "boxed"
  /\ index' = [index EXCEPT ![msgboxs[Len(msgboxs)]] = starter.i]
  /\ worker' = [worker EXCEPT ![t] = "run"]
  /\ UNCHANGED <<starter, msgboxs, notified_, spurious, handing>>

\* The box is connected to itself: regist_inited_callback's notify_one.
Inited(t) ==
  /\ worker[t] = "run"
  /\ worker' = [worker EXCEPT ![t] = "ready"]
  /\ notified_' = (starter.at = "woken")
  /\ UNCHANGED <<starter, index, msgboxs, spurious, handing>>

Ended(t) ==
  /\ starter.at = "stopped" /\ worker[t] = "ready"
  /\ worker' = [worker EXCEPT ![t] = "ended"]
  /\ UNCHANGED <<starter, index, msgboxs, notified_, spurious, handing>>

-----------------------------------------------------------------------------
(* Connections.                                                            *)

starting == <<starter, worker, index, msgboxs, notified_, spurious>>

\* Mutant: the handle is posted before the connection is in the list.
SendFirst == <<"post", "add">>

\* The two steps of accept_callback.
Order == <<"add", "post">>

\* accept_callback runs on the first thread, which accepts: add_connection,
\* then ++mbox_index_ % size and send.
AddConnection == /\ connections' = Append(connections, accepted')
                 /\ UNCHANGED <<mailbox, mbox_index>>

Post == /\ mbox_index' = mbox_index + 1
        /\ mailbox' = [mailbox EXCEPT ![(mbox_index' % Len(msgboxs)) + 1] = @ + 1]
        /\ UNCHANGED connections

Accept ==
  /\ IF accept = 0
     THEN /\ starter.at \in {"running", "stopped"} /\ msgboxs # <<>> /\ worker[msgboxs[1]] = "ready"
          /\ accepted < MaxAccepts /\ accepted' = accepted + 1
     ELSE UNCHANGED accepted
  /\ accept' = (accept + 1) % 2
  /\ IF Order[accept + 1] = "add" THEN AddConnection ELSE Post
  /\ UNCHANGED <<starting, handed, empty>>

\* The handle runs: get_connection, regist_connection, accept_callback_.  The
\* first thread is busy while it accepts.
Hand(t) ==
  /\ worker[t] = "ready" /\ index[t] \in Thread /\ mailbox[index[t]] > 0
  /\ t = msgboxs[1] => accept = 0
  /\ mailbox' = [mailbox EXCEPT ![index[t]] = @ - 1]
  /\ IF connections = <<>>
     THEN empty' = TRUE /\ UNCHANGED <<connections, handed>>
     ELSE /\ handed' = Append(handed, [conn |-> connections[Len(connections)], by |-> t])
          /\ connections' = SubSeq(connections, 1, Len(connections) - 1)
          /\ UNCHANGED empty
  /\ UNCHANGED <<starting, mbox_index, accept, accepted>>

StopPool == /\ starter.at = "running" /\ starter' = [starter EXCEPT !.at = "stopped"]
            /\ UNCHANGED <<worker, index, msgboxs, notified_, spurious, handing>>

PoolNext ==
  \/ Spawn \/ Waits \/ Woken \/ Accept \/ StopPool
  \/ \E t \in Thread : AddBox(t) \/ Register(t) \/ Inited(t) \/ Ended(t) \/ Hand(t)

PoolSpec == PoolInit /\ [][PoolNext]_poolVars

-----------------------------------------------------------------------------
(* Properties.                                                             *)

\* Unless the starter woke up without a notification, every thread reads the
\* box that stands at its own place, and only started threads have one.
BoxOfThread ==
  spurious = 0 => \A t \in Thread :
    worker[t] \in {"run", "ready", "ended"} =>
      index[t] = t /\ Len(msgboxs) >= t /\ msgboxs[t] = t

\* Every handle finds a connection, and each connection is handed out once:
\* to whichever thread comes, as the last in the list goes first.
HandedOnce ==
  /\ ~empty
  /\ \A i, j \in 1 .. Len(handed) : handed[i].conn = handed[j].conn => i = j
  /\ \A c \in 1 .. accepted : \/ \E i \in 1 .. Len(handed) : handed[i].conn = c
                              \/ \E i \in 1 .. Len(connections) : connections[i] = c

\* Boxes and connections go to the threads they are meant for.
PoolSafe == PoolTypeOK /\ BoxOfThread /\ HandedOnce

=============================================================================
