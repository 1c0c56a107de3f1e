------------------------------ MODULE RaftLog -------------------------------
(***************************************************************************)
(* Log replication in xraft: replicate() and its callbacks, the peer       *)
(* threads that send append entries requests, the handler that receives    *)
(* them, and the committer thread that gives entries to the application.   *)
(*                                                                         *)
(* What a handler does under mtx_ is one action.  Steps of their own are   *)
(* what runs outside it: each stage of do_relicate, the peer thread        *)
(* between its look at the log and the request it sends, every entry the   *)
(* committer applies, and the timer between due and run.                   *)
(*                                                                         *)
(* An election is one step here (RaftElection has the rest of it), and     *)
(* the log is one open file (filelog::current_file_): no segment is        *)
(* closed, so that there is no snapshot and no truncation either.          *)
(***************************************************************************)
EXTENDS Integers, Sequences, FiniteSets

CONSTANTS Node,          \* the nodes of the configuration
          NoRpc,         \* the peer thread waits for no response
          Nobody,        \* no node has been asked yet
          Restless,      \* bound: nodes that also stand without being elected, and
                         \* are elected after the first term only
          MaxTerm,       \* bound: terms in which a node stands
          MaxCalls,      \* bound: calls of replicate
          MaxLost,       \* bound: requests given up though the peer is up
          MaxTasks,      \* bound: commit tasks that wait in a node
          MaxExpire,     \* bound: calls 1 .. MaxExpire may time out
          MaxFile        \* bound: a longer file takes no more requests

ASSUME LogAssumption ==
  /\ IsFiniteSet(Node) /\ Cardinality(Node) >= 2
  /\ Nobody \notin Node /\ Restless \subseteq Node
  /\ MaxTerm \in Nat /\ MaxCalls \in Nat /\ MaxLost \in Nat /\ MaxTasks \in Nat
  /\ MaxExpire \in Nat /\ MaxFile \in Nat

VARIABLES node,          \* members of each node's raft that the log uses
          thread,        \* thread[n][m]: n's peer thread for m
          rpc,           \* rpc[n][m]: the call that thread waits for
          late,          \* late[m]: requests to m whose caller has given up
          committing,    \* entries the running commit task has still to apply
          call,          \* the calls of replicate
          lost,          \* requests given up, for the bound
          applied,       \* history: entries given to commit_entry_callback_
          answers        \* history: what each call's callback was told

vars == <<node, thread, rpc, late, committing, call, lost, applied, answers>>

Others(n) == Node \ {n}

Term  == 0 .. MaxTerm
Index == 0 .. MaxCalls
Calls == 1 .. MaxCalls

\* The data of an entry is the call that brought it.
Entry == [index : Index, term : Term, data : Calls]

Callback == [index : Index, waits : Nat \ {0}, call : Calls]

Task == [kind : {"commit"}, upto : Index]
        \cup [kind : {"answer"}, call : Calls, ok : BOOLEAN]

\* Why a process has stopped: the assertion at raft.hpp:282, the one at
\* raft.hpp:299, or an exception out of the committer thread.
Fault == {"suffix", "order", "unreadable"}

NodeState ==
  [term      : Term,                          \* current_term_
   state     : {"follower", "candidate", "leader"},
   file      : Seq(Entry),                    \* log_.current_file_
   last      : Index,                         \* log_.last_index_
   committed : Index,                         \* committed_index_
   callbacks : SUBSET Callback,               \* append_log_callbacks_
   tasks     : Seq(Task),                     \* commiter_.queue_
   cmds      : [Node -> Seq({"append", "sleep"})],   \* the peers' cmd_queue_
   fault     : Fault \cup {"none"}]

Request  == [from : Node, term : Term, prev : Index, prevTerm : Term,
             commit : Index, entries : Seq(Entry)]
Response == [ok : BOOLEAN, term : Term, last : Index]

Rpc == [status : {"sent", "failed"}, req : Request]
       \cup [status : {"answered"}, req : Request, resp : Response]

Thread == [at : {"idle", "look", "stamp", "send", "wait", "newterm"},
           next : 0 .. MaxCalls + 1, match : Index, beat : BOOLEAN,
           term : Term, commit : Index]

CallState ==
  [at    : {"new", "asked", "stamped", "written", "done"},
   node  : Node \cup {Nobody}, term : Term, index : Index,
   timer : {"no", "set", "due"}]

TypeOK ==
  /\ node \in [Node -> NodeState]
  /\ thread \in [Node -> [Node -> Thread]]
  /\ rpc \in [Node -> [Node -> Rpc \cup {NoRpc}]]
  /\ late \in [Node -> SUBSET Request]
  /\ committing \in [Node -> Seq(Entry)]
  /\ call \in [Calls -> CallState]
  /\ lost \in 0 .. MaxLost
  /\ applied \in [Node -> Seq(Entry)]
  /\ answers \in [Calls -> Seq(BOOLEAN)]

Up(n) == node[n].fault = "none"

-----------------------------------------------------------------------------
(* init()                                                                  *)

NewNode ==
  [term |-> 0, state |-> "follower", file |-> <<>>, last |-> 0, committed |-> 0,
   callbacks |-> {}, tasks |-> <<>>, cmds |-> [m \in Node |-> <<>>],
   fault |-> "none"]

IdleThread == [at |-> "idle", next |-> 0, match |-> 0, beat |-> FALSE,
               term |-> 0, commit |-> 0]

Init ==
  /\ node = [n \in Node |-> NewNode]
  /\ thread = [n \in Node |-> [m \in Node |-> IdleThread]]
  /\ rpc = [n \in Node |-> [m \in Node |-> NoRpc]]
  /\ late = [n \in Node |-> {}]
  /\ committing = [n \in Node |-> <<>>]
  /\ call = [c \in Calls |-> [at |-> "new", node |-> Nobody, term |-> 0,
                              index |-> 0, timer |-> "no"]]
  /\ lost = 0
  /\ applied = [n \in Node |-> <<>>]
  /\ answers = [c \in Calls |-> <<>>]

-----------------------------------------------------------------------------
(* filelog, with one file.                                                 *)

Start(f) == IF f = <<>> THEN 0 ELSE f[1].index

Holds(f, i) == f # <<>> /\ Start(f) <= i /\ i <= f[Len(f)].index

\* The place of index i is counted from the start of the file; the first
\* place is not looked at, any other must hold i or the read throws.
Place(f, i) == i - Start(f) + 1

Unreadable(f, i) ==
  Holds(f, i) /\ i # Start(f)
  /\ (Place(f, i) > Len(f) \/ f[Place(f, i)].index # i)

NoEntry == [index |-> 0, term |-> 0]   \* log_entry{}

GetEntry(f, i) == IF Holds(f, i) THEN f[Place(f, i)] ELSE NoEntry

\* Entries are read one after the other from the place of i.
GetEntries(f, i) ==
  IF Holds(f, i) THEN SubSeq(f, Place(f, i), Len(f)) ELSE <<>>

WriteFile(s, e) == [s EXCEPT !.file = Append(@, e), !.last = e.index]

-----------------------------------------------------------------------------
(* The members of raft, as functions of one node's state.                  *)

Answer(c, ok) == [kind |-> "answer", call |-> c, ok |-> ok]

\* Callbacks in the order of the map, of which their indexes are the keys.
InOrder(cbs) ==
  CHOOSE cs \in [1 .. Cardinality(cbs) -> cbs] :
    \A i, j \in 1 .. Cardinality(cbs) : i < j => cs[i].index < cs[j].index

AnswersTo(cbs, ok) ==
  [i \in 1 .. Cardinality(cbs) |-> Answer(InOrder(cbs)[i].call, ok)]

\* notify_noleader_error
Refusals(callbacks) == AnswersTo(callbacks, FALSE)

SendAll(s, n, cmd) ==
  [s EXCEPT !.cmds = [m \in Node |-> IF m = n THEN @[m] ELSE Append(@[m], cmd)]]

\* Mutant: step_down refuses the calls and keeps them.
StepDownKeep(s, n, t) ==
  LET slept == IF s.state = "leader" THEN SendAll(s, n, "sleep") ELSE s
  IN  [slept EXCEPT !.term  = IF t > @ THEN t ELSE @,
                    !.state = "follower",
                    !.tasks = @ \o Refusals(s.callbacks)]

\* step_down of node n
StepDown(s, n, t) ==
  LET slept == IF s.state = "leader" THEN SendAll(s, n, "sleep") ELSE s
  IN  [slept EXCEPT !.term      = IF t > @ THEN t ELSE @,
                    !.state     = "follower",
                    !.tasks     = @ \o Refusals(s.callbacks),
                    !.callbacks = {}]

\* A majority without the leader; insert_callback waits for so many.
MajorityLess1 == Cardinality(Node) \div 2

\* Mutant: a callback whose last wait is over stays in the map.
ReportKeep(s, e) ==
  LET cbs  == {cb \in s.callbacks : cb.index = e.index}
      less == {[cb EXCEPT !.waits = @ - 1] : cb \in cbs}
      over == {cb \in less : cb.waits = 0}
  IN  IF over = {} THEN [s EXCEPT !.callbacks = (@ \ cbs) \cup less]
      ELSE [s EXCEPT
              !.callbacks = (@ \ cbs) \cup less,
              !.committed = e.index,
              !.tasks     = @ \o AnswersTo(over, TRUE)]

\* append_entries_callback, for one index of the request: when the last wait
\* is over the entry is committed and its call answered.
Report(s, e) ==
  LET cbs  == {cb \in s.callbacks : cb.index = e.index}
      less == {[cb EXCEPT !.waits = @ - 1] : cb \in cbs}
      over == {cb \in less : cb.waits = 0}
      rest == (s.callbacks \ cbs) \cup (less \ over)
  IN  IF over = {} THEN [s EXCEPT !.callbacks = rest]
      ELSE [s EXCEPT
              !.callbacks = rest,
              !.committed = e.index,
              !.tasks     = @ \o AnswersTo(over, TRUE)]

\* ... for all of them.
ReportAll(s, es) ==
  LET after[k \in 0 .. Len(es)] == IF k = 0 THEN s ELSE Report(after[k - 1], es[k])
  IN  after[Len(es)]

\* The last part of handle_append_entries_request, for one entry: known
\* entries are passed over; the first that is new or differs is written, and
\* so are all after it.  truncate_suffix leaves the open file as it is.
Accept(a, e) ==
  LET s     == a.node
      known == a.check /\ e.index <= s.last
  IN  IF a.failed \/ s.fault # "none" \/ (a.check /\ e.index < Start(s.file))
        THEN a
      ELSE IF known /\ Unreadable(s.file, e.index)
        THEN [a EXCEPT !.failed = TRUE]
      ELSE IF known /\ GetEntry(s.file, e.index).term = e.term
        THEN a
      ELSE IF known /\ e.index <= s.committed
        THEN [a EXCEPT !.node.fault = "suffix"]
      ELSE [a EXCEPT !.node = WriteFile(s, e), !.check = a.check /\ ~known]

\* ... for all entries.
AcceptAll(s, es) ==
  LET after[k \in 0 .. Len(es)] ==
        IF k = 0 THEN [node |-> s, check |-> TRUE, failed |-> FALSE]
        ELSE Accept(after[k - 1], es[k])
  IN  after[Len(es)]

Reply(ok, t, i) == [ok |-> ok, term |-> t, last |-> i]

\* Mutant: entries that leave a gap are taken.
HandleAppendGap(m, q) ==
  LET s    == IF q.term > node[m].term
              THEN StepDown(node[m], m, q.term) ELSE node[m]
      done == AcceptAll(s, q.entries)
      full == IF done.node.committed < q.commit
              THEN [done.node EXCEPT !.tasks =
                      Append(@, [kind |-> "commit", upto |-> q.commit])]
              ELSE done.node
  IN  IF q.term < s.term
      THEN [node |-> s, failed |-> FALSE, resp |-> Reply(FALSE, s.term, 0)]
      ELSE [node |-> full, failed |-> FALSE, resp |-> Reply(TRUE, s.term, full.last)]

\* handle_append_entries_request: what becomes of node m, the response, and
\* whether the handler throws instead.  The entry before the first is looked
\* at only when it comes after the start of the log.
HandleAppend(m, q) ==
  LET s    == IF q.term > node[m].term
              THEN StepDown(node[m], m, q.term) ELSE node[m]
      prev == q.prev # 0 /\ q.prev > Start(s.file)
      left(ok, i) == [node |-> s, failed |-> FALSE, resp |-> Reply(ok, s.term, i)]
      done == AcceptAll(s, q.entries)
      full == IF done.node.committed < q.commit
              THEN [done.node EXCEPT !.tasks =
                      Append(@, [kind |-> "commit", upto |-> q.commit])]
              ELSE done.node
  IN  IF q.term < s.term THEN left(FALSE, 0)
      ELSE IF q.prev > s.last THEN left(FALSE, s.last)
      ELSE IF prev /\ Unreadable(s.file, q.prev)
        THEN [left(FALSE, 0) EXCEPT !.failed = TRUE]
      ELSE IF prev /\ GetEntry(s.file, q.prev).term # q.prevTerm
        THEN left(FALSE, q.prev - 1)
      ELSE IF done.failed \/ done.node.fault # "none"
        THEN [node |-> done.node, failed |-> TRUE, resp |-> Reply(FALSE, 0, 0)]
      ELSE [node |-> full, failed |-> FALSE, resp |-> Reply(TRUE, s.term, full.last)]

\* build_append_entries_request with the term and commit index read before:
\* the entry before the first goes along as prev, if there is one more.
BuildAppend(n, t) ==
  LET f == node[n].file
      i == IF t.next > 1 THEN t.next - 1 ELSE t.next
      es == GetEntries(f, i)
      after == Len(es) > 1 /\ t.next > 1
  IN  [from |-> n, term |-> t.term, commit |-> t.commit,
       prev     |-> IF after THEN es[1].index ELSE 0,
       prevTerm |-> IF after THEN es[1].term ELSE 0,
       entries  |-> IF after THEN Tail(es) ELSE es]

-----------------------------------------------------------------------------
(* Elections.                                                              *)

\* Node n, no leader, stands and wins term t with the votes of Q: they are in
\* an earlier term and their logs are not longer.  Others learn of it later.
Elect(n, Q, t) ==
  /\ Up(n) /\ node[n].state # "leader" /\ t > node[n].term
  /\ n \in Restless => t > 1
  /\ Cardinality(Q) = MajorityLess1
  /\ \A v \in Q : Up(v) /\ node[v].term < t /\ node[v].last <= node[n].last
  /\ node' = [v \in Node |->
       IF v = n THEN [SendAll(node[n], n, "append") EXCEPT
                        !.term = t, !.state = "leader"]
       ELSE IF v \in Q THEN StepDown(node[v], v, t)
       ELSE node[v]]
  /\ UNCHANGED <<thread, rpc, late, committing, call, lost, applied, answers>>

\* Node n stands in its next term, and no vote request gets through.
Stand(n) ==
  /\ Up(n) /\ node[n].state # "leader" /\ n \in Restless
  /\ node[n].term < MaxTerm
  /\ node' = [node EXCEPT ![n].term = @ + 1, ![n].state = "candidate"]
  /\ UNCHANGED <<thread, rpc, late, committing, call, lost, applied, answers>>

-----------------------------------------------------------------------------
(* replicate().                                                            *)

rpcVars  == <<thread, rpc, late, lost>>
historyVars == <<applied, answers>>

\* A client finds with check_leader that node n leads.  Calls are alike, so
\* they are taken in order.
Ask(c, n) ==
  /\ Up(n) /\ node[n].state = "leader"
  /\ call[c].at = "new" /\ \A b \in 1 .. c - 1 : call[b].at # "new"
  /\ call' = [call EXCEPT ![c].at = "asked", ![c].node = n]
  /\ UNCHANGED <<node, committing, rpcVars, historyVars>>

\* build_log_entry reads current_term_.
Stamp(c) ==
  LET n == call[c].node
  IN  /\ call[c].at = "asked" /\ Up(n)
      /\ call' = [call EXCEPT ![c].at = "stamped", ![c].term = node[n].term]
      /\ UNCHANGED <<node, committing, rpcVars, historyVars>>

\* log_.write gives the entry the next index and set_timeout sets the timer.
\* From here on the peer threads see the entry.
WriteEntry(c) ==
  LET n == call[c].node
      i == node[n].last + 1
  IN  /\ call[c].at = "stamped" /\ Up(n)
      /\ i \in Index
      /\ node' = [node EXCEPT ![n] =
           WriteFile(@, [index |-> i, term |-> call[c].term, data |-> c])]
      /\ call' = [call EXCEPT ![c].at = "written", ![c].index = i,
                              ![c].timer = "set"]
      /\ UNCHANGED <<committing, rpcVars, historyVars>>

\* insert_callback; a callback that is there already stays.
Register(c) ==
  LET n == call[c].node
      cb == [index |-> call[c].index, waits |-> MajorityLess1, call |-> c]
      there == \E b \in node[n].callbacks : b.index = cb.index
  IN  /\ call[c].at = "written" /\ Up(n)
      /\ call' = [call EXCEPT ![c].at = "done"]
      /\ node' = [node EXCEPT ![n].callbacks =
                    IF there THEN @ ELSE @ \cup {cb}]
      /\ UNCHANGED <<committing, rpcVars, historyVars>>

\* The timer thread takes the callback of set_timeout off ...
Due(c) ==
  /\ c <= MaxExpire
  /\ call[c].timer = "set" /\ Up(call[c].node)
  /\ call' = [call EXCEPT ![c].timer = "due"]
  /\ UNCHANGED <<node, committing, rpcVars, historyVars>>

\* ... and runs it: the call registered at the index, if any, is refused.
Expire(c) ==
  LET n == call[c].node
      cbs == {cb \in node[n].callbacks : cb.index = call[c].index}
  IN  /\ call[c].timer = "due" /\ Up(n)
      /\ call' = [call EXCEPT ![c].timer = "no"]
      /\ node' = [node EXCEPT ![n].callbacks = @ \ cbs,
                              ![n].tasks = @ \o Refusals(cbs)]
      /\ UNCHANGED <<committing, rpcVars, historyVars>>

-----------------------------------------------------------------------------
(* A peer thread.                                                          *)

Keep == UNCHANGED <<committing, historyVars>>

\* try_execute_cmd; a thread put to sleep, or woken from it, starts over.
TakeCommand(n, m) ==
  /\ Up(n) /\ thread[n][m].at \in {"idle", "look"}
  /\ node[n].cmds[m] # <<>>
  /\ node' = [node EXCEPT ![n].cmds[m] = Tail(@)]
  /\ thread' = [thread EXCEPT ![n][m] =
       IF Head(node[n].cmds[m]) = "append" THEN [IdleThread EXCEPT !.at = "look"]
       ELSE IdleThread]
  /\ UNCHANGED <<rpc, late, lost, call>> /\ Keep

\* The top of do_append_entries: with all sent and one beat behind it, the
\* thread sleeps until the next beat.
Look(n, m) ==
  LET t == thread[n][m]
      last == node[n].last
      next == IF t.next = 0 \/ t.next > last THEN last ELSE t.next
      rest == last = t.match /\ t.beat
  IN  /\ Up(n) /\ t.at = "look" /\ node[n].cmds[m] = <<>>
      /\ thread' = [thread EXCEPT ![n][m] =
           [t EXCEPT !.next = next,
                     !.beat = @ /\ ~rest,
                     !.at = IF rest THEN "look" ELSE "stamp"]]
      /\ UNCHANGED <<node, rpc, late, lost, call>> /\ Keep

\* build_append_entries_request reads the term and the commit index ...
StampRequest(n, m) ==
  /\ Up(n) /\ thread[n][m].at = "stamp"
  /\ thread' = [thread EXCEPT ![n][m].at = "send",
                              ![n][m].term = node[n].term,
                              ![n][m].commit = node[n].committed]
  /\ UNCHANGED <<node, rpc, late, lost, call>> /\ Keep

\* ... and then the entries.  When that throws, the loop starts over.
Send(n, m) ==
  LET t == thread[n][m]
      unreadable == Unreadable(node[n].file,
                               IF t.next > 1 THEN t.next - 1 ELSE t.next)
  IN  /\ Up(n) /\ t.at = "send"
      /\ thread' = [thread EXCEPT ![n][m].at =
                      IF unreadable THEN "look" ELSE "wait",
                    ![n][m].term = 0, ![n][m].commit = 0]
      /\ rpc' = IF unreadable THEN rpc
                ELSE [rpc EXCEPT ![n][m] =
                        [status |-> "sent", req |-> BuildAppend(n, t)]]
      /\ UNCHANGED <<node, late, lost, call>> /\ Keep

\* The call fails: the peer is down, its handler threw, or the time is up.
\* A request that has not been handled may still be.
GiveUp(n, m) ==
  LET r == rpc[n][m]
      broken == r.status = "failed" \/ ~Up(m)
  IN  /\ Up(n) /\ r # NoRpc
      /\ broken \/ lost < MaxLost
      /\ lost' = IF broken THEN lost ELSE lost + 1
      /\ late' = IF r.status = "sent" /\ ~broken
                 THEN [late EXCEPT ![m] = @ \cup {r.req}] ELSE late
      /\ rpc' = [rpc EXCEPT ![n][m] = NoRpc]
      /\ thread' = [thread EXCEPT ![n][m].at = "look"]
      /\ UNCHANGED <<node, call>> /\ Keep

\* Mutant: the thread goes on from the last entry the peer has.
RefusedAt(n, m) ==
  LET r == rpc[n][m]
      newer == node[n].term < r.resp.term
  IN  /\ Up(n) /\ r # NoRpc /\ r.status = "answered" /\ ~r.resp.ok
      /\ rpc' = [rpc EXCEPT ![n][m] = NoRpc]
      /\ thread' = [thread EXCEPT ![n][m] =
           IF newer THEN [IdleThread EXCEPT !.at = "newterm", !.term = r.resp.term]
           ELSE [@ EXCEPT !.at = "look", !.beat = TRUE, !.match = 0,
                          !.next = r.resp.last]]
      /\ UNCHANGED <<node, late, lost, call>> /\ Keep

\* The response of a peer in a newer term, or one that lacks the entry
\* before: the thread is told where to go on.
Refused(n, m) ==
  LET r == rpc[n][m]
      newer == node[n].term < r.resp.term
  IN  /\ Up(n) /\ r # NoRpc /\ r.status = "answered" /\ ~r.resp.ok
      /\ rpc' = [rpc EXCEPT ![n][m] = NoRpc]
      /\ thread' = [thread EXCEPT ![n][m] =
           IF newer THEN [IdleThread EXCEPT !.at = "newterm", !.term = r.resp.term]
           ELSE [@ EXCEPT !.at = "look", !.beat = TRUE, !.match = 0,
                          !.next = r.resp.last + 1]]
      /\ UNCHANGED <<node, late, lost, call>> /\ Keep

\* handle_new_term, with the term compared before the lock is taken.
NewTerm(n, m) ==
  /\ Up(n) /\ thread[n][m].at = "newterm"
  /\ node' = [node EXCEPT ![n] = StepDown(@, n, thread[n][m].term)]
  /\ thread' = [thread EXCEPT ![n][m] = IdleThread]
  /\ UNCHANGED <<rpc, late, lost, call>> /\ Keep

\* Success: the entries sent are reported, and the timers of the calls that
\* are answered are cancelled unless they are due.
Accepted(n, m) ==
  LET r == rpc[n][m]
      s == ReportAll(node[n], r.req.entries)
      answered == {cb.call : cb \in node[n].callbacks}
                  \ {cb.call : cb \in s.callbacks}
  IN  /\ Up(n) /\ r # NoRpc /\ r.status = "answered" /\ r.resp.ok
      /\ rpc' = [rpc EXCEPT ![n][m] = NoRpc]
      /\ thread' = [thread EXCEPT ![n][m] =
           [@ EXCEPT !.at = "look", !.beat = TRUE,
                     !.match = r.resp.last, !.next = r.resp.last + 1]]
      /\ node' = [node EXCEPT ![n] = s]
      /\ call' = [c \in Calls |->
           IF c \in answered /\ call[c].timer = "set"
           THEN [call[c] EXCEPT !.timer = "no"] ELSE call[c]]
      /\ UNCHANGED <<late, lost>> /\ Keep

-----------------------------------------------------------------------------
(* The receiving node.                                                     *)

\* The bounds on tasks and files: a request waits when there are too many.
Room(m) == /\ Len(node[m].tasks) < MaxTasks
           /\ Len(node[m].file) <= MaxFile

Serve(n, m) ==
  LET r == rpc[n][m]
      h == HandleAppend(m, r.req)
  IN  /\ Up(m) /\ Room(m) /\ r # NoRpc /\ r.status = "sent"
      /\ node' = [node EXCEPT ![m] = h.node]
      /\ rpc' = [rpc EXCEPT ![n][m] =
           IF h.failed THEN [r EXCEPT !.status = "failed"]
           ELSE [status |-> "answered", req |-> r.req, resp |-> h.resp]]
      /\ UNCHANGED <<thread, late, lost, call>> /\ Keep

\* A request whose caller has given up; nobody reads the response.
ServeLate(m, q) ==
  /\ Up(m) /\ Room(m) /\ q \in late[m]
  /\ node' = [node EXCEPT ![m] = HandleAppend(m, q).node]
  /\ late' = [late EXCEPT ![m] = @ \ {q}]
  /\ UNCHANGED <<thread, rpc, lost, call>> /\ Keep

-----------------------------------------------------------------------------
(* The committer thread.                                                   *)

\* A commit task counts its entries when it runs: as many as the leader's
\* commit index is ahead of this node's by now.  Behind, the count is
\* negative, and as a size it has no end.
Batch(s, upto) ==
  LET es == GetEntries(s.file, s.committed + 1)
      n  == upto - s.committed
  IN  IF n < 0 THEN es
      ELSE SubSeq(es, 1, IF n < Len(es) THEN n ELSE Len(es))

RunCommit(n) ==
  LET s == node[n]
      task == Head(s.tasks)
      dead == Unreadable(s.file, s.committed + 1) /\ task.upto # s.committed
  IN  /\ Up(n) /\ s.tasks # <<>> /\ committing[n] = <<>>
      /\ task.kind = "commit"
      /\ node' = [node EXCEPT ![n].tasks = Tail(@),
                              ![n].fault = IF dead THEN "unreadable" ELSE @]
      /\ committing' = [committing EXCEPT ![n] =
                          IF dead THEN <<>> ELSE Batch(s, task.upto)]
      /\ UNCHANGED <<rpcVars, call, historyVars>>

RunAnswer(n) ==
  LET task == Head(node[n].tasks)
  IN  /\ Up(n) /\ node[n].tasks # <<>> /\ committing[n] = <<>>
      /\ task.kind = "answer"
      /\ node' = [node EXCEPT ![n].tasks = Tail(@)]
      /\ answers' = [answers EXCEPT ![task.call] = Append(@, task.ok)]
      /\ UNCHANGED <<committing, rpcVars, call, applied>>

\* Mutant: the commit index stays where it is.
ApplyEntryStill(n) ==
  LET e == Head(committing[n])
      right == e.index = node[n].committed + 1
  IN  /\ Up(n) /\ committing[n] # <<>>
      /\ node' = [node EXCEPT ![n].fault = IF right THEN @ ELSE "order"]
      /\ applied' = IF right THEN [applied EXCEPT ![n] = Append(@, e)] ELSE applied
      /\ committing' = [committing EXCEPT ![n] = Tail(@)]
      /\ UNCHANGED <<rpcVars, call, answers>>

\* assert(itr.index_ == committed_index_ + 1), the application's callback,
\* and the next commit index.
ApplyEntry(n) ==
  LET e == Head(committing[n])
      right == e.index = node[n].committed + 1
  IN  /\ Up(n) /\ committing[n] # <<>>
      /\ node' = [node EXCEPT
           ![n].fault = IF right THEN @ ELSE "order",
           ![n].committed = IF right THEN @ + 1 ELSE @]
      /\ applied' = IF right THEN [applied EXCEPT ![n] = Append(@, e)] ELSE applied
      /\ committing' = [committing EXCEPT ![n] = Tail(@)]
      /\ UNCHANGED <<rpcVars, call, answers>>

-----------------------------------------------------------------------------
ThreadStep(n, m) ==
  \/ TakeCommand(n, m) \/ Look(n, m) \/ StampRequest(n, m) \/ Send(n, m)
  \/ Refused(n, m) \/ NewTerm(n, m) \/ Accepted(n, m)

CallStep(c) == Stamp(c) \/ WriteEntry(c) \/ Register(c) \/ Due(c) \/ Expire(c)

CommitterStep(n) == RunCommit(n) \/ RunAnswer(n) \/ ApplyEntry(n)

Next ==
  \/ \E n \in Node : \E Q \in SUBSET Others(n), t \in Term : Elect(n, Q, t)
  \/ \E n \in Node : Stand(n)
  \/ \E c \in Calls, n \in Node : Ask(c, n)
  \/ \E c \in Calls : CallStep(c)
  \/ \E n \in Node : CommitterStep(n)
  \/ \E n \in Node : \E m \in Others(n) :
       ThreadStep(n, m) \/ GiveUp(n, m) \/ Serve(n, m)
  \/ \E m \in Node : \E q \in late[m] : ServeLate(m, q)

Spec == Init /\ [][Next]_vars

\* Every thread that can go on does: the clients past check_leader, the
\* timer, the committer, the peer threads and the rpc server of each node.
\* Nothing makes a node stand for election, or a call.
Fairness ==
  /\ \A c \in Calls : /\ WF_vars(Stamp(c) \/ WriteEntry(c) \/ Register(c))
                      /\ WF_vars(Due(c) \/ Expire(c))
  /\ \A n \in Node : WF_vars(CommitterStep(n))
  /\ \A n, m \in Node : n # m =>
       /\ WF_vars(ThreadStep(n, m)) /\ WF_vars(Serve(n, m))
       /\ WF_vars(GiveUp(n, m) /\ lost' = lost)

FairSpec == Spec /\ Fairness

-----------------------------------------------------------------------------
(* Properties of a leader that nobody replaces (MaxTerm = 1).              *)

Leaders == {n \in Node : node[n].state = "leader"}

LeaderLog == IF Leaders = {} THEN <<>> ELSE node[CHOOSE n \in Leaders : TRUE].file

TO == INSTANCE TotalOrder WITH log <- LeaderLog, delivered <- applied

\* The followers apply the leader's log: in its order, every entry once,
\* though commit tasks pile up, count their entries when they run, and are
\* made from commit indexes that may go back.
LogIsOrdered == TO!Spec

HoldersOf(e) == {n \in Node : \E k \in DOMAIN node[n].file : node[n].file[k] = e}

Majority(S) == 2 * Cardinality(S) > Cardinality(Node)

\* A call is answered with success only when a majority holds its entry.
AnsweredHeld ==
  \A c \in Calls : TRUE \in {answers[c][k] : k \in DOMAIN answers[c]} =>
    Majority({n \in Node : \E k \in DOMAIN node[n].file :
                             node[n].file[k].data = c})

\* What a node takes for committed is in its log, and in a majority's.
CommittedHeld ==
  \A n \in Node : \A k \in 1 .. node[n].committed :
    k \in DOMAIN node[n].file /\ Majority(HoldersOf(node[n].file[k]))

\* raft.hpp:299, assert(itr.index_ == committed_index_ + 1): the committer
\* applies the entry after the last one it applied.
OrderAssert == \A n \in Node : node[n].fault # "order"

\* As long as the leader stays, the committer applies the entry after the last
\* one it applied, a call is answered with success only when a majority holds
\* its entry, and what a node takes for committed is in its log and in a
\* majority's.
LogHeld == OrderAssert /\ AnsweredHeld /\ CommittedHeld

\* In the end every entry the leader has written is in every node's log: the
\* peer thread finds where each of them stands, whatever calls are lost.
ReachesAll ==
  <>[](\A c \in Calls : call[c].at \in {"written", "done"} =>
         \A m \in Node : \E k \in DOMAIN node[m].file : node[m].file[k].data = c)

-----------------------------------------------------------------------------
(* Properties of any run.                                                  *)

\* A callback of replicate runs once at most: the majority, the time-out and
\* the step down of the leader race for it.
AnsweredOnce == \A c \in Calls : Len(answers[c]) <= 1

\* A registered call whose timer has still to run is answered, on its way to
\* be, or in the map where the timer will find it, whether or not its node goes
\* on leading; unless another call of the node was given the same index.
AnswerComing ==
  \A c \in Calls :
    LET n == call[c].node
    IN  /\ call[c].at = "done" /\ call[c].timer # "no"
        /\ \A b \in Calls \ {c} : call[b].node = n => call[b].index # call[c].index
        => \/ answers[c] # <<>>
           \/ \E cb \in node[n].callbacks : cb.call = c
           \/ \E k \in DOMAIN node[n].tasks :
                node[n].tasks[k].kind = "answer" /\ node[n].tasks[k].call = c

\* Once at most, and not forgotten.
CallsAnswered == AnsweredOnce /\ AnswerComing

\* raft.hpp:282, assert(committed_index_ < itr.index_): an entry that gives
\* way to the leader's was not committed.
SuffixAssert == \A n \in Node : node[n].fault # "suffix"

=============================================================================
