---------------------------- MODULE RaftElection ----------------------------
(***************************************************************************)
(* Leader election in xraft: the election half of xraft::raft, the peer    *)
(* thread of each pair of nodes (raft_peer), and the election timer.       *)
(*                                                                         *)
(* Every handler of raft runs under mtx_ and is one action.  What runs     *)
(* outside the lock is a step of its own: the timer thread between taking  *)
(* the election callback and running it, and the peer threads, which read  *)
(* current_term_ when they build a request and again when they look at a   *)
(* response.                                                               *)
(*                                                                         *)
(* The log is its last index: filelog::get_last_log_entry_term answers 0   *)
(* whatever the log holds, because the entry cache it reads is emptied by  *)
(* every write, so that terms never decide a vote.                         *)
(***************************************************************************)
EXTENDS Integers, Sequences, FiniteSets

CONSTANTS Node,          \* the nodes of the configuration
          Nobody,        \* an empty voted_for_
          NoRpc,         \* the peer thread waits for no response
          MaxTerm,       \* bound: no election timeout of n beyond MaxTerm[n]
          MaxBeat,       \* bound: append requests sent
          MaxIndex,      \* bound: length of a log
          MaxLate,       \* bound: requests that outlive their time-out
          MaxRestart     \* bound: restarts of one node

ASSUME ElectionAssumption ==
  /\ IsFiniteSet(Node) /\ Cardinality(Node) >= 2   \* one node alone elects nobody
  /\ Nobody \notin Node
  /\ MaxTerm \in [Node -> Nat]
  /\ MaxBeat \in Nat /\ MaxIndex \in Nat
  /\ MaxLate \in Nat /\ MaxRestart \in Nat

VARIABLES raft,          \* members of each node's raft that elections use
          cmds,          \* cmds[n][m]: cmd_queue_ of n's peer thread for m
          thread,        \* thread[n][m]: where that thread is
          rpc,           \* rpc[n][m]: the call that thread waits for
          late,          \* late[m]: requests to m whose caller has given up
          life,          \* how often each node has restarted
          beats,         \* append requests sent, for the bound
          grants         \* history: every vote granted

vars == <<raft, cmds, thread, rpc, late, life, beats, grants>>

Others(n) == Node \ {n}

Term  == Nat
Index == Nat

Raft ==
  [term      : Term,                \* current_term_
   saved     : Term,                \* "current_term" in metadata_
   votedFor  : Node \cup {Nobody},  \* voted_for_, always equal in metadata_
   state     : {"follower", "candidate", "leader"},
   votes     : Nat,                 \* granted responses in vote_responses_
   armed     : BOOLEAN,             \* the election timer is set
   firing    : BOOLEAN,             \* its callback has been taken off, not run
   lastIndex : Index]               \* log_.get_last_index()

Command == {"election", "append", "sleep"}

Request  == [kind : {"vote", "append"}, from : Node, term : Term, lastIndex : Index]
Response == [term : Term, ok : BOOLEAN]   \* ok: vote_granted_, success_

Call == [status : {"sent", "lost"}, req : Request]
        \cup [status : {"answered"}, req : Request, resp : Response]
        \cup [status : {"newterm"}, term : Term]

ASSUME CallAssumption == NoRpc \notin Call

Grant == [voter : Node, life : Nat, term : Term, candidate : Node]

\* A table with one cell for each ordered pair of nodes.
Pairs(S) == [Node -> [Node -> S]]

TypeOK ==
  /\ raft \in [Node -> Raft]
  /\ cmds \in Pairs(Seq(Command))
  /\ thread \in Pairs({"idle", "append", "build"})
  /\ rpc \in Pairs(Call \cup {NoRpc})
  /\ late \in [Node -> SUBSET Request]
  /\ life \in [Node -> Nat]
  /\ beats \in Nat
  /\ grants \in SUBSET Grant

-----------------------------------------------------------------------------
(* init(): a node starts as a follower with its election timer set.        *)

NewRaft ==
  [term |-> 0, saved |-> 0, votedFor |-> Nobody, state |-> "follower",
   votes |-> 0, armed |-> TRUE, firing |-> FALSE, lastIndex |-> 0]

Init ==
  /\ raft = [n \in Node |-> NewRaft]
  /\ cmds = [n \in Node |-> [m \in Node |-> <<>>]]
  /\ thread = [n \in Node |-> [m \in Node |-> "idle"]]
  /\ rpc = [n \in Node |-> [m \in Node |-> NoRpc]]
  /\ late = [n \in Node |-> {}]
  /\ life = [n \in Node |-> 0]
  /\ beats = 0
  /\ grants = {}

-----------------------------------------------------------------------------
(* The members of raft, as functions of one node's record.                 *)

\* Mutant: step_down cancels a candidate's timer and sets no other.
StepDownSilent(s, t) ==
  LET newer == s.term < t
  IN  [s EXCEPT !.term     = IF newer THEN t ELSE @,
                !.votedFor = IF newer THEN Nobody ELSE @,
                !.votes    = IF s.state = "candidate" THEN 0 ELSE @,
                !.state    = "follower",
                !.armed    = s.state # "candidate" /\ @]

\* step_down: a newer term is adopted, not saved, and frees the vote; a
\* candidate drops its responses; the election timer is set in any case.
StepDown(s, t) ==
  LET newer == s.term < t
  IN  [s EXCEPT !.term     = IF newer THEN t ELSE @,
                !.votedFor = IF newer THEN Nobody ELSE @,
                !.votes    = IF s.state = "candidate" THEN 0 ELSE @,
                !.state    = "follower",
                !.armed    = TRUE]

\* Mutant: any other term is adopted, newer or not.
CatchUpAny(s, t) ==
  IF t # s.term THEN [StepDown(s, t) EXCEPT !.term = t] ELSE s

CatchUp(s, t) == IF t > s.term THEN StepDown(s, t) ELSE s

\* handle_vote_request: the vote goes to the first up-to-date candidate of
\* the term; casting it steps down whatever the node is.
VoteOk(s, q) == q.lastIndex >= s.lastIndex

\* Mutant: the vote is given whether or not it has been given before.
HandleVoteRequestAgain(s, q) ==
  LET c == CatchUp(s, q.term)
  IN  IF q.term = c.term /\ VoteOk(s, q)
      THEN [StepDown(c, c.term) EXCEPT !.votedFor = q.from]
      ELSE c

HandleVoteRequest(s, q) ==
  LET c == CatchUp(s, q.term)
  IN  IF q.term = c.term /\ VoteOk(s, q) /\ c.votedFor = Nobody
      THEN [StepDown(c, c.term) EXCEPT !.votedFor = q.from]
      ELSE c

\* The response is computed from what the handler leaves.
Granted(s, q) == q.term = s.term /\ s.votedFor = q.from

\* handle_append_entries_request, as far as elections see it: a node of the
\* same term keeps its state, leader or not, and sets its election timer.
HandleAppend(s, q) ==
  IF q.term < s.term THEN s ELSE [CatchUp(s, q.term) EXCEPT !.armed = TRUE]

\* handle_vote_response: one vote for itself and one per granted response
\* collected since the last step_down.
Majority == Cardinality(Node) \div 2 + 1

\* Mutant: a response of an earlier term counts.
HandleVoteResponseAnyTerm(s, r) ==
  LET c     == CatchUp(s, r.term)
      votes == IF r.ok THEN c.votes + 1 ELSE c.votes
  IN  IF s.state # "candidate" THEN s
      ELSE IF votes + 1 >= Majority
           THEN [c EXCEPT !.votes = 0, !.state = "leader", !.armed = FALSE]
           ELSE [c EXCEPT !.votes = votes]

HandleVoteResponse(s, r) ==
  LET c     == CatchUp(s, r.term)
      votes == IF r.ok THEN c.votes + 1 ELSE c.votes
  IN  IF s.state # "candidate" \/ r.term < s.term THEN s
      ELSE IF votes + 1 >= Majority
           THEN [c EXCEPT !.votes = 0, !.state = "leader", !.armed = FALSE]
           ELSE [c EXCEPT !.votes = votes]

\* Mutant: step_down does not put a leader's peer threads to sleep.
CommandsForNoSleep(s, t) ==
  IF s.state # "leader" /\ t.state = "leader" THEN <<"append">> ELSE <<>>

\* The commands a change of state sends to every peer thread.
CommandsFor(s, t) ==
  IF s.state = "leader" /\ t.state = "follower" THEN <<"sleep">>
  ELSE IF s.state # "leader" /\ t.state = "leader" THEN <<"append">>
  ELSE <<>>

\* Node n's handler leaves its raft as s, and its commands in the queues.
Become(n, s) ==
  /\ raft' = [raft EXCEPT ![n] = s]
  /\ cmds' = [cmds EXCEPT ![n] =
       [m \in Node |-> IF m = n THEN @[m]
                       ELSE @[m] \o CommandsFor(raft[n], s)]]

-----------------------------------------------------------------------------
(* The timer thread.                                                       *)

\* timer::run takes the due callback off and unlocks: from here on cancel
\* does not find it.
TimerDue(n) ==
  /\ MaxTerm[n] > 0
  /\ raft[n].armed /\ ~raft[n].firing
  /\ raft' = [raft EXCEPT ![n].armed = FALSE, ![n].firing = TRUE]
  /\ UNCHANGED <<cmds, thread, rpc, late, life, beats, grants>>

\* The callback: a new term, saved; voted_for_ and vote_responses_ stay.
ElectionTimeout(n) ==
  /\ raft[n].firing
  /\ raft[n].term < MaxTerm[n]
  /\ raft' = [raft EXCEPT ![n].term = @ + 1, ![n].saved = raft[n].term + 1,
                          ![n].state = "candidate",
                          ![n].armed = TRUE, ![n].firing = FALSE]
  /\ cmds' = [cmds EXCEPT ![n] =
       [m \in Node |-> IF m = n THEN @[m] ELSE Append(@[m], "election")]]
  /\ UNCHANGED <<thread, rpc, late, life, beats, grants>>

-----------------------------------------------------------------------------
(* n's peer thread for m.                                                  *)

Free(n, m) == m # n /\ rpc[n][m] = NoRpc

SetCall(n, m, c) == rpc' = [rpc EXCEPT ![n][m] = c]

\* build_vote_request and build_append_entries_request read current_term_
\* without the lock, whatever the node has become meanwhile.
RequestNow(n, kind) ==
  [kind |-> kind, from |-> n, term |-> raft[n].term, lastIndex |-> raft[n].lastIndex]

PopCommand(n, m) ==
  /\ Free(n, m)
  /\ thread[n][m] # "build"
  /\ cmds[n][m] # <<>>
  /\ cmds' = [cmds EXCEPT ![n][m] = Tail(@)]

\* e_election: do_election asks for a vote, or gives up with no connection.
StartElection(n, m) ==
  /\ PopCommand(n, m)
  /\ Head(cmds[n][m]) = "election"
  /\ thread' = [thread EXCEPT ![n][m] = "idle"]
  /\ \/ SetCall(n, m, [status |-> "sent", req |-> RequestNow(n, "vote")])
     \/ UNCHANGED rpc
  /\ UNCHANGED <<raft, late, life, beats, grants>>

\* Mutant: the command itself becomes the place of the thread.
SwitchAppendOnly(n, m) ==
  /\ PopCommand(n, m)
  /\ Head(cmds[n][m]) # "election"
  /\ thread' = [thread EXCEPT ![n][m] = Head(cmds[n][m])]
  /\ UNCHANGED <<raft, rpc, late, life, beats, grants>>

\* e_append_entries enters do_append_entries, e_sleep leaves it.
SwitchAppend(n, m) ==
  /\ PopCommand(n, m)
  /\ Head(cmds[n][m]) # "election"
  /\ thread' = [thread EXCEPT ![n][m] =
       IF Head(cmds[n][m]) = "append" THEN "append" ELSE "idle"]
  /\ UNCHANGED <<raft, rpc, late, life, beats, grants>>

\* The top of the loop of do_append_entries: no command is waiting.
BeginAppend(n, m) ==
  /\ Free(n, m)
  /\ thread[n][m] = "append"
  /\ cmds[n][m] = <<>>
  /\ thread' = [thread EXCEPT ![n][m] = "build"]
  /\ UNCHANGED <<raft, cmds, rpc, late, life, beats, grants>>

\* The request is built and sent, even if the node has left office since.
SendAppend(n, m) ==
  /\ thread[n][m] = "build"
  /\ beats < MaxBeat
  /\ beats' = beats + 1
  /\ thread' = [thread EXCEPT ![n][m] = "append"]
  /\ SetCall(n, m, [status |-> "sent", req |-> RequestNow(n, "append")])
  /\ UNCHANGED <<raft, cmds, late, life, grants>>

\* The call times out or its connection breaks.  The response is lost; a
\* request not yet handled may still be.  do_election tries again.
RpcFails(n, m) ==
  /\ rpc[n][m] # NoRpc /\ rpc[n][m].status # "newterm"
  /\ LET q == rpc[n][m].req
     IN  /\ \/ UNCHANGED late
            \/ /\ rpc[n][m].status = "sent"
               /\ Cardinality(late[m]) < MaxLate
               /\ late' = [late EXCEPT ![m] = @ \cup {q}]
         /\ cmds' = IF q.kind = "vote"
                    THEN [cmds EXCEPT ![n][m] = <<"election">> \o @]
                    ELSE cmds
  /\ SetCall(n, m, NoRpc)
  /\ UNCHANGED <<raft, thread, life, beats, grants>>

\* vote_response_callback_ takes the lock and counts the response.
VoteResponse(n, m) ==
  /\ rpc[n][m] # NoRpc
  /\ rpc[n][m].status = "answered"
  /\ rpc[n][m].req.kind = "vote"
  /\ Become(n, HandleVoteResponse(raft[n], rpc[n][m].resp))
  /\ SetCall(n, m, NoRpc)
  /\ UNCHANGED <<thread, late, life, beats, grants>>

\* do_append_entries looks at a refusal: a newer term, read without the
\* lock, ends the loop; otherwise it goes round again.
AppendResponse(n, m) ==
  /\ rpc[n][m] # NoRpc
  /\ rpc[n][m].status = "answered"
  /\ rpc[n][m].req.kind = "append"
  /\ LET r == rpc[n][m].resp
     IN  IF ~r.ok /\ raft[n].term < r.term
         THEN /\ SetCall(n, m, [status |-> "newterm", term |-> r.term])
              /\ thread' = [thread EXCEPT ![n][m] = "idle"]
         ELSE SetCall(n, m, NoRpc) /\ UNCHANGED thread
  /\ UNCHANGED <<raft, cmds, late, life, beats, grants>>

\* handle_new_term steps down to that term, whatever the node is by now.
NewTerm(n, m) ==
  /\ rpc[n][m] # NoRpc
  /\ rpc[n][m].status = "newterm"
  /\ Become(n, StepDown(raft[n], rpc[n][m].term))
  /\ SetCall(n, m, NoRpc)
  /\ UNCHANGED <<thread, late, life, beats, grants>>

-----------------------------------------------------------------------------
(* The rpc server of m.                                                    *)

\* The vote request q is handled; the history keeps the vote it is granted.
ServeVote(m, q) ==
  LET s == HandleVoteRequest(raft[m], q)
  IN  /\ Become(m, s)
      /\ grants' = IF Granted(s, q)
                   THEN grants \cup {[voter |-> m, life |-> life[m],
                                      term |-> q.term, candidate |-> q.from]}
                   ELSE grants

\* The append request q is handled: refused, or its entries are in the log.
ServeAppend(m, q, ok) ==
  LET s == HandleAppend(raft[m], q)
  IN  /\ IF ok
         THEN /\ q.term >= raft[m].term
              /\ \E i \in {q.lastIndex, raft[m].lastIndex} :
                   /\ i >= q.lastIndex
                   /\ Become(m, [s EXCEPT !.lastIndex = i])
         ELSE Become(m, s)
      /\ UNCHANGED grants

Serve(m, q, ok) ==
  IF q.kind = "vote" THEN ServeVote(m, q) /\ ok = Granted(raft'[m], q)
                     ELSE ServeAppend(m, q, ok)

\* A request reaches m while its caller waits.
Deliver(n, m) ==
  /\ rpc[n][m] # NoRpc
  /\ rpc[n][m].status = "sent"
  /\ \E ok \in BOOLEAN :
       /\ Serve(m, rpc[n][m].req, ok)
       /\ SetCall(n, m, [status |-> "answered", req |-> rpc[n][m].req,
                         resp |-> [term |-> raft'[m].term, ok |-> ok]])
  /\ UNCHANGED <<thread, late, life, beats>>

\* A request reaches m after its caller has given up on it.
DeliverLate(m) ==
  \E q \in late[m], ok \in BOOLEAN :
    /\ Serve(m, q, ok)
    /\ late' = [late EXCEPT ![m] = @ \ {q}]
    /\ UNCHANGED <<thread, rpc, life, beats>>

-----------------------------------------------------------------------------
\* do_relicate: any node takes an entry, leader or not.
Replicate(n) ==
  /\ raft[n].lastIndex < MaxIndex
  /\ raft' = [raft EXCEPT ![n].lastIndex = @ + 1]
  /\ UNCHANGED <<cmds, thread, rpc, late, life, beats, grants>>

\* The process of n stops and init() runs again: load_metadata finds the last
\* term an election timeout saved and the current vote.  What its peers
\* have sent it and it has not handled goes with its connections.
Restart(n) ==
  /\ life[n] < MaxRestart
  /\ life' = [life EXCEPT ![n] = @ + 1]
  /\ raft' = [raft EXCEPT ![n] =
       [NewRaft EXCEPT !.term = raft[n].saved, !.saved = raft[n].saved,
                       !.votedFor = raft[n].votedFor,
                       !.lastIndex = raft[n].lastIndex]]
  /\ cmds' = [cmds EXCEPT ![n] = [m \in Node |-> <<>>]]
  /\ thread' = [thread EXCEPT ![n] = [m \in Node |-> "idle"]]
  /\ rpc' = [a \in Node |-> [b \in Node |->
       IF a = n THEN NoRpc
       ELSE IF b = n /\ rpc[a][b] # NoRpc /\ rpc[a][b].status = "sent"
            THEN [rpc[a][b] EXCEPT !.status = "lost"]
            ELSE rpc[a][b]]]
  /\ late' = [late EXCEPT ![n] = {}]
  /\ UNCHANGED <<beats, grants>>

PeerStep(n, m) ==
  \/ StartElection(n, m) \/ SwitchAppend(n, m)
  \/ BeginAppend(n, m) \/ SendAppend(n, m)
  \/ VoteResponse(n, m) \/ AppendResponse(n, m) \/ NewTerm(n, m)
  \/ RpcFails(n, m)

Next ==
  \/ \E n \in Node : \/ TimerDue(n) \/ ElectionTimeout(n) \/ Replicate(n)
                     \/ Restart(n) \/ DeliverLate(n)
  \/ \E n, m \in Node : PeerStep(n, m) \/ Deliver(n, m)

Spec == Init /\ [][Next]_vars

-----------------------------------------------------------------------------
(* Properties.                                                             *)

\* One vote a term: while its process lives, a node grants its vote to at
\* most one candidate of a term, however often requests are repeated, late,
\* or overtaken by its own candidacy.
VoteOnce ==
  \A g, h \in grants :
    g.voter = h.voter /\ g.life = h.life /\ g.term = h.term
      => g.candidate = h.candidate

\* The term of a living node never goes back, although step_down may be
\* called with a term that was compared before the lock was taken.
TermNeverBack ==
  [][\A n \in Node : life'[n] = life[n] => raft'[n].term >= raft[n].term]_vars

\* A node that is not leader always has an election timeout coming: no
\* order of set_timer, cancel and a callback already taken off loses it.
TimeoutComing ==
  \A n \in Node :
    raft[n].state # "leader" => raft[n].armed \/ raft[n].firing

\* A node becomes leader of a term only if another node granted it its vote
\* in that very term: no response of an earlier candidacy elects it.
ElectedByGrant ==
  [][\A n \in Node :
       raft[n].state # "leader" /\ raft'[n].state = "leader" =>
         \E g \in grants : /\ g.candidate = n /\ g.voter # n
                           /\ g.term = raft'[n].term]_vars

\* Every peer thread of a leader replicates, or finds the command to do so
\* in its queue, or is about to depose the node it works for.
LeaderReplicates ==
  \A n \in Node : \A m \in Others(n) :
    raft[n].state = "leader" =>
      \/ thread[n][m] \in {"append", "build"}
      \/ \E i \in 1 .. Len(cmds[n][m]) : cmds[n][m][i] = "append"
      \/ rpc[n][m] # NoRpc /\ rpc[n][m].status = "newterm"

\* A peer thread that goes on replicating for a node that has left office
\* has the command that stops it in its queue.
DeposedStops ==
  \A n \in Node : \A m \in Others(n) :
    raft[n].state # "leader" /\ thread[n][m] # "idle" => cmds[n][m] # <<>>

-----------------------------------------------------------------------------
(* The inductive invariant behind the theorems of RaftNode_proofs.         *)

\* It takes at least one more vote to be elected.
Short(s) == s.votes + 1 < Majority

\* A vote a living node has given is behind it, or is its current vote.
GrantInv ==
  \A g \in grants :
    /\ g.life <= life[g.voter]
    /\ g.life = life[g.voter] =>
         \/ g.term < raft[g.voter].term
         \/ g.term = raft[g.voter].term /\ g.candidate = raft[g.voter].votedFor

\* A granted response on its way to n stands for a vote given to n.
CallInv ==
  \A n, m \in Node :
    /\ rpc[n][m] # NoRpc \/ thread[n][m] # "idle" => m # n
    /\ rpc[n][m] # NoRpc /\ rpc[n][m].status # "newterm" => rpc[n][m].req.from = n
    /\ /\ rpc[n][m] # NoRpc /\ rpc[n][m].status = "answered"
       /\ rpc[n][m].req.kind = "vote" /\ rpc[n][m].resp.ok
       => \E g \in grants : /\ g.voter = m /\ g.candidate = n
                            /\ g.term = rpc[n][m].resp.term

IInv == /\ TypeOK /\ VoteOnce /\ TimeoutComing
        /\ \A n \in Node : Short(raft[n])
        /\ GrantInv /\ CallInv

\* The peer threads follow their raft into office and out of it.
PeersFollow == LeaderReplicates /\ DeposedStops

=============================================================================
