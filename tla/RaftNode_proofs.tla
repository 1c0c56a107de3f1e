--------------------------- MODULE RaftNode_proofs ---------------------------
(***************************************************************************)
(* What TLAPS proves of a raft node, but for its log.                      *)
(*                                                                         *)
(* Elections, for clusters of any size, any number of terms, restarts, late*)
(* requests and append requests: types, one vote a term, terms that never  *)
(* go back, an election timeout always coming, no leader without a vote of *)
(* its own term, and peer threads that follow their node in and out of     *)
(* office.                                                                 *)
(*                                                                         *)
(* Snapshots, for any number of entries, terms and lost calls: whatever    *)
(* comes late, what a follower loads is one whole file, or was mixed from  *)
(* files of which a call was lost in the same term.                        *)
(*                                                                         *)
(* Metadata, for any keys, values, logs and ends of the process: what is   *)
(* read back is what the callers know.                                     *)
(***************************************************************************)
EXTENDS RaftElection, RaftSnapshot, Metadata, FiniteSetTheorems, SequenceTheorems,
        WellFoundedInduction, TLAPS

\* A node that is not leader has an election timeout coming.
Coming(s) == s.state # "leader" => s.armed \/ s.firing

\* What any handler does to a living node: its term does not go back, within
\* a term a vote once given stays, and the two facts above are kept.
Evolves(s, t) ==
  /\ t \in Raft
  /\ t.term >= s.term
  /\ t.term = s.term /\ s.votedFor # Nobody => t.votedFor = s.votedFor
  /\ Coming(s) => Coming(t)
  /\ Short(s) => Short(t)

\* A majority of at least two nodes is at least two.
LEMMA MajorityTwo == Majority \in Nat /\ Majority >= 2
<1>1. Cardinality(Node) \in Nat /\ Cardinality(Node) >= 2
  BY ElectionAssumption, FS_CardinalityType
<1> QED BY <1>1 DEF Majority

-----------------------------------------------------------------------------
(* The handlers, one node's record at a time.                              *)

\* step_down, field by field.
LEMMA StepDownFields ==
  ASSUME NEW s \in Raft, NEW t \in Nat
  PROVE  LET d == StepDown(s, t)
         IN  /\ d \in Raft
             /\ d.term = IF s.term < t THEN t ELSE s.term
             /\ d.votedFor = IF s.term < t THEN Nobody ELSE s.votedFor
             /\ d.state = "follower" /\ d.armed
             /\ d.votes = IF s.state = "candidate" THEN 0 ELSE s.votes
             /\ d.lastIndex = s.lastIndex /\ d.firing = s.firing
<1> DEFINE d == StepDown(s, t)
<1>1. CASE s.term < t
  BY <1>1 DEF Raft, StepDown, Term, Index
<1>2. CASE ~(s.term < t)
  BY <1>2 DEF Raft, StepDown, Term, Index
<1> QED BY <1>1, <1>2

\* step_down leaves a follower with its timer set and moves it forward.
LEMMA StepDownEvolves ==
  ASSUME NEW s \in Raft, NEW t \in Nat
  PROVE  Evolves(s, StepDown(s, t))
<1> DEFINE d == StepDown(s, t)
<1>1. s.term \in Nat /\ s.votes \in Nat
  BY DEF Raft, Term
<1>2. /\ d \in Raft /\ d.term = IF s.term < t THEN t ELSE s.term
      /\ d.votedFor = IF s.term < t THEN Nobody ELSE s.votedFor
      /\ d.armed /\ d.votes = IF s.state = "candidate" THEN 0 ELSE s.votes
  BY StepDownFields
<1> HIDE DEF d
<1>3. d.term >= s.term
  BY <1>1, <1>2
<1>4. d.term = s.term => d.votedFor = s.votedFor
  BY <1>1, <1>2
<1>5. Coming(d)
  BY <1>2 DEF Coming
<1>6. Short(s) => Short(d)
  BY <1>1, <1>2, MajorityTwo DEF Short
<1>7. Evolves(s, d)
  BY <1>2, <1>3, <1>4, <1>5, <1>6 DEF Evolves
<1> QED BY <1>7 DEF d

LEMMA EvolvesSame ==
  ASSUME NEW s \in Raft
  PROVE  Evolves(s, s)
<1>1. s.term \in Nat
  BY DEF Raft, Term
<1> QED BY <1>1 DEF Evolves

LEMMA CatchUpEvolves ==
  ASSUME NEW s \in Raft, NEW t \in Nat
  PROVE  /\ CatchUp(s, t) \in Raft /\ Evolves(s, CatchUp(s, t))
         /\ CatchUp(s, t).term = IF t > s.term THEN t ELSE s.term
         /\ CatchUp(s, t).state # "leader" \/ CatchUp(s, t) = s
<1>1. s.term \in Nat
  BY DEF Raft, Term
<1>2. CASE t > s.term
  <2>1. CatchUp(s, t) = StepDown(s, t) /\ s.term < t
    BY <1>1, <1>2 DEF CatchUp
  <2> QED BY <1>2, <2>1, StepDownFields, StepDownEvolves
<1>3. CASE ~(t > s.term)
  BY <1>1, <1>3, EvolvesSame DEF CatchUp
<1> QED BY <1>2, <1>3

\* Two handlers in a row.
LEMMA EvolvesTrans ==
  ASSUME NEW r \in Raft, NEW s \in Raft, NEW t, Evolves(r, s), Evolves(s, t)
  PROVE  Evolves(r, t)
<1>1. /\ r.term \in Nat /\ s.term \in Nat /\ t.term \in Nat
      /\ t.term >= s.term /\ s.term >= r.term
  BY DEF Evolves, Raft, Term
<1>2. t.term >= r.term /\ (t.term = r.term => s.term = r.term /\ t.term = s.term)
  BY <1>1
<1> QED BY <1>2 DEF Evolves

\* handle_vote_request.
LEMMA VoteRequestEvolves ==
  ASSUME NEW s \in Raft, NEW q \in Request
  PROVE  LET v == HandleVoteRequest(s, q)
         IN  /\ v \in Raft /\ Evolves(s, v)
             /\ v.state # "leader" \/ v = s
<1> DEFINE c == CatchUp(s, q.term)
           d == StepDown(c, c.term)
           v == HandleVoteRequest(s, q)
<1>1. q.term \in Nat /\ q.from \in Node
  BY DEF Request, Term
<1>2. c \in Raft /\ Evolves(s, c) /\ (c.state # "leader" \/ c = s)
  BY <1>1, CatchUpEvolves
<1>3. CASE q.term = c.term /\ VoteOk(s, q) /\ c.votedFor = Nobody
  <2>1. c.term \in Nat /\ ~(c.term < c.term)
    BY <1>2 DEF Raft, Term
  <2>2. /\ d \in Raft /\ Evolves(c, d) /\ d.term = c.term
        /\ d.state = "follower" /\ d.armed
    BY <1>2, <2>1, StepDownFields, StepDownEvolves
  <2>3. v = [d EXCEPT !.votedFor = q.from]
    BY <1>3 DEF HandleVoteRequest
  <2> HIDE DEF c, d, v
  <2>4. /\ v \in Raft /\ v.term = d.term /\ v.state = d.state
        /\ v.armed = d.armed /\ v.votes = d.votes
    BY <1>1, <2>2, <2>3 DEF Raft
  <2>5. Evolves(c, v)
    BY <1>3, <2>2, <2>4 DEF Evolves, Coming, Short
  <2> QED BY <1>2, <2>2, <2>4, <2>5, EvolvesTrans DEF v
<1>4. CASE ~(q.term = c.term /\ VoteOk(s, q) /\ c.votedFor = Nobody)
  BY <1>2, <1>4 DEF HandleVoteRequest
<1> QED BY <1>3, <1>4

\* handle_append_entries_request, with the log it leaves.
LEMMA AppendEvolves ==
  ASSUME NEW s \in Raft, NEW q \in Request, NEW i \in Nat
  PROVE  LET h == HandleAppend(s, q)
             g == [h EXCEPT !.lastIndex = i]
         IN  /\ h \in Raft /\ Evolves(s, h) /\ (h.state # "leader" \/ s.state = "leader")
             /\ g \in Raft /\ Evolves(s, g) /\ (g.state # "leader" \/ s.state = "leader")
<1> DEFINE c == CatchUp(s, q.term)
           h == HandleAppend(s, q)
           g == [h EXCEPT !.lastIndex = i]
<1>1. q.term \in Nat
  BY DEF Request, Term
<1>2. c \in Raft /\ Evolves(s, c) /\ (c.state # "leader" \/ c = s)
  BY <1>1, CatchUpEvolves
<1>3. h \in Raft /\ Evolves(s, h) /\ (h.state # "leader" \/ s.state = "leader")
  <2>1. CASE q.term < s.term
    BY <2>1, EvolvesSame DEF HandleAppend
  <2>2. CASE ~(q.term < s.term)
    <3>1. h = [c EXCEPT !.armed = TRUE]
      BY <2>2 DEF HandleAppend
    <3> HIDE DEF c, h
    <3>2. /\ h \in Raft /\ h.term = c.term /\ h.votedFor = c.votedFor
          /\ h.state = c.state /\ h.armed /\ h.votes = c.votes
      BY <1>2, <3>1 DEF Raft
    <3>3. Evolves(s, h)
      BY <1>2, <3>2 DEF Evolves, Coming, Short
    <3> QED BY <1>2, <3>2, <3>3
  <2> QED BY <2>1, <2>2
<1> HIDE DEF h
<1>4. /\ g \in Raft /\ g.term = h.term /\ g.votedFor = h.votedFor
      /\ g.state = h.state /\ g.armed = h.armed /\ g.votes = h.votes
      /\ g.firing = h.firing
  BY <1>3 DEF Raft, Index
<1> HIDE DEF g
<1>5. Evolves(s, g)
  BY <1>3, <1>4 DEF Evolves, Coming, Short
<1> QED BY <1>3, <1>4, <1>5 DEF h, g

\* handle_vote_response: being elected takes a granted response, of the term
\* in which the node becomes leader.
LEMMA VoteResponseEvolves ==
  ASSUME NEW s \in Raft, NEW r \in Response
  PROVE  LET v == HandleVoteResponse(s, r)
         IN  /\ v \in Raft /\ Evolves(s, v)
             /\ Short(s) /\ s.state # "leader" /\ v.state = "leader"
                  => r.ok /\ r.term = v.term
<1> DEFINE c == CatchUp(s, r.term)
           votes == IF r.ok THEN c.votes + 1 ELSE c.votes
           v == HandleVoteResponse(s, r)
<1>1. r.term \in Nat /\ r.ok \in BOOLEAN
  BY DEF Response, Term
<1>2. s.term \in Nat /\ s.votes \in Nat
  BY DEF Raft, Term
<1>3. CASE s.state # "candidate" \/ r.term < s.term
  BY <1>3, EvolvesSame DEF HandleVoteResponse
<1>4. CASE ~(s.state # "candidate" \/ r.term < s.term)
  <2>1. /\ c \in Raft /\ Evolves(s, c) /\ c.term = r.term
        /\ c.state # "leader"
    <3>1. /\ c \in Raft /\ Evolves(s, c)
          /\ c.term = IF r.term > s.term THEN r.term ELSE s.term
          /\ c.state # "leader" \/ c = s
      BY <1>1, CatchUpEvolves
    <3> HIDE DEF c
    <3> QED BY <1>1, <1>2, <1>4, <3>1
  <2>2. c.votes \in Nat /\ votes \in Nat /\ Majority \in Nat /\ Majority >= 2
    BY <2>1, <1>1, MajorityTwo DEF Raft
  <2>3. Short(s) => c.votes + 1 < Majority
    BY <2>1 DEF Evolves, Short
  <2>4. CASE votes + 1 >= Majority
    <3>1. v = [c EXCEPT !.votes = 0, !.state = "leader", !.armed = FALSE]
      BY <1>4, <2>4 DEF HandleVoteResponse
    <3>2. Short(s) => r.ok
      BY <2>2, <2>3, <2>4
    <3> HIDE DEF c, votes, v
    <3>3. /\ v \in Raft /\ v.term = c.term /\ v.votedFor = c.votedFor
          /\ v.state = "leader" /\ v.votes = 0
      BY <2>1, <3>1 DEF Raft
    <3>4. Evolves(s, v)
      BY <2>1, <2>2, <3>3 DEF Evolves, Coming, Short
    <3> QED BY <2>1, <3>2, <3>3, <3>4 DEF v
  <2>5. CASE ~(votes + 1 >= Majority)
    <3>1. v = [c EXCEPT !.votes = votes]
      BY <1>4, <2>5 DEF HandleVoteResponse
    <3> HIDE DEF c, votes, v
    <3>2. /\ v \in Raft /\ v.term = c.term /\ v.votedFor = c.votedFor
          /\ v.state = c.state /\ v.armed = c.armed /\ v.firing = c.firing
          /\ v.votes = votes
      BY <2>1, <2>2, <3>1 DEF Raft
    <3>3. Evolves(s, v)
      BY <2>1, <2>2, <2>5, <3>2 DEF Evolves, Coming, Short
    <3> QED BY <2>1, <3>2, <3>3 DEF v
  <2> QED BY <2>4, <2>5
<1> QED BY <1>3, <1>4

-----------------------------------------------------------------------------
(* From one node's record to the cluster.                                  *)

\* A step that no process dies in moves every node forward.
Forward == /\ raft' \in [Node -> Raft] /\ life' = life
           /\ \A k \in Node : Evolves(raft[k], raft'[k])

LEMMA CommandsType ==
  ASSUME NEW s, NEW t, NEW q \in Seq(Command)
  PROVE  q \o CommandsFor(s, t) \in Seq(Command)
<1>1. <<>> \in Seq(Command) /\ <<"sleep">> \in Seq(Command) /\ <<"append">> \in Seq(Command)
  BY DEF Command
<1>2. CommandsFor(s, t) \in Seq(Command)
  BY <1>1 DEF CommandsFor
<1> QED BY <1>2

LEMMA OneNode ==
  ASSUME TypeOK, NEW n \in Node, NEW s, Evolves(raft[n], s),
         raft' = [raft EXCEPT ![n] = s], life' = life
  PROVE  Forward /\ raft'[n] = s
<1>1. s \in Raft
  BY DEF Evolves
<1>2. raft' \in [Node -> Raft] /\ raft'[n] = s
  BY <1>1 DEF TypeOK
<1>3. ASSUME NEW k \in Node PROVE Evolves(raft[k], raft'[k])
  <2>1. CASE k = n
    BY <2>1, <1>2
  <2>2. CASE k # n
    <3>1. raft'[k] = raft[k] /\ raft[k] \in Raft
      BY <2>2 DEF TypeOK
    <3> QED BY <3>1, EvolvesSame
  <2> QED BY <2>1, <2>2
<1> QED BY <1>2, <1>3 DEF Forward

LEMMA BecomeForward ==
  ASSUME TypeOK, NEW n \in Node, NEW s, Evolves(raft[n], s), Become(n, s),
         life' = life
  PROVE  Forward /\ raft'[n] = s /\ cmds' \in Pairs(Seq(Command))
<1>1. Forward /\ raft'[n] = s
  BY OneNode DEF Become
<1> DEFINE row == [m \in Node |-> IF m = n THEN cmds[n][m]
                                  ELSE cmds[n][m] \o CommandsFor(raft[n], s)]
<1>2. row \in [Node -> Seq(Command)]
  <2>1. \A m \in Node : cmds[n][m] \in Seq(Command)
    BY DEF TypeOK, Pairs
  <2>2. \A m \in Node : cmds[n][m] \o CommandsFor(raft[n], s) \in Seq(Command)
    BY <2>1, CommandsType
  <2> QED BY <2>1, <2>2
<1>3. cmds' = [cmds EXCEPT ![n] = row]
  BY DEF Become
<1> HIDE DEF row
<1>4. cmds' \in Pairs(Seq(Command))
  BY <1>2, <1>3 DEF TypeOK, Pairs
<1> QED BY <1>1, <1>4

\* One cell of a table.
LEMMA Cell ==
  ASSUME NEW S, NEW f \in Pairs(S), NEW n \in Node, NEW m \in Node, NEW v \in S
  PROVE  /\ [f EXCEPT ![n][m] = v] \in Pairs(S)
         /\ \A a, b \in Node :
              [f EXCEPT ![n][m] = v][a][b] = IF a = n /\ b = m THEN v ELSE f[a][b]
BY DEF Pairs

\* The tables of the peer threads, after a write to one cell.
LEMMA ThreadCell ==
  ASSUME TypeOK, NEW n \in Node, NEW m \in Node, NEW v \in {"idle", "append", "build"},
         thread' = [thread EXCEPT ![n][m] = v]
  PROVE  /\ thread' \in Pairs({"idle", "append", "build"})
         /\ \A a, b \in Node : ~(a = n /\ b = m) => thread'[a][b] = thread[a][b]
<1> DEFINE Place == {"idle", "append", "build"}
<1>1. thread \in Pairs(Place) /\ v \in Place
  BY DEF TypeOK
<1> HIDE DEF Place
<1>2. /\ thread' \in Pairs(Place)
      /\ \A a, b \in Node : thread'[a][b] = IF a = n /\ b = m THEN v ELSE thread[a][b]
  BY <1>1 DEF Pairs
<1> QED BY <1>2 DEF Place

LEMMA CmdsCell ==
  ASSUME TypeOK, NEW n \in Node, NEW m \in Node, NEW v \in Seq(Command),
         cmds' = [cmds EXCEPT ![n][m] = v]
  PROVE  cmds' \in Pairs(Seq(Command))
<1>1. cmds \in Pairs(Seq(Command))
  BY DEF TypeOK
<1> QED BY <1>1, Cell

LEMMA RpcCell ==
  ASSUME TypeOK, NEW n \in Node, NEW m \in Node, NEW v \in Call \cup {NoRpc},
         SetCall(n, m, v)
  PROVE  /\ rpc' \in Pairs(Call \cup {NoRpc})
         /\ \A a, b \in Node : ~(a = n /\ b = m) => rpc'[a][b] = rpc[a][b]
         /\ rpc'[n][m] = v
<1> DEFINE C == Call \cup {NoRpc}
<1>1. rpc \in Pairs(C) /\ rpc' = [rpc EXCEPT ![n][m] = v] /\ v \in C
  BY DEF TypeOK, SetCall
<1> HIDE DEF C
<1>2. /\ rpc' \in Pairs(C)
      /\ \A a, b \in Node : rpc'[a][b] = IF a = n /\ b = m THEN v ELSE rpc[a][b]
  BY <1>1 DEF Pairs
<1> QED BY <1>2 DEF C

\* What a call says of itself.
LEMMA CallFields ==
  ASSUME NEW c \in Call
  PROVE  /\ c.status # "newterm" => c.req \in Request
         /\ c.status = "newterm" => c.term \in Nat
         /\ c.status = "answered" => c.resp \in Response
BY DEF Call, Term

\* CallInv is kept when one thread's call and place change to what it allows.
CallAllowed(n, m, c, th) ==
  /\ c # NoRpc /\ c.status # "newterm" => c.req.from = n
  /\ c # NoRpc /\ c.status = "answered" /\ c.req.kind = "vote" /\ c.resp.ok =>
       \E g \in grants' : g.voter = m /\ g.candidate = n /\ g.term = c.resp.term

LEMMA CallStep ==
  ASSUME CallInv, NEW n \in Node, NEW m \in Node, m # n, grants \subseteq grants',
         \A a, b \in Node : ~(a = n /\ b = m) =>
           rpc'[a][b] = rpc[a][b] /\ thread'[a][b] = thread[a][b],
         CallAllowed(n, m, rpc'[n][m], thread'[n][m])
  PROVE  CallInv'
<1> SUFFICES ASSUME NEW a \in Node, NEW b \in Node
    PROVE  (/\ rpc[a][b] # NoRpc \/ thread[a][b] # "idle" => b # a
            /\ rpc[a][b] # NoRpc /\ rpc[a][b].status # "newterm" => rpc[a][b].req.from = a
            /\ /\ rpc[a][b] # NoRpc /\ rpc[a][b].status = "answered"
               /\ rpc[a][b].req.kind = "vote" /\ rpc[a][b].resp.ok
               => \E g \in grants : /\ g.voter = b /\ g.candidate = a
                                    /\ g.term = rpc[a][b].resp.term)'
  BY DEF CallInv
<1>1. CASE a = n /\ b = m
  BY <1>1 DEF CallAllowed
<1>2. CASE ~(a = n /\ b = m)
  BY <1>2 DEF CallInv
<1> QED BY <1>1, <1>2

-----------------------------------------------------------------------------
(* What the steps keep: types, the calls, and that nodes move forward.     *)

\* Everything a step owes but what it does to the votes given.
Keeps == TypeOK' /\ CallInv' /\ Forward

LEMMA CallsUnchanged ==
  ASSUME CallInv, UNCHANGED <<rpc, thread, grants>>
  PROVE  CallInv'
BY DEF CallInv

LEMMA TimerDueKeeps ==
  ASSUME TypeOK, CallInv, NEW n \in Node, TimerDue(n)
  PROVE  Keeps
<1> DEFINE s == [raft[n] EXCEPT !.armed = FALSE, !.firing = TRUE]
<1>1. raft[n] \in Raft
  BY DEF TypeOK
<1>2. /\ s \in Raft /\ s.term = raft[n].term /\ s.votedFor = raft[n].votedFor
      /\ s.firing /\ s.votes = raft[n].votes
  BY <1>1 DEF Raft
<1>3. raft' = [raft EXCEPT ![n] = s]
  BY DEF TimerDue, TypeOK
<1> HIDE DEF s
<1>4. Evolves(raft[n], s)
  BY <1>1, <1>2 DEF Evolves, Coming, Short, Raft, Term
<1>5. Forward
  BY <1>3, <1>4, OneNode DEF TimerDue
<1>6. TypeOK'
  BY <1>5 DEF Forward, TimerDue, TypeOK
<1> QED BY <1>5, <1>6, CallsUnchanged DEF Keeps, TimerDue

LEMMA ReplicateKeeps ==
  ASSUME TypeOK, CallInv, NEW n \in Node, Replicate(n)
  PROVE  Keeps
<1> DEFINE s == [raft[n] EXCEPT !.lastIndex = raft[n].lastIndex + 1]
<1>1. raft[n] \in Raft
  BY DEF TypeOK
<1>2. /\ s \in Raft /\ s.term = raft[n].term /\ s.votedFor = raft[n].votedFor
      /\ s.votes = raft[n].votes /\ s.state = raft[n].state
      /\ s.armed = raft[n].armed /\ s.firing = raft[n].firing
  BY <1>1 DEF Raft, Index
<1>3. raft' = [raft EXCEPT ![n] = s]
  BY DEF Replicate, TypeOK
<1> HIDE DEF s
<1>4. Evolves(raft[n], s)
  BY <1>1, <1>2 DEF Evolves, Coming, Short, Raft, Term
<1>5. Forward
  BY <1>3, <1>4, OneNode DEF Replicate
<1>6. TypeOK'
  BY <1>5 DEF Forward, Replicate, TypeOK
<1> QED BY <1>5, <1>6, CallsUnchanged DEF Keeps, Replicate

LEMMA ElectionTimeoutKeeps ==
  ASSUME TypeOK, CallInv, NEW n \in Node, ElectionTimeout(n)
  PROVE  Keeps
<1> DEFINE t == raft[n].term + 1
           s == [raft[n] EXCEPT !.term = t, !.saved = t,
                                !.state = "candidate",
                                !.armed = TRUE, !.firing = FALSE]
           row == [m \in Node |-> IF m = n THEN cmds[n][m]
                                  ELSE Append(cmds[n][m], "election")]
<1>1. raft[n] \in Raft /\ raft[n].term \in Nat
  BY DEF TypeOK, Raft, Term
<1>2. t \in Nat /\ t > raft[n].term
  BY <1>1
<1>3. raft' = [raft EXCEPT ![n] = s]
  BY DEF ElectionTimeout, TypeOK
<1> HIDE DEF t
<1>10. s \in Raft /\ s.term = t /\ s.armed /\ s.votes = raft[n].votes
  BY <1>1, <1>2 DEF Raft, Term
<1> HIDE DEF s
<1>4. Evolves(raft[n], s)
  BY <1>1, <1>2, <1>10 DEF Evolves, Coming, Short
<1>5. Forward
  BY <1>3, <1>4, OneNode DEF ElectionTimeout
<1>6. row \in [Node -> Seq(Command)]
  <2>1. \A m \in Node : cmds[n][m] \in Seq(Command)
    BY DEF TypeOK, Pairs
  <2>2. \A m \in Node : Append(cmds[n][m], "election") \in Seq(Command)
    BY <2>1 DEF Command
  <2> QED BY <2>1, <2>2
<1>7. cmds' = [cmds EXCEPT ![n] = row]
  BY DEF ElectionTimeout
<1> HIDE DEF row
<1>8. cmds' \in Pairs(Seq(Command))
  BY <1>6, <1>7 DEF TypeOK, Pairs
<1>9. TypeOK'
  BY <1>5, <1>8 DEF Forward, ElectionTimeout, TypeOK
<1> QED BY <1>5, <1>9, CallsUnchanged DEF Keeps, ElectionTimeout

-----------------------------------------------------------------------------
(* The peer threads.                                                       *)

LEMMA Still ==
  ASSUME TypeOK, UNCHANGED <<raft, life>>
  PROVE  Forward
BY EvolvesSame DEF TypeOK, Forward

LEMMA RequestNowType ==
  ASSUME TypeOK, NEW n \in Node, NEW kind \in {"vote", "append"}
  PROVE  /\ RequestNow(n, kind) \in Request /\ RequestNow(n, kind).from = n
         /\ [status |-> "sent", req |-> RequestNow(n, kind)] \in Call
<1>1. raft[n] \in Raft
  BY DEF TypeOK
<1>2. RequestNow(n, kind) \in Request /\ RequestNow(n, kind).from = n
  BY <1>1 DEF RequestNow, Request, Raft
<1> HIDE DEF RequestNow
<1> QED BY <1>2 DEF Call

LEMMA PopType ==
  ASSUME TypeOK, NEW n \in Node, NEW m \in Node, PopCommand(n, m)
  PROVE  /\ cmds' \in Pairs(Seq(Command)) /\ m # n
         /\ Head(cmds[n][m]) \in Command
<1>1. cmds[n][m] \in Seq(Command) /\ cmds[n][m] # <<>>
  BY DEF TypeOK, Pairs, PopCommand
<1> DEFINE rest == Tail(cmds[n][m])
<1>2. rest \in Seq(Command) /\ Head(cmds[n][m]) \in Command
  BY <1>1
<1>3. cmds' = [cmds EXCEPT ![n][m] = rest]
  BY DEF PopCommand
<1> HIDE DEF rest
<1> QED BY <1>2, <1>3, CmdsCell DEF PopCommand, Free

LEMMA StartElectionKeeps ==
  ASSUME TypeOK, CallInv, NEW n \in Node, NEW m \in Node, StartElection(n, m)
  PROVE  Keeps
<1> DEFINE c == [status |-> "sent", req |-> RequestNow(n, "vote")]
<1>1. c \in Call /\ c.status = "sent" /\ c.req.from = n
  BY RequestNowType
<1>2. cmds' \in Pairs(Seq(Command)) /\ m # n
  BY PopType DEF StartElection
<1>3. /\ thread' \in Pairs({"idle", "append", "build"})
      /\ \A a, b \in Node : ~(a = n /\ b = m) => thread'[a][b] = thread[a][b]
  BY ThreadCell DEF StartElection
<1>4. rpc[n][m] = NoRpc /\ UNCHANGED <<raft, late, life, beats, grants>>
  BY DEF StartElection, PopCommand, Free
<1>5. /\ rpc' \in Pairs(Call \cup {NoRpc})
      /\ \A a, b \in Node : ~(a = n /\ b = m) => rpc'[a][b] = rpc[a][b]
      /\ rpc'[n][m] = NoRpc \/ rpc'[n][m] = c
  <2>1. CASE SetCall(n, m, c)
    <3>1. c \in Call \cup {NoRpc}
      BY <1>1
    <3> HIDE DEF c
    <3> QED BY <2>1, <3>1, RpcCell
  <2>2. CASE UNCHANGED rpc
    BY <2>2, <1>4 DEF TypeOK
  <2> QED BY <2>1, <2>2 DEF StartElection
<1> HIDE DEF c
<1>6. TypeOK'
  BY <1>2, <1>3, <1>4, <1>5 DEF TypeOK
<1>7. CallAllowed(n, m, rpc'[n][m], thread'[n][m])
  BY <1>1, <1>5 DEF CallAllowed
<1>8. CallInv'
  BY <1>2, <1>3, <1>4, <1>5, <1>7, CallStep
<1> QED BY <1>4, <1>6, <1>8, Still DEF Keeps

LEMMA SwitchAppendKeeps ==
  ASSUME TypeOK, CallInv, NEW n \in Node, NEW m \in Node, SwitchAppend(n, m)
  PROVE  Keeps
<1> DEFINE v == IF Head(cmds[n][m]) = "append" THEN "append" ELSE "idle"
<1>1. cmds' \in Pairs(Seq(Command)) /\ m # n
  BY PopType DEF SwitchAppend
<1>2. v \in {"idle", "append", "build"} /\ thread' = [thread EXCEPT ![n][m] = v]
  BY DEF SwitchAppend
<1> HIDE DEF v
<1>3. /\ thread' \in Pairs({"idle", "append", "build"})
      /\ \A a, b \in Node : ~(a = n /\ b = m) => thread'[a][b] = thread[a][b]
  BY <1>2, ThreadCell
<1>4. UNCHANGED <<raft, rpc, late, life, beats, grants>> /\ rpc[n][m] = NoRpc
  BY DEF SwitchAppend, PopCommand, Free
<1>5. TypeOK'
  BY <1>1, <1>3, <1>4 DEF TypeOK
<1>6. CallInv'
  BY <1>1, <1>3, <1>4, CallStep DEF CallAllowed
<1> QED BY <1>4, <1>5, <1>6, Still DEF Keeps

LEMMA BeginAppendKeeps ==
  ASSUME TypeOK, CallInv, NEW n \in Node, NEW m \in Node, BeginAppend(n, m)
  PROVE  Keeps
<1>1. /\ thread' \in Pairs({"idle", "append", "build"})
      /\ \A a, b \in Node : ~(a = n /\ b = m) => thread'[a][b] = thread[a][b]
  BY ThreadCell DEF BeginAppend
<1>2. /\ UNCHANGED <<raft, cmds, rpc, late, life, beats, grants>>
      /\ rpc[n][m] = NoRpc /\ m # n
  BY DEF BeginAppend, Free
<1>3. TypeOK'
  BY <1>1, <1>2 DEF TypeOK
<1>4. CallInv'
  BY <1>1, <1>2, CallStep DEF CallAllowed
<1> QED BY <1>2, <1>3, <1>4, Still DEF Keeps

LEMMA SendAppendKeeps ==
  ASSUME TypeOK, CallInv, NEW n \in Node, NEW m \in Node, SendAppend(n, m)
  PROVE  Keeps
<1> DEFINE c == [status |-> "sent", req |-> RequestNow(n, "append")]
<1>1. c \in Call /\ c.status = "sent" /\ c.req.from = n
  BY RequestNowType
<1>2. m # n
  BY DEF CallInv, SendAppend
<1>3. /\ thread' \in Pairs({"idle", "append", "build"})
      /\ \A a, b \in Node : ~(a = n /\ b = m) => thread'[a][b] = thread[a][b]
  BY ThreadCell DEF SendAppend
<1>4. SetCall(n, m, c)
  BY DEF SendAppend
<1> HIDE DEF c
<1>0. c \in Call \cup {NoRpc}
  BY <1>1
<1>5. /\ rpc' \in Pairs(Call \cup {NoRpc})
      /\ \A a, b \in Node : ~(a = n /\ b = m) => rpc'[a][b] = rpc[a][b]
      /\ rpc'[n][m] = c
  BY <1>0, <1>4, RpcCell
<1>6. UNCHANGED <<raft, cmds, late, life, grants>> /\ beats' = beats + 1
  BY DEF SendAppend
<1>7. TypeOK'
  BY <1>3, <1>5, <1>6 DEF TypeOK
<1>8. CallAllowed(n, m, rpc'[n][m], thread'[n][m])
  BY <1>1, <1>5 DEF CallAllowed
<1>9. CallInv'
  BY <1>2, <1>3, <1>5, <1>6, <1>8, CallStep
<1> QED BY <1>6, <1>7, <1>9, Still DEF Keeps

\* A step after which n's thread for m waits for no response.
LEMMA HangUp ==
  ASSUME TypeOK, CallInv, NEW n \in Node, NEW m \in Node, rpc[n][m] # NoRpc,
         SetCall(n, m, NoRpc), UNCHANGED grants,
         \A a, b \in Node : ~(a = n /\ b = m) => thread'[a][b] = thread[a][b]
  PROVE  rpc' \in Pairs(Call \cup {NoRpc}) /\ CallInv'
<1>1. /\ rpc' \in Pairs(Call \cup {NoRpc})
      /\ \A a, b \in Node : ~(a = n /\ b = m) => rpc'[a][b] = rpc[a][b]
      /\ rpc'[n][m] = NoRpc
  BY RpcCell
<1>2. m # n
  BY DEF CallInv
<1> QED BY <1>1, <1>2, CallStep DEF CallAllowed

LEMMA RpcFailsKeeps ==
  ASSUME TypeOK, CallInv, NEW n \in Node, NEW m \in Node, RpcFails(n, m)
  PROVE  Keeps
<1>1. /\ rpc[n][m] # NoRpc /\ SetCall(n, m, NoRpc) /\ rpc[n][m].status # "newterm"
      /\ UNCHANGED <<raft, thread, life, beats, grants>>
  BY DEF RpcFails
<1>2. rpc' \in Pairs(Call \cup {NoRpc}) /\ CallInv'
  BY <1>1, HangUp
<1>3. rpc[n][m].req \in Request
  <2>1. rpc[n][m] \in Call
    BY <1>1 DEF TypeOK, Pairs
  <2> QED BY <1>1, <2>1, CallFields
<1>4. late' \in [Node -> SUBSET Request]
  <2> DEFINE q == rpc[n][m].req
  <2>1. late' = late \/ late' = [late EXCEPT ![m] = late[m] \cup {q}]
    BY DEF RpcFails
  <2> HIDE DEF q
  <2>2. q \in Request
    BY <1>3 DEF q
  <2> QED BY <2>1, <2>2 DEF TypeOK
<1>5. cmds' \in Pairs(Seq(Command))
  <2> DEFINE v == <<"election">> \o cmds[n][m]
  <2>1. cmds[n][m] \in Seq(Command) /\ <<"election">> \in Seq(Command)
    BY DEF TypeOK, Pairs, Command
  <2>2. v \in Seq(Command)
    BY <2>1
  <2>3. cmds' = cmds \/ cmds' = [cmds EXCEPT ![n][m] = v]
    BY DEF RpcFails
  <2> HIDE DEF v
  <2>4. CASE cmds' = cmds
    BY <2>4 DEF TypeOK
  <2>5. CASE cmds' = [cmds EXCEPT ![n][m] = v]
    BY <2>2, <2>5, CmdsCell
  <2> QED BY <2>3, <2>4, <2>5
<1>6. TypeOK'
  BY <1>1, <1>2, <1>4, <1>5 DEF TypeOK
<1> QED BY <1>1, <1>2, <1>6, Still DEF Keeps

LEMMA VoteResponseKeeps ==
  ASSUME TypeOK, CallInv, NEW n \in Node, NEW m \in Node, VoteResponse(n, m)
  PROVE  Keeps
<1> DEFINE r == rpc[n][m].resp
<1>1. /\ rpc[n][m] # NoRpc /\ SetCall(n, m, NoRpc)
      /\ rpc[n][m].status = "answered"
      /\ Become(n, HandleVoteResponse(raft[n], r))
      /\ UNCHANGED <<thread, late, life, beats, grants>>
  BY DEF VoteResponse
<1>2. rpc' \in Pairs(Call \cup {NoRpc}) /\ CallInv'
  BY <1>1, HangUp
<1>3. r \in Response /\ raft[n] \in Raft
  <2>1. rpc[n][m] \in Call /\ raft[n] \in Raft
    BY <1>1 DEF TypeOK, Pairs
  <2> QED BY <1>1, <2>1, CallFields
<1> HIDE DEF r
<1>4. Evolves(raft[n], HandleVoteResponse(raft[n], r))
  BY <1>3, VoteResponseEvolves
<1>5. Forward /\ cmds' \in Pairs(Seq(Command))
  BY <1>1, <1>4, BecomeForward
<1>6. TypeOK'
  BY <1>1, <1>2, <1>5 DEF TypeOK, Forward
<1> QED BY <1>2, <1>5, <1>6 DEF Keeps

LEMMA AppendResponseKeeps ==
  ASSUME TypeOK, CallInv, NEW n \in Node, NEW m \in Node, AppendResponse(n, m)
  PROVE  Keeps
<1> DEFINE r == rpc[n][m].resp
           c == [status |-> "newterm", term |-> r.term]
<1>1. /\ rpc[n][m] # NoRpc /\ rpc[n][m].status = "answered"
      /\ UNCHANGED <<raft, cmds, late, life, beats, grants>>
      /\ \/ SetCall(n, m, c) /\ thread' = [thread EXCEPT ![n][m] = "idle"]
         \/ SetCall(n, m, NoRpc) /\ UNCHANGED thread
  BY DEF AppendResponse
<1>2. m # n
  BY <1>1 DEF CallInv
<1>3. c \in Call \cup {NoRpc} /\ c.status = "newterm"
  <2>1. rpc[n][m] \in Call
    BY <1>1 DEF TypeOK, Pairs
  <2>2. r \in Response
    BY <1>1, <2>1, CallFields
  <2> QED BY <2>2 DEF Call, Response
<1> HIDE DEF c
<1>4. CASE SetCall(n, m, c) /\ thread' = [thread EXCEPT ![n][m] = "idle"]
  <2>1. /\ thread' \in Pairs({"idle", "append", "build"})
        /\ \A a, b \in Node : ~(a = n /\ b = m) => thread'[a][b] = thread[a][b]
    BY <1>4, ThreadCell
  <2>2. /\ rpc' \in Pairs(Call \cup {NoRpc})
        /\ \A a, b \in Node : ~(a = n /\ b = m) => rpc'[a][b] = rpc[a][b]
        /\ rpc'[n][m] = c
    BY <1>3, <1>4, RpcCell
  <2>3. CallInv'
    BY <1>1, <1>2, <1>3, <2>1, <2>2, CallStep DEF CallAllowed
  <2>4. TypeOK'
    BY <1>1, <2>1, <2>2 DEF TypeOK
  <2> QED BY <1>1, <2>3, <2>4, Still DEF Keeps
<1>5. CASE SetCall(n, m, NoRpc) /\ UNCHANGED thread
  <2>1. rpc' \in Pairs(Call \cup {NoRpc}) /\ CallInv'
    BY <1>1, <1>5, HangUp
  <2>2. TypeOK'
    BY <1>1, <1>5, <2>1 DEF TypeOK
  <2> QED BY <1>1, <2>1, <2>2, Still DEF Keeps
<1> QED BY <1>1, <1>4, <1>5

LEMMA NewTermKeeps ==
  ASSUME TypeOK, CallInv, NEW n \in Node, NEW m \in Node, NewTerm(n, m)
  PROVE  Keeps
<1> DEFINE t == rpc[n][m].term
<1>1. /\ rpc[n][m] # NoRpc /\ SetCall(n, m, NoRpc)
      /\ rpc[n][m].status = "newterm"
      /\ Become(n, StepDown(raft[n], t))
      /\ UNCHANGED <<thread, late, life, beats, grants>>
  BY DEF NewTerm
<1>2. rpc' \in Pairs(Call \cup {NoRpc}) /\ CallInv'
  BY <1>1, HangUp
<1>3. t \in Nat /\ raft[n] \in Raft
  <2>1. rpc[n][m] \in Call /\ raft[n] \in Raft
    BY <1>1 DEF TypeOK, Pairs
  <2> QED BY <1>1, <2>1, CallFields
<1> HIDE DEF t
<1>4. Evolves(raft[n], StepDown(raft[n], t))
  BY <1>3, StepDownEvolves
<1>5. Forward /\ cmds' \in Pairs(Seq(Command))
  BY <1>1, <1>4, BecomeForward
<1>6. TypeOK'
  BY <1>1, <1>2, <1>5 DEF TypeOK, Forward
<1> QED BY <1>2, <1>5, <1>6 DEF Keeps

-----------------------------------------------------------------------------
(* The votes given.                                                        *)

\* A step that gives no vote leaves every vote given behind its voter.
LEMMA GrantsKept ==
  ASSUME TypeOK, GrantInv, Forward, NEW g \in grants
  PROVE  /\ g.life <= life'[g.voter]
         /\ g.life = life'[g.voter] =>
              \/ g.term < raft'[g.voter].term
              \/ g.term = raft'[g.voter].term /\ g.candidate = raft'[g.voter].votedFor
<1> DEFINE v == g.voter
<1>1. v \in Node /\ g.term \in Nat /\ g.candidate \in Node
  BY DEF TypeOK, Grant, Term
<1>2. /\ raft[v].term \in Nat /\ raft'[v].term \in Nat
      /\ Evolves(raft[v], raft'[v]) /\ life' = life
  BY <1>1 DEF TypeOK, Forward, Raft, Term
<1>3. /\ g.life <= life[v]
      /\ g.life = life[v] =>
           \/ g.term < raft[v].term
           \/ g.term = raft[v].term /\ g.candidate = raft[v].votedFor
  BY DEF GrantInv
<1>4. g.candidate # Nobody
  BY <1>1, ElectionAssumption
<1> HIDE DEF v
<1>5. ASSUME g.life = life[v], g.term < raft[v].term
      PROVE  g.term < raft'[v].term
  BY <1>1, <1>2, <1>5 DEF Evolves
<1>6. ASSUME g.life = life[v], g.term = raft[v].term, g.candidate = raft[v].votedFor
      PROVE  \/ g.term < raft'[v].term
             \/ g.term = raft'[v].term /\ g.candidate = raft'[v].votedFor
  BY <1>1, <1>2, <1>4, <1>6 DEF Evolves
<1>7. /\ g.life <= life'[v]
      /\ g.life = life'[v] =>
           \/ g.term < raft'[v].term
           \/ g.term = raft'[v].term /\ g.candidate = raft'[v].votedFor
  BY <1>2, <1>3, <1>5, <1>6
<1> QED BY <1>7 DEF v

LEMMA NoVote ==
  ASSUME TypeOK, GrantInv, VoteOnce, Forward, UNCHANGED grants
  PROVE  GrantInv' /\ VoteOnce'
<1>1. GrantInv'
  BY GrantsKept DEF GrantInv
<1>2. VoteOnce'
  BY DEF VoteOnce
<1> QED BY <1>1, <1>2

\* The vote of a node's current term goes to the candidate in voted_for_.
LEMMA OneVote ==
  ASSUME TypeOK, GrantInv, VoteOnce, Forward, NEW m \in Node, NEW t \in Nat,
         NEW c \in Node, raft'[m].term = t, raft'[m].votedFor = c,
         grants' = grants \cup {[voter |-> m, life |-> life[m], term |-> t, candidate |-> c]}
  PROVE  GrantInv' /\ VoteOnce'
<1> DEFINE new == [voter |-> m, life |-> life[m], term |-> t, candidate |-> c]
<1>1. /\ new.voter = m /\ new.life = life[m] /\ new.term = t /\ new.candidate = c
      /\ grants' = grants \cup {new} /\ life' = life /\ life[m] \in Nat
  BY DEF Forward, TypeOK
<1> HIDE DEF new
<1>2. GrantInv'
  <2>1. \A g \in grants :
          /\ g.life <= life'[g.voter]
          /\ g.life = life'[g.voter] =>
               \/ g.term < raft'[g.voter].term
               \/ g.term = raft'[g.voter].term /\ g.candidate = raft'[g.voter].votedFor
    BY GrantsKept
  <2>2. /\ new.life <= life'[new.voter]
        /\ new.term = raft'[new.voter].term /\ new.candidate = raft'[new.voter].votedFor
    BY <1>1
  <2> QED BY <1>1, <2>1, <2>2 DEF GrantInv
<1>3. ASSUME NEW h \in grants, h.voter = m, h.life = life[m], h.term = t
      PROVE  h.candidate = c
  <2>1. /\ h.life = life'[h.voter] =>
             \/ h.term < raft'[h.voter].term
             \/ h.candidate = raft'[h.voter].votedFor
    BY GrantsKept
  <2> QED BY <1>1, <1>3, <2>1
<1>4. VoteOnce'
  <2> SUFFICES ASSUME NEW g \in grants', NEW h \in grants',
                      g.voter = h.voter, g.life = h.life, g.term = h.term
               PROVE  g.candidate = h.candidate
    BY DEF VoteOnce
  <2>1. CASE g \in grants /\ h \in grants
    BY <2>1 DEF VoteOnce
  <2>2. CASE g = new /\ h \in grants
    BY <1>1, <1>3, <2>2
  <2>3. CASE h = new /\ g \in grants
    BY <1>1, <1>3, <2>3
  <2>4. CASE g = new /\ h = new
    BY <2>4
  <2> QED BY <1>1, <2>1, <2>2, <2>3, <2>4
<1> QED BY <1>2, <1>4

-----------------------------------------------------------------------------
(* The rpc server.                                                         *)

\* What serving the request q leaves, and the response it may give.
LEMMA ServeKeeps ==
  ASSUME TypeOK, GrantInv, VoteOnce, NEW m \in Node, NEW q \in Request,
         NEW ok \in BOOLEAN, Serve(m, q, ok), life' = life
  PROVE  /\ Forward /\ cmds' \in Pairs(Seq(Command))
         /\ grants \subseteq grants' /\ grants' \subseteq Grant
         /\ GrantInv' /\ VoteOnce'
         /\ raft'[m].state # "leader" \/ raft[m].state = "leader"
         /\ \A k \in Node : k # m => raft'[k] = raft[k]
         /\ q.kind = "vote" /\ ok =>
              \E g \in grants' : g.voter = m /\ g.candidate = q.from
                                 /\ g.term = raft'[m].term
<1>1. raft[m] \in Raft /\ q.from \in Node /\ q.term \in Nat /\ q.lastIndex \in Nat
      /\ raft[m].lastIndex \in Nat /\ life[m] \in Nat
  BY DEF TypeOK, Request, Raft, Term, Index
<1>2. q.kind \in {"vote", "append"}
  BY DEF Request
<1>3. CASE q.kind = "vote"
  <2> DEFINE s == HandleVoteRequest(raft[m], q)
  <2>1. Become(m, s) /\ ok = Granted(raft'[m], q) /\ ServeVote(m, q)
    BY <1>3 DEF Serve, ServeVote
  <2>2. Evolves(raft[m], s) /\ (s.state # "leader" \/ s = raft[m])
    BY <1>1, VoteRequestEvolves
  <2> HIDE DEF s
  <2>3. Forward /\ raft'[m] = s /\ cmds' \in Pairs(Seq(Command))
    BY <2>1, <2>2, BecomeForward
  <2>4. \A k \in Node : k # m => raft'[k] = raft[k]
    BY <2>1 DEF Become, TypeOK
  <2>5. CASE ok
    <3> DEFINE new == [voter |-> m, life |-> life[m], term |-> q.term, candidate |-> q.from]
    <3>1. raft'[m].term = q.term /\ raft'[m].votedFor = q.from
      BY <2>1, <2>5 DEF Granted
    <3>2. grants' = grants \cup {new}
      BY <2>1, <2>3, <2>5 DEF ServeVote, s
    <3>3. GrantInv' /\ VoteOnce'
      BY <1>1, <2>3, <3>1, <3>2, OneVote
    <3>4. new \in Grant /\ grants \subseteq Grant
      BY <1>1 DEF Grant, TypeOK, Term
    <3>5. new.voter = m /\ new.candidate = q.from /\ new.term = raft'[m].term
      BY <3>1
    <3> HIDE DEF new
    <3>6. \E g \in grants' : g.voter = m /\ g.candidate = q.from /\ g.term = raft'[m].term
      BY <3>2, <3>5
    <3> QED BY <2>2, <2>3, <2>4, <3>2, <3>3, <3>4, <3>6
  <2>6. CASE ~ok
    <3>1. grants' = grants
      BY <2>1, <2>3, <2>6 DEF ServeVote, s
    <3>2. GrantInv' /\ VoteOnce'
      BY <2>3, <3>1, NoVote
    <3> QED BY <2>2, <2>3, <2>4, <2>6, <3>1, <3>2 DEF TypeOK
  <2> QED BY <2>5, <2>6
<1>4. CASE q.kind = "append"
  <2> DEFINE h == HandleAppend(raft[m], q)
  <2>1. ServeAppend(m, q, ok) /\ UNCHANGED grants
    BY <1>4 DEF Serve, ServeAppend
  <2>2. PICK i \in Nat : Become(m, h) \/ Become(m, [h EXCEPT !.lastIndex = i])
    BY <1>1, <2>1 DEF ServeAppend
  <2>3. PICK s : /\ Become(m, s) /\ Evolves(raft[m], s)
                 /\ s.state # "leader" \/ raft[m].state = "leader"
    BY <1>1, <2>2, AppendEvolves
  <2>4. Forward /\ raft'[m] = s /\ cmds' \in Pairs(Seq(Command))
    BY <2>3, BecomeForward
  <2>5. \A k \in Node : k # m => raft'[k] = raft[k]
    BY <2>3 DEF Become, TypeOK
  <2>6. GrantInv' /\ VoteOnce'
    BY <2>1, <2>4, NoVote
  <2> QED BY <1>4, <2>1, <2>3, <2>4, <2>5, <2>6 DEF TypeOK
<1> QED BY <1>2, <1>3, <1>4

LEMMA DeliverKeeps ==
  ASSUME TypeOK, CallInv, GrantInv, VoteOnce, NEW n \in Node, NEW m \in Node,
         Deliver(n, m)
  PROVE  Keeps /\ GrantInv' /\ VoteOnce'
<1> DEFINE q == rpc[n][m].req
<1>1. /\ rpc[n][m] # NoRpc /\ rpc[n][m].status = "sent"
      /\ UNCHANGED <<thread, late, life, beats>>
  BY DEF Deliver
<1>2. q \in Request /\ q.from = n /\ m # n
  <2>1. rpc[n][m] \in Call
    BY <1>1 DEF TypeOK, Pairs
  <2> QED BY <1>1, <2>1, CallFields DEF CallInv
<1>3. PICK ok \in BOOLEAN :
        /\ Serve(m, q, ok)
        /\ SetCall(n, m, [status |-> "answered", req |-> q,
                          resp |-> [term |-> raft'[m].term, ok |-> ok]])
  BY DEF Deliver
<1> HIDE DEF q
<1>4. /\ Forward /\ cmds' \in Pairs(Seq(Command))
      /\ grants \subseteq grants' /\ grants' \subseteq Grant
      /\ GrantInv' /\ VoteOnce'
      /\ q.kind = "vote" /\ ok =>
           \E g \in grants' : g.voter = m /\ g.candidate = q.from
                              /\ g.term = raft'[m].term
  BY <1>1, <1>2, <1>3, ServeKeeps
<1> DEFINE r == [term |-> raft'[m].term, ok |-> ok]
           c == [status |-> "answered", req |-> q, resp |-> r]
<1>5. r \in Response
  BY <1>4 DEF Forward, Raft, Response
<1>6. c \in Call
  <2> HIDE DEF r
  <2> QED BY <1>2, <1>5 DEF Call
<1>7. /\ c \in Call \cup {NoRpc} /\ c.status = "answered" /\ c.req = q
      /\ c.resp.term = raft'[m].term /\ c.resp.ok = ok /\ SetCall(n, m, c)
  BY <1>3, <1>6
<1> HIDE DEF c
<1>8. /\ rpc' \in Pairs(Call \cup {NoRpc})
      /\ \A a, b \in Node : ~(a = n /\ b = m) => rpc'[a][b] = rpc[a][b]
      /\ rpc'[n][m] = c
  BY <1>7, RpcCell
<1>9. CallAllowed(n, m, rpc'[n][m], thread'[n][m])
  BY <1>2, <1>4, <1>7, <1>8 DEF CallAllowed
<1>10. CallInv'
  BY <1>1, <1>2, <1>4, <1>8, <1>9, CallStep
<1>11. TypeOK'
  BY <1>1, <1>4, <1>8 DEF TypeOK, Forward
<1> QED BY <1>4, <1>10, <1>11 DEF Keeps

LEMMA DeliverLateKeeps ==
  ASSUME TypeOK, CallInv, GrantInv, VoteOnce, NEW m \in Node, DeliverLate(m)
  PROVE  Keeps /\ GrantInv' /\ VoteOnce'
<1>1. PICK q \in late[m], ok \in BOOLEAN :
        /\ Serve(m, q, ok)
        /\ late' = [late EXCEPT ![m] = late[m] \ {q}]
        /\ UNCHANGED <<thread, rpc, life, beats>>
  BY DEF DeliverLate
<1>2. q \in Request
  BY DEF TypeOK
<1>3. /\ Forward /\ cmds' \in Pairs(Seq(Command))
      /\ grants \subseteq grants' /\ grants' \subseteq Grant
      /\ GrantInv' /\ VoteOnce'
  BY <1>1, <1>2, ServeKeeps
<1>4. late' \in [Node -> SUBSET Request]
  BY <1>1 DEF TypeOK
<1>5. TypeOK'
  BY <1>1, <1>3, <1>4 DEF TypeOK, Forward
<1>6. CallInv'
  BY <1>1, <1>3 DEF CallInv
<1> QED BY <1>3, <1>5, <1>6 DEF Keeps

-----------------------------------------------------------------------------
(* Restarts.                                                               *)

\* A restarted node has an election timeout coming and no votes; every
\* other node is as it was, and the calls to the node may be lost.
LEMMA RestartKeeps ==
  ASSUME IInv, NEW n \in Node, Restart(n)
  PROVE  /\ IInv'
         /\ \A k \in Node : k # n => raft'[k] = raft[k]
         /\ raft'[n].state = "follower" /\ life'[n] # life[n]
<1> DEFINE s == [NewRaft EXCEPT !.term = raft[n].saved, !.saved = raft[n].saved,
                                !.votedFor = raft[n].votedFor,
                                !.lastIndex = raft[n].lastIndex]
<1>1. raft[n] \in Raft /\ life[n] \in Nat
  BY DEF IInv, TypeOK
<1>2. s \in Raft /\ s.armed /\ s.votes = 0 /\ s.state = "follower"
  BY <1>1 DEF Raft, NewRaft, Term, Index
<1>3. raft' = [raft EXCEPT ![n] = s]
  BY DEF Restart
<1> HIDE DEF s
<1>4. /\ raft' \in [Node -> Raft] /\ raft'[n] = s
      /\ \A k \in Node : k # n => raft'[k] = raft[k]
  BY <1>2, <1>3 DEF IInv, TypeOK
<1>5. /\ life' \in [Node -> Nat] /\ life'[n] = life[n] + 1
      /\ \A k \in Node : k # n => life'[k] = life[k]
  BY DEF Restart, IInv, TypeOK
<1>6. TimeoutComing' /\ \A k \in Node : Short(raft'[k])
  <2>1. Short(s)
    BY <1>2, MajorityTwo DEF Short
  <2>2. \A k \in Node : k # n => Short(raft'[k])
    BY <1>4 DEF IInv
  <2>3. \A k \in Node : raft'[k].state # "leader" => raft'[k].armed \/ raft'[k].firing
    BY <1>2, <1>4 DEF IInv, TimeoutComing
  <2> QED BY <1>4, <2>1, <2>2, <2>3 DEF TimeoutComing
<1>7. UNCHANGED <<beats, grants>>
  BY DEF Restart
<1>8. \A a, b \in Node :
        /\ rpc'[a][b] \in Call \cup {NoRpc}
        /\ rpc'[a][b] # NoRpc =>
             /\ rpc[a][b] # NoRpc
             /\ \/ rpc'[a][b] = rpc[a][b]
                \/ /\ rpc'[a][b].status = "lost" /\ rpc[a][b].status = "sent"
                   /\ rpc'[a][b].req = rpc[a][b].req
  <2> SUFFICES ASSUME NEW a \in Node, NEW b \in Node
      PROVE  /\ rpc'[a][b] \in Call \cup {NoRpc}
             /\ rpc'[a][b] # NoRpc =>
                  /\ rpc[a][b] # NoRpc
                  /\ \/ rpc'[a][b] = rpc[a][b]
                     \/ /\ rpc'[a][b].status = "lost" /\ rpc[a][b].status = "sent"
                        /\ rpc'[a][b].req = rpc[a][b].req
    OBVIOUS
  <2>1. rpc[a][b] \in Call \cup {NoRpc}
    BY DEF IInv, TypeOK, Pairs
  <2>2. rpc'[a][b] = IF a = n THEN NoRpc
                     ELSE IF b = n /\ rpc[a][b] # NoRpc /\ rpc[a][b].status = "sent"
                          THEN [rpc[a][b] EXCEPT !.status = "lost"]
                          ELSE rpc[a][b]
    BY DEF Restart
  <2>3. ASSUME rpc[a][b] # NoRpc, rpc[a][b].status = "sent",
               rpc'[a][b] = [rpc[a][b] EXCEPT !.status = "lost"]
        PROVE  /\ rpc'[a][b] \in Call /\ rpc'[a][b].status = "lost"
               /\ rpc'[a][b].req = rpc[a][b].req
    <3>1. rpc[a][b] \in [status : {"sent", "lost"}, req : Request]
      BY <2>1, <2>3 DEF Call
    <3>2. /\ rpc'[a][b] \in [status : {"sent", "lost"}, req : Request]
          /\ rpc'[a][b].status = "lost" /\ rpc'[a][b].req = rpc[a][b].req
      BY <2>3, <3>1
    <3> QED BY <3>2 DEF Call
  <2> QED BY <2>1, <2>2, <2>3
<1>9. rpc' \in Pairs(Call \cup {NoRpc})
  <2> DEFINE C == Call \cup {NoRpc}
  <2>1. \A a, b \in Node : rpc'[a][b] \in C
    BY <1>8
  <2>2. rpc' = [a \in Node |-> [b \in Node |-> rpc'[a][b]]]
    BY DEF Restart
  <2> HIDE DEF C
  <2>3. rpc' \in Pairs(C)
    BY <2>1, <2>2 DEF Pairs
  <2> QED BY <2>3 DEF C
<1>10. /\ thread' \in Pairs({"idle", "append", "build"})
       /\ \A a, b \in Node : thread'[a][b] # "idle" => thread[a][b] # "idle"
  BY DEF Restart, IInv, TypeOK, Pairs
<1>11. cmds' \in Pairs(Seq(Command)) /\ late' \in [Node -> SUBSET Request]
  <2> DEFINE none == [m \in Node |-> <<>>]
  <2>1. none \in [Node -> Seq(Command)] /\ cmds' = [cmds EXCEPT ![n] = none]
    BY DEF Restart
  <2> HIDE DEF none
  <2>2. cmds' \in Pairs(Seq(Command))
    BY <2>1 DEF IInv, TypeOK, Pairs
  <2> QED BY <2>2 DEF Restart, IInv, TypeOK
<1>12. TypeOK'
  BY <1>4, <1>5, <1>7, <1>9, <1>10, <1>11 DEF IInv, TypeOK
<1>13. CallInv'
  BY <1>7, <1>8, <1>10 DEF IInv, CallInv
<1>14. GrantInv'
  <2> SUFFICES ASSUME NEW g \in grants
      PROVE  /\ g.life <= life'[g.voter]
             /\ g.life = life'[g.voter] =>
                  \/ g.term < raft'[g.voter].term
                  \/ g.term = raft'[g.voter].term /\ g.candidate = raft'[g.voter].votedFor
    BY <1>7 DEF GrantInv
  <2>1. /\ g.voter \in Node /\ g.life \in Nat /\ g.life <= life[g.voter]
        /\ g.life = life[g.voter] =>
             \/ g.term < raft[g.voter].term
             \/ g.term = raft[g.voter].term /\ g.candidate = raft[g.voter].votedFor
    BY DEF IInv, TypeOK, Grant, GrantInv
  <2>2. CASE g.voter = n
    BY <1>1, <1>5, <2>1, <2>2
  <2>3. CASE g.voter # n
    BY <1>4, <1>5, <2>1, <2>3
  <2> QED BY <2>2, <2>3
<1>15. VoteOnce'
  BY <1>7 DEF IInv, VoteOnce
<1> QED BY <1>2, <1>4, <1>5, <1>6, <1>12, <1>13, <1>14, <1>15 DEF IInv

-----------------------------------------------------------------------------
(* The theorems.                                                           *)

\* The first state.
LEMMA InitIInv == Init => IInv
<1> SUFFICES ASSUME Init PROVE IInv
  OBVIOUS
<1>1. NewRaft \in Raft /\ NewRaft.armed /\ NewRaft.votes = 0
  BY DEF NewRaft, Raft, Term, Index
<1>2. raft = [n \in Node |-> NewRaft] /\ grants = {} /\ beats = 0
  BY DEF Init
<1> HIDE DEF NewRaft
<1>3. raft \in [Node -> Raft] /\ \A n \in Node : raft[n] = NewRaft
  BY <1>1, <1>2
<1>4. /\ cmds \in Pairs(Seq(Command)) /\ thread \in Pairs({"idle", "append", "build"})
      /\ \A n, m \in Node : thread[n][m] = "idle" /\ rpc[n][m] = NoRpc
  BY DEF Init, Pairs
<1>5. rpc \in Pairs(Call \cup {NoRpc})
  <2> DEFINE C == Call \cup {NoRpc}
  <2>1. NoRpc \in C /\ rpc = [n \in Node |-> [m \in Node |-> NoRpc]]
    BY DEF Init
  <2> HIDE DEF C
  <2>2. rpc \in Pairs(C)
    BY <2>1 DEF Pairs
  <2> QED BY <2>2 DEF C
<1>6. TypeOK
  BY <1>2, <1>3, <1>4, <1>5 DEF Init, TypeOK
<1>7. \A n \in Node : Short(raft[n])
  BY <1>1, <1>3, MajorityTwo DEF Short
<1>8. TimeoutComing /\ VoteOnce /\ GrantInv /\ CallInv
  BY <1>1, <1>2, <1>3, <1>4 DEF TimeoutComing, VoteOnce, GrantInv, CallInv
<1> QED BY <1>6, <1>7, <1>8 DEF IInv

\* Every step but a restart moves every node forward and keeps the votes.
LEMMA StepForward ==
  ASSUME IInv, Next, ~ \E n \in Node : Restart(n)
  PROVE  Keeps /\ GrantInv' /\ VoteOnce'
<1> USE DEF IInv
<1>1. ASSUME NEW n \in Node, TimerDue(n)
      PROVE  Keeps /\ GrantInv' /\ VoteOnce'
  BY <1>1, TimerDueKeeps, NoVote DEF Keeps, TimerDue
<1>2. ASSUME NEW n \in Node, ElectionTimeout(n)
      PROVE  Keeps /\ GrantInv' /\ VoteOnce'
  BY <1>2, ElectionTimeoutKeeps, NoVote DEF Keeps, ElectionTimeout
<1>3. ASSUME NEW n \in Node, Replicate(n)
      PROVE  Keeps /\ GrantInv' /\ VoteOnce'
  BY <1>3, ReplicateKeeps, NoVote DEF Keeps, Replicate
<1>4. ASSUME NEW n \in Node, DeliverLate(n)
      PROVE  Keeps /\ GrantInv' /\ VoteOnce'
  BY <1>4, DeliverLateKeeps
<1>5. ASSUME NEW n \in Node, NEW m \in Node, StartElection(n, m)
      PROVE  Keeps /\ GrantInv' /\ VoteOnce'
  BY <1>5, StartElectionKeeps, NoVote DEF Keeps, StartElection
<1>6. ASSUME NEW n \in Node, NEW m \in Node, SwitchAppend(n, m)
      PROVE  Keeps /\ GrantInv' /\ VoteOnce'
  BY <1>6, SwitchAppendKeeps, NoVote DEF Keeps, SwitchAppend
<1>7. ASSUME NEW n \in Node, NEW m \in Node, BeginAppend(n, m)
      PROVE  Keeps /\ GrantInv' /\ VoteOnce'
  BY <1>7, BeginAppendKeeps, NoVote DEF Keeps, BeginAppend
<1>8. ASSUME NEW n \in Node, NEW m \in Node, SendAppend(n, m)
      PROVE  Keeps /\ GrantInv' /\ VoteOnce'
  BY <1>8, SendAppendKeeps, NoVote DEF Keeps, SendAppend
<1>9. ASSUME NEW n \in Node, NEW m \in Node, VoteResponse(n, m)
      PROVE  Keeps /\ GrantInv' /\ VoteOnce'
  BY <1>9, VoteResponseKeeps, NoVote DEF Keeps, VoteResponse
<1>10. ASSUME NEW n \in Node, NEW m \in Node, AppendResponse(n, m)
       PROVE  Keeps /\ GrantInv' /\ VoteOnce'
  BY <1>10, AppendResponseKeeps, NoVote DEF Keeps, AppendResponse
<1>11. ASSUME NEW n \in Node, NEW m \in Node, NewTerm(n, m)
       PROVE  Keeps /\ GrantInv' /\ VoteOnce'
  BY <1>11, NewTermKeeps, NoVote DEF Keeps, NewTerm
<1>12. ASSUME NEW n \in Node, NEW m \in Node, RpcFails(n, m)
       PROVE  Keeps /\ GrantInv' /\ VoteOnce'
  BY <1>12, RpcFailsKeeps, NoVote DEF Keeps, RpcFails
<1>13. ASSUME NEW n \in Node, NEW m \in Node, Deliver(n, m)
       PROVE  Keeps /\ GrantInv' /\ VoteOnce'
  BY <1>13, DeliverKeeps
<1> QED BY <1>1, <1>2, <1>3, <1>4, <1>5, <1>6, <1>7, <1>8, <1>9, <1>10, <1>11,
           <1>12, <1>13 DEF Next, PeerStep

\* What a step that moves every node forward keeps of the invariant.
LEMMA ForwardKeeps ==
  ASSUME IInv, Forward
  PROVE  TimeoutComing' /\ \A n \in Node : Short(raft'[n])
<1>1. \A n \in Node : Coming(raft[n]) /\ Short(raft[n])
  BY DEF IInv, TimeoutComing, Coming
<1>2. \A n \in Node : Coming(raft'[n]) /\ Short(raft'[n])
  BY <1>1 DEF Forward, Evolves
<1> QED BY <1>2 DEF TimeoutComing, Coming

\* Every step keeps the inductive invariant.
THEOREM NextKeepsIInv == IInv /\ [Next]_vars => IInv'
<1> SUFFICES ASSUME IInv, [Next]_vars PROVE IInv'
  OBVIOUS
<1>1. CASE UNCHANGED vars
  BY <1>1 DEF IInv, vars, TypeOK, VoteOnce, TimeoutComing, GrantInv, CallInv
<1>2. CASE \E n \in Node : Restart(n)
  BY <1>2, RestartKeeps
<1>3. CASE Next /\ ~ \E n \in Node : Restart(n)
  <2>1. Keeps /\ GrantInv' /\ VoteOnce'
    BY <1>3, StepForward
  <2>2. TimeoutComing' /\ \A n \in Node : Short(raft'[n])
    BY <2>1, ForwardKeeps DEF Keeps
  <2> QED BY <2>1, <2>2 DEF Keeps, IInv
<1> QED BY <1>1, <1>2, <1>3

\* The inductive invariant holds in every reachable state.
THEOREM Invariance == Spec => []IInv
<1> QED BY InitIInv, NextKeepsIInv, PTL DEF Spec

\* Every variable keeps its type, whatever the bounds.
THEOREM TypeCorrect == Spec => []TypeOK
<1>1. IInv => TypeOK
  BY DEF IInv
<1> QED BY <1>1, Invariance, PTL

\* handle_vote_request gives one vote a term while its process lives.
THEOREM OneVoteATerm == Spec => []VoteOnce
<1>1. IInv => VoteOnce
  BY DEF IInv
<1> QED BY <1>1, Invariance, PTL

\* A node that is not leader never waits for ever: its timer is set or due.
THEOREM ElectionTimeoutComing == Spec => []TimeoutComing
<1>1. IInv => TimeoutComing
  BY DEF IInv
<1> QED BY <1>1, Invariance, PTL

\* No handler takes current_term_ back.
THEOREM TermsGrow == Spec => TermNeverBack
<1>1. ASSUME IInv, [Next]_vars
      PROVE  [\A n \in Node : life'[n] = life[n] => raft'[n].term >= raft[n].term]_vars
  <2>1. CASE UNCHANGED vars
    BY <2>1
  <2>2. CASE \E k \in Node : Restart(k)
    <3> SUFFICES ASSUME NEW n \in Node, life'[n] = life[n]
        PROVE  raft'[n].term >= raft[n].term
      OBVIOUS
    <3>1. PICK k \in Node : Restart(k)
      BY <2>2
    <3>2. raft'[n] = raft[n]
      BY <1>1, <3>1, RestartKeeps
    <3>3. raft[n].term \in Nat
      BY <1>1 DEF IInv, TypeOK, Raft, Term
    <3> QED BY <3>2, <3>3
  <2>3. CASE Next /\ ~ \E k \in Node : Restart(k)
    <3>1. Forward
      BY <1>1, <2>3, StepForward DEF Keeps
    <3> QED BY <3>1 DEF Forward, Evolves
  <2> QED BY <1>1, <2>1, <2>2, <2>3
<1> QED BY <1>1, Invariance, PTL DEF Spec, TermNeverBack

\* Only the count of a response makes a leader.
LEMMA OnlyVotesElect ==
  ASSUME IInv, Next, NEW n \in Node, raft[n].state # "leader",
         raft'[n].state = "leader"
  PROVE  \E m \in Node : VoteResponse(n, m)
<1> USE DEF IInv
<1>1. raft \in [Node -> Raft] /\ raft[n] \in Raft
  BY DEF TypeOK
<1>2. ASSUME UNCHANGED raft PROVE FALSE
  BY <1>2
<1>3. ASSUME NEW k \in Node, TimerDue(k) \/ ElectionTimeout(k) \/ Replicate(k)
      PROVE  FALSE
  <2>1. CASE k = n
    BY <1>1, <1>3, <2>1 DEF TimerDue, ElectionTimeout, Replicate, Raft
  <2>2. CASE k # n
    <3>1. raft'[n] = raft[n]
      BY <1>1, <1>3, <2>2 DEF TimerDue, ElectionTimeout, Replicate
    <3> QED BY <3>1
  <2> QED BY <2>1, <2>2
<1>4. ASSUME NEW k \in Node, Restart(k) PROVE FALSE
  BY <1>4, RestartKeeps
<1>5. ASSUME NEW k \in Node, DeliverLate(k) PROVE FALSE
  <2>1. PICK q \in late[k], ok \in BOOLEAN : Serve(k, q, ok) /\ life' = life
    BY <1>5 DEF DeliverLate
  <2>2. q \in Request
    BY DEF TypeOK
  <2>3. /\ raft'[k].state # "leader" \/ raft[k].state = "leader"
        /\ \A j \in Node : j # k => raft'[j] = raft[j]
    BY <2>1, <2>2, ServeKeeps
  <2> QED BY <2>3
<1>6. ASSUME NEW k \in Node, NEW m \in Node, Deliver(k, m) PROVE FALSE
  <2> DEFINE q == rpc[k][m].req
  <2>1. q \in Request
    <3>1. rpc[k][m] \in Call /\ rpc[k][m].status = "sent"
      BY <1>6 DEF TypeOK, Pairs, Deliver
    <3> QED BY <3>1, CallFields
  <2>2. PICK ok \in BOOLEAN : Serve(m, q, ok) /\ life' = life
    BY <1>6 DEF Deliver
  <2> HIDE DEF q
  <2>3. /\ raft'[m].state # "leader" \/ raft[m].state = "leader"
        /\ \A j \in Node : j # m => raft'[j] = raft[j]
    BY <2>1, <2>2, ServeKeeps
  <2> QED BY <2>3
<1>7. ASSUME NEW k \in Node, NEW m \in Node, NewTerm(k, m) PROVE FALSE
  <2> DEFINE t == rpc[k][m].term
  <2>1. t \in Nat /\ raft[k] \in Raft
    <3>1. rpc[k][m] \in Call /\ rpc[k][m].status = "newterm"
      BY <1>7 DEF TypeOK, Pairs, NewTerm
    <3> QED BY <3>1, <1>1, CallFields
  <2>2. raft' = [raft EXCEPT ![k] = StepDown(raft[k], t)]
    BY <1>7 DEF NewTerm, Become
  <2>3. StepDown(raft[k], t).state = "follower"
    BY <2>1, StepDownFields
  <2> HIDE DEF t
  <2>4. raft'[n] = IF n = k THEN StepDown(raft[k], t) ELSE raft[n]
    BY <1>1, <2>2
  <2> QED BY <2>3, <2>4
<1>8. ASSUME NEW k \in Node, NEW m \in Node, VoteResponse(k, m), k # n PROVE FALSE
  <2>1. raft'[n] = raft[n]
    BY <1>1, <1>8 DEF VoteResponse, Become
  <2> QED BY <2>1
<1>9. ASSUME NEW k \in Node, NEW m \in Node,
             \/ StartElection(k, m) \/ SwitchAppend(k, m) \/ BeginAppend(k, m)
             \/ SendAppend(k, m) \/ AppendResponse(k, m) \/ RpcFails(k, m)
      PROVE  FALSE
  BY <1>2, <1>9 DEF StartElection, SwitchAppend, BeginAppend, SendAppend,
                    AppendResponse, RpcFails
<1> QED BY <1>3, <1>4, <1>5, <1>6, <1>7, <1>8, <1>9 DEF Next, PeerStep

\* No node becomes leader of a term without another's vote of that term.
THEOREM LeadersAreElected == Spec => ElectedByGrant
<1>1. ASSUME IInv, [Next]_vars
      PROVE  [\A n \in Node :
                raft[n].state # "leader" /\ raft'[n].state = "leader" =>
                  \E g \in grants : /\ g.candidate = n /\ g.voter # n
                                    /\ g.term = raft'[n].term]_vars
  <2> SUFFICES ASSUME Next, NEW n \in Node, raft[n].state # "leader",
                      raft'[n].state = "leader"
      PROVE  \E g \in grants : /\ g.candidate = n /\ g.voter # n
                               /\ g.term = raft'[n].term
    BY <1>1
  <2>1. PICK m \in Node : VoteResponse(n, m)
    BY <1>1, OnlyVotesElect
  <2> DEFINE r == rpc[n][m].resp
             s == HandleVoteResponse(raft[n], r)
  <2>2. /\ rpc[n][m] # NoRpc /\ rpc[n][m].status = "answered"
        /\ rpc[n][m].req.kind = "vote" /\ raft' = [raft EXCEPT ![n] = s]
    BY <2>1 DEF VoteResponse, Become
  <2>3. raft[n] \in Raft /\ r \in Response
    <3>1. rpc[n][m] \in Call /\ raft[n] \in Raft
      BY <1>1, <2>2 DEF IInv, TypeOK, Pairs
    <3> QED BY <2>2, <3>1, CallFields
  <2>4. raft'[n] = s
    BY <1>1, <2>2 DEF IInv, TypeOK
  <2>5. r.ok /\ r.term = raft'[n].term
    <3>1. Short(raft[n])
      BY <1>1 DEF IInv
    <3> HIDE DEF r
    <3> QED BY <2>3, <2>4, <3>1, VoteResponseEvolves
  <2>6. m # n /\ \E g \in grants : g.voter = m /\ g.candidate = n /\ g.term = r.term
    BY <1>1, <2>2, <2>5 DEF IInv, CallInv
  <2> QED BY <2>5, <2>6
<1> QED BY <1>1, Invariance, PTL DEF Spec, ElectedByGrant

-----------------------------------------------------------------------------
(* The peer threads follow their raft.  What counts is the last command in *)
(* the queue of a thread, or where the thread is when there is none: a     *)
(* leader's is to replicate, anybody else's is not.                        *)

FollowsAt(state, q, th, c) ==
  /\ state = "leader" =>
       \/ q # <<>> /\ q[Len(q)] = "append"
       \/ q = <<>> /\ th # "idle"
       \/ c # NoRpc /\ c.status = "newterm"
  /\ state # "leader" =>
       \/ q = <<>> /\ th = "idle"
       \/ q # <<>> /\ q[Len(q)] # "append"
  /\ c # NoRpc /\ c.status # "newterm" /\ c.req.kind = "vote" => th = "idle"
  /\ c # NoRpc => th # "build"

FollowInv ==
  \A n \in Node : \A m \in Others(n) :
    FollowsAt(raft[n].state, cmds[n][m], thread[n][m], rpc[n][m])

LEMMA NoCommands ==
  ASSUME NEW q \in Seq(Command)
  PROVE  Len(q) \in Nat /\ (q = <<>> <=> Len(q) = 0)
OBVIOUS

LEMMA LastOfConcat ==
  ASSUME NEW q \in Seq(Command), NEW e \in Command
  PROVE  /\ q \o <<e>> # <<>> /\ (q \o <<e>>)[Len(q \o <<e>>)] = e
         /\ <<e>> \o q # <<>>
         /\ q = <<>> => (<<e>> \o q)[Len(<<e>> \o q)] = e
         /\ q # <<>> => (<<e>> \o q)[Len(<<e>> \o q)] = q[Len(q)]
         /\ q \o <<>> = q
<1>1. <<e>> \in Seq(Command) /\ Len(<<e>>) = 1 /\ <<e>>[1] = e /\ Len(q) \in Nat
  OBVIOUS
<1>2. Len(q \o <<e>>) = Len(q) + 1 /\ Len(<<e>> \o q) = Len(q) + 1
  BY <1>1
<1>3. (q \o <<e>>)[Len(q) + 1] = e /\ q \o <<e>> # <<>> /\ <<e>> \o q # <<>>
  BY <1>1, <1>2
<1>4. q # <<>> => (<<e>> \o q)[Len(q) + 1] = q[Len(q)]
  BY <1>1, <1>2
<1>5. q = <<>> => (<<e>> \o q)[1] = e /\ Len(q) = 0
  BY <1>1
<1>6. q \o <<>> = q
  OBVIOUS
<1> QED BY <1>1, <1>2, <1>3, <1>4, <1>5, <1>6

LEMMA LastOfTail ==
  ASSUME NEW q \in Seq(Command), q # <<>>
  PROVE  /\ Tail(q) \in Seq(Command) /\ Head(q) \in Command
         /\ Tail(q) = <<>> => q[Len(q)] = Head(q)
         /\ Tail(q) # <<>> => Tail(q)[Len(Tail(q))] = q[Len(q)]
<1>1. /\ Len(q) \in Nat \ {0} /\ Tail(q) \in Seq(Command) /\ Head(q) = q[1]
      /\ Head(q) \in Command /\ Len(Tail(q)) = Len(q) - 1
      /\ \A i \in 1 .. Len(q) - 1 : Tail(q)[i] = q[i + 1]
  OBVIOUS
<1>2. CASE Len(q) = 1
  <2>1. Len(Tail(q)) = 0
    BY <1>1, <1>2
  <2>2. Tail(q) = <<>>
    BY <1>1, <2>1, NoCommands
  <2> QED BY <1>1, <1>2, <2>2
<1>3. CASE Len(q) # 1
  <2>1. Len(q) - 1 \in 1 .. Len(q) - 1 /\ Len(q) - 1 + 1 = Len(q)
    BY <1>1, <1>3
  <2>2. Tail(q)[Len(q) - 1] = q[Len(q)]
    BY <1>1, <2>1
  <2>3. Tail(q) # <<>>
    <3>1. Len(Tail(q)) # 0
      BY <1>1, <1>3
    <3> QED BY <1>1, <3>1, NoCommands
  <2> QED BY <1>1, <2>2, <2>3
<1> QED BY <1>2, <1>3

\* The commands of a change of state bring the queue behind it.
LEMMA FollowsCommands ==
  ASSUME NEW r \in Raft, NEW s \in Raft, r.state = "leader" => s.state # "candidate",
         NEW q \in Seq(Command), NEW th, NEW c, FollowsAt(r.state, q, th, c)
  PROVE  FollowsAt(s.state, q \o CommandsFor(r, s), th, c)
<1>0. /\ r.state \in {"follower", "candidate", "leader"}
      /\ s.state \in {"follower", "candidate", "leader"}
      /\ "sleep" \in Command /\ "append" \in Command
  BY DEF Raft, Command
<1>1. CASE r.state = "leader" /\ s.state = "follower"
  <2>1. CommandsFor(r, s) = <<"sleep">>
    BY <1>1 DEF CommandsFor
  <2> QED BY <1>0, <1>1, <2>1, LastOfConcat DEF FollowsAt
<1>2. CASE r.state # "leader" /\ s.state = "leader"
  <2>1. CommandsFor(r, s) = <<"append">>
    BY <1>2 DEF CommandsFor
  <2> QED BY <1>0, <1>2, <2>1, LastOfConcat DEF FollowsAt
<1>3. CASE (r.state = "leader" /\ s.state = "leader") \/ (r.state # "leader" /\ s.state # "leader")
  <2>1. CommandsFor(r, s) = <<>>
    BY <1>3 DEF CommandsFor
  <2>2. q \o CommandsFor(r, s) = q
    BY <2>1
  <2> QED BY <1>3, <2>2 DEF FollowsAt
<1> QED BY <1>0, <1>1, <1>2, <1>3

\* A call that goes on, or ends, keeps the thread where it is.
LEMMA FollowsCall ==
  ASSUME NEW st, NEW q, NEW th, NEW c, FollowsAt(st, q, th, c),
         c # NoRpc, c.status # "newterm", NEW d,
         d = NoRpc \/ (d.status # "newterm" /\ d.req = c.req)
  PROVE  FollowsAt(st, q, th, d)
BY DEF FollowsAt

-----------------------------------------------------------------------------
(* The steps of the thread itself.                                         *)

\* One cell changes, and no raft does.
LEMMA FollowCell ==
  ASSUME TypeOK, FollowInv, NEW n \in Node, NEW m \in Others(n),
         UNCHANGED raft,
         \A a, b \in Node : ~(a = n /\ b = m) =>
           cmds'[a][b] = cmds[a][b] /\ thread'[a][b] = thread[a][b] /\ rpc'[a][b] = rpc[a][b],
         FollowsAt(raft[n].state, cmds'[n][m], thread'[n][m], rpc'[n][m])
  PROVE  FollowInv'
<1> SUFFICES ASSUME NEW a \in Node, NEW b \in Others(a)
             PROVE  FollowsAt(raft[a].state, cmds'[a][b], thread'[a][b], rpc'[a][b])
  BY DEF FollowInv
<1>1. CASE a = n /\ b = m
  BY <1>1
<1>2. CASE ~(a = n /\ b = m)
  BY <1>2 DEF FollowInv, Others
<1> QED BY <1>1, <1>2

LEMMA FollowHere ==
  ASSUME TypeOK, FollowInv, NEW n \in Node, NEW m \in Node, m # n
  PROVE  /\ m \in Others(n) /\ raft[n] \in Raft /\ cmds[n][m] \in Seq(Command)
         /\ FollowsAt(raft[n].state, cmds[n][m], thread[n][m], rpc[n][m])
BY DEF TypeOK, FollowInv, Others, Pairs

\* A cell of a table that is written, and the others.
LEMMA RpcWrite ==
  ASSUME TypeOK, NEW n \in Node, NEW m \in Node, NEW v, SetCall(n, m, v)
  PROVE  /\ rpc'[n][m] = v
         /\ \A a, b \in Node : ~(a = n /\ b = m) => rpc'[a][b] = rpc[a][b]
BY DEF TypeOK, Pairs, SetCall

LEMMA FollowStartElection ==
  ASSUME TypeOK, FollowInv, NEW n \in Node, NEW m \in Node, StartElection(n, m)
  PROVE  FollowInv'
<1>1. m # n /\ rpc[n][m] = NoRpc /\ cmds[n][m] # <<>>
  BY DEF StartElection, PopCommand, Free
<1>2. /\ m \in Others(n) /\ cmds[n][m] \in Seq(Command)
      /\ FollowsAt(raft[n].state, cmds[n][m], thread[n][m], rpc[n][m])
  BY <1>1, FollowHere
<1>3. /\ cmds'[n][m] = Tail(cmds[n][m]) /\ thread'[n][m] = "idle"
      /\ \A a, b \in Node : ~(a = n /\ b = m) =>
           cmds'[a][b] = cmds[a][b] /\ thread'[a][b] = thread[a][b]
  <2>1. cmds' = [cmds EXCEPT ![n][m] = Tail(cmds[n][m])]
    BY DEF StartElection, PopCommand
  <2>2. thread' = [thread EXCEPT ![n][m] = "idle"]
    BY DEF StartElection
  <2>3. /\ cmds'[n][m] = Tail(cmds[n][m])
        /\ \A a, b \in Node : ~(a = n /\ b = m) => cmds'[a][b] = cmds[a][b]
    BY <2>1 DEF TypeOK, Pairs
  <2>4. /\ thread'[n][m] = "idle"
        /\ \A a, b \in Node : ~(a = n /\ b = m) => thread'[a][b] = thread[a][b]
    BY <2>2 DEF TypeOK, Pairs
  <2> QED BY <2>3, <2>4
<1>4. /\ \A a, b \in Node : ~(a = n /\ b = m) => rpc'[a][b] = rpc[a][b]
      /\ rpc'[n][m] = NoRpc \/ rpc'[n][m].status = "sent"
  <2>1. CASE UNCHANGED rpc
    BY <1>1, <2>1
  <2>2. CASE SetCall(n, m, [status |-> "sent", req |-> RequestNow(n, "vote")])
    BY <2>2, RpcWrite
  <2> QED BY <2>1, <2>2 DEF StartElection
<1>5. Head(cmds[n][m]) = "election" /\ UNCHANGED raft
  BY DEF StartElection
<1>7. FollowsAt(raft[n].state, cmds'[n][m], thread'[n][m], rpc'[n][m])
  <2>1. cmds[n][m][Len(cmds[n][m])] # "append" \/ Tail(cmds[n][m]) # <<>>
    BY <1>1, <1>2, <1>5, LastOfTail
  <2> QED BY <1>1, <1>2, <1>3, <1>4, <2>1, LastOfTail DEF FollowsAt
<1> QED BY <1>2, <1>3, <1>4, <1>5, <1>7, FollowCell

LEMMA FollowSwitchAppend ==
  ASSUME TypeOK, FollowInv, NEW n \in Node, NEW m \in Node, SwitchAppend(n, m)
  PROVE  FollowInv'
<1> DEFINE q == cmds[n][m]
<1>1. m # n /\ rpc[n][m] = NoRpc /\ q # <<>> /\ UNCHANGED <<raft, rpc>>
  BY DEF SwitchAppend, PopCommand, Free
<1>2. m \in Others(n) /\ q \in Seq(Command)
      /\ FollowsAt(raft[n].state, q, thread[n][m], rpc[n][m])
  BY <1>1, FollowHere
<1>3. /\ cmds'[n][m] = Tail(q)
      /\ thread'[n][m] = IF Head(q) = "append" THEN "append" ELSE "idle"
      /\ \A a, b \in Node : ~(a = n /\ b = m) =>
           cmds'[a][b] = cmds[a][b] /\ thread'[a][b] = thread[a][b]
  <2> DEFINE v == IF Head(q) = "append" THEN "append" ELSE "idle"
  <2>1. cmds' = [cmds EXCEPT ![n][m] = Tail(q)] /\ thread' = [thread EXCEPT ![n][m] = v]
    BY DEF SwitchAppend, PopCommand
  <2> HIDE DEF q, v
  <2>2. /\ cmds'[n][m] = Tail(q)
        /\ \A a, b \in Node : ~(a = n /\ b = m) => cmds'[a][b] = cmds[a][b]
    BY <2>1 DEF TypeOK, Pairs
  <2>3. /\ thread'[n][m] = v
        /\ \A a, b \in Node : ~(a = n /\ b = m) => thread'[a][b] = thread[a][b]
    BY <2>1 DEF TypeOK, Pairs
  <2> QED BY <2>2, <2>3 DEF v
<1> HIDE DEF q
<1>4. FollowsAt(raft[n].state, cmds'[n][m], thread'[n][m], rpc'[n][m])
  BY <1>1, <1>2, <1>3, LastOfTail DEF FollowsAt
<1> QED BY <1>1, <1>2, <1>3, <1>4, FollowCell

\* do_append_entries goes round.
LEMMA FollowAppends ==
  ASSUME TypeOK, FollowInv, NEW n \in Node, NEW m \in Node, m # n,
         BeginAppend(n, m) \/ SendAppend(n, m)
  PROVE  FollowInv'
<1>1. m \in Others(n) /\ FollowsAt(raft[n].state, cmds[n][m], thread[n][m], rpc[n][m])
  BY FollowHere
<1>2. CASE BeginAppend(n, m)
  <2>1. /\ rpc[n][m] = NoRpc /\ thread[n][m] = "append" /\ UNCHANGED <<raft, cmds, rpc>>
        /\ thread' = [thread EXCEPT ![n][m] = "build"]
    BY <1>2 DEF BeginAppend, Free
  <2>2. /\ thread'[n][m] = "build"
        /\ \A a, b \in Node : ~(a = n /\ b = m) => thread'[a][b] = thread[a][b]
    BY <2>1 DEF TypeOK, Pairs
  <2>3. FollowsAt(raft[n].state, cmds'[n][m], thread'[n][m], rpc'[n][m])
    BY <1>1, <2>1, <2>2 DEF FollowsAt
  <2> QED BY <1>1, <2>1, <2>2, <2>3, FollowCell
<1>3. CASE SendAppend(n, m)
  <2> DEFINE c == [status |-> "sent", req |-> RequestNow(n, "append")]
  <2>1. /\ thread[n][m] = "build" /\ UNCHANGED <<raft, cmds>>
        /\ thread' = [thread EXCEPT ![n][m] = "append"] /\ SetCall(n, m, c)
    BY <1>3 DEF SendAppend
  <2>2. c.status = "sent" /\ c.req.kind = "append"
    BY DEF RequestNow
  <2> HIDE DEF c
  <2>3. /\ thread'[n][m] = "append" /\ rpc'[n][m] = c
        /\ \A a, b \in Node : ~(a = n /\ b = m) =>
             thread'[a][b] = thread[a][b] /\ rpc'[a][b] = rpc[a][b]
    <3>1. /\ thread'[n][m] = "append"
          /\ \A a, b \in Node : ~(a = n /\ b = m) => thread'[a][b] = thread[a][b]
      BY <2>1 DEF TypeOK, Pairs
    <3>2. /\ rpc'[n][m] = c
          /\ \A a, b \in Node : ~(a = n /\ b = m) => rpc'[a][b] = rpc[a][b]
      BY <2>1, RpcWrite
    <3> QED BY <3>1, <3>2
  <2>4. FollowsAt(raft[n].state, cmds'[n][m], thread'[n][m], rpc'[n][m])
    BY <1>1, <2>1, <2>2, <2>3 DEF FollowsAt
  <2> QED BY <1>1, <2>1, <2>3, <2>4, FollowCell
<1> QED BY <1>2, <1>3

-----------------------------------------------------------------------------
(* The handlers.  None of them makes a leader a candidate.                 *)

LEMMA CatchUpStands ==
  ASSUME NEW s \in Raft, NEW t \in Nat
  PROVE  CatchUp(s, t) \in Raft /\ CatchUp(s, t).state \in {s.state, "follower"}
<1>1. CASE t > s.term
  BY <1>1, StepDownFields DEF CatchUp
<1>2. CASE ~(t > s.term)
  BY <1>2 DEF CatchUp
<1> QED BY <1>1, <1>2

LEMMA VoteRequestStands ==
  ASSUME NEW s \in Raft, NEW q \in Request
  PROVE  HandleVoteRequest(s, q).state \in {s.state, "follower"}
<1> DEFINE c == CatchUp(s, q.term)
           d == StepDown(c, c.term)
<1>1. q.term \in Nat
  BY DEF Request, Term
<1>2. c \in Raft /\ c.state \in {s.state, "follower"}
  BY <1>1, CatchUpStands
<1>3. d \in Raft /\ d.state = "follower"
  <2>1. c.term \in Nat
    BY <1>2 DEF Raft, Term
  <2> HIDE DEF c
  <2> QED BY <1>2, <2>1, StepDownFields
<1>4. [d EXCEPT !.votedFor = q.from].state = d.state
  BY <1>3 DEF Raft
<1>5. HandleVoteRequest(s, q) = [d EXCEPT !.votedFor = q.from] \/ HandleVoteRequest(s, q) = c
  BY DEF HandleVoteRequest
<1> HIDE DEF c, d
<1> QED BY <1>2, <1>3, <1>4, <1>5

LEMMA AppendStands ==
  ASSUME NEW s \in Raft, NEW q \in Request, NEW i
  PROVE  /\ HandleAppend(s, q).state \in {s.state, "follower"}
         /\ [HandleAppend(s, q) EXCEPT !.lastIndex = i].state \in {s.state, "follower"}
<1> DEFINE c == CatchUp(s, q.term)
           h == HandleAppend(s, q)
<1>1. q.term \in Nat
  BY DEF Request, Term
<1>2. c \in Raft /\ c.state \in {s.state, "follower"}
  BY <1>1, CatchUpStands
<1>3. h = s \/ h = [c EXCEPT !.armed = TRUE]
  BY DEF HandleAppend
<1> HIDE DEF c, h
<1>4. h \in Raft /\ h.state \in {s.state, "follower"}
  BY <1>2, <1>3 DEF Raft
<1>5. [h EXCEPT !.lastIndex = i].state = h.state
  BY <1>4 DEF Raft
<1> QED BY <1>4, <1>5 DEF h

LEMMA VoteResponseStands ==
  ASSUME NEW s \in Raft, NEW r \in Response
  PROVE  s.state = "leader" => HandleVoteResponse(s, r).state # "candidate"
BY DEF HandleVoteResponse

\* What serving a request does to the node that serves it.
LEMMA ServeStands ==
  ASSUME TypeOK, NEW m \in Node, NEW q \in Request, NEW ok, Serve(m, q, ok)
  PROVE  \E s : /\ Become(m, s)
                /\ raft[m].state = "leader" => s.state # "candidate"
<1>1. raft[m] \in Raft /\ q.kind \in {"vote", "append"}
  BY DEF TypeOK, Request
<1>2. CASE q.kind = "vote"
  <2>1. Become(m, HandleVoteRequest(raft[m], q))
    BY <1>2 DEF Serve, ServeVote
  <2> QED BY <1>1, <2>1, VoteRequestStands
<1>3. CASE q.kind = "append"
  <2>1. \E i : \/ Become(m, HandleAppend(raft[m], q))
               \/ Become(m, [HandleAppend(raft[m], q) EXCEPT !.lastIndex = i])
    BY <1>3 DEF Serve, ServeAppend
  <2> QED BY <1>1, <2>1, AppendStands
<1> QED BY <1>1, <1>2, <1>3

\* When a handler has run, the queues follow the raft it leaves.
LEMMA FollowBecome ==
  ASSUME TypeOK, TypeOK', FollowInv, NEW n \in Node, NEW s, Become(n, s),
         raft[n].state = "leader" => s.state # "candidate",
         NEW a \in Node, NEW b \in Others(a)
  PROVE  /\ raft'[n] = s
         /\ FollowsAt(raft'[a].state, cmds'[a][b], thread[a][b], rpc[a][b])
<1>1. /\ raft' = [raft EXCEPT ![n] = s] /\ raft'[n] = s /\ s \in Raft /\ raft[n] \in Raft
      /\ cmds' = [cmds EXCEPT ![n] = [m \in Node |->
                     IF m = n THEN cmds[n][m] ELSE cmds[n][m] \o CommandsFor(raft[n], s)]]
  BY DEF Become, TypeOK
<1>2. b \in Node /\ b # a /\ cmds[a][b] \in Seq(Command)
      /\ FollowsAt(raft[a].state, cmds[a][b], thread[a][b], rpc[a][b])
  BY DEF FollowInv, Others, TypeOK, Pairs
<1>3. CASE a = n
  <2>1. cmds'[a][b] = cmds[a][b] \o CommandsFor(raft[n], s) /\ raft'[a] = s
    BY <1>1, <1>2, <1>3 DEF TypeOK, Pairs
  <2> QED BY <1>1, <1>2, <1>3, <2>1, FollowsCommands
<1>4. CASE a # n
  <2>1. cmds'[a][b] = cmds[a][b] /\ raft'[a] = raft[a]
    BY <1>1, <1>2, <1>4 DEF TypeOK, Pairs
  <2> QED BY <1>1, <1>2, <2>1
<1> QED BY <1>1, <1>3, <1>4

LEMMA FollowDeliver ==
  ASSUME TypeOK, TypeOK', FollowInv, NEW n \in Node, NEW m \in Node, Deliver(n, m)
  PROVE  FollowInv'
<1> DEFINE q == rpc[n][m].req
<1>1. /\ rpc[n][m] # NoRpc /\ rpc[n][m].status = "sent" /\ UNCHANGED thread
  BY DEF Deliver
<1>2. rpc[n][m] \in Call /\ q \in Request
  <2>1. rpc[n][m] \in Call
    BY <1>1 DEF TypeOK, Pairs
  <2> QED BY <1>1, <2>1, CallFields
<1>3. PICK ok \in BOOLEAN :
        /\ Serve(m, q, ok)
        /\ SetCall(n, m, [status |-> "answered", req |-> q,
                          resp |-> [term |-> raft'[m].term, ok |-> ok]])
  BY DEF Deliver
<1>4. PICK s : Become(m, s) /\ (raft[m].state = "leader" => s.state # "candidate")
  BY <1>2, <1>3, ServeStands
<1> DEFINE c == [status |-> "answered", req |-> q,
                 resp |-> [term |-> raft'[m].term, ok |-> ok]]
<1>5. SetCall(n, m, c) /\ c.status # "newterm" /\ c.req = q
  BY <1>3
<1> HIDE DEF c
<1>6. rpc'[n][m] = c /\ \A a, b \in Node : ~(a = n /\ b = m) => rpc'[a][b] = rpc[a][b]
  BY <1>5, RpcWrite
<1> SUFFICES ASSUME NEW a \in Node, NEW b \in Others(a)
             PROVE  FollowsAt(raft'[a].state, cmds'[a][b], thread'[a][b], rpc'[a][b])
  BY DEF FollowInv
<1>7. FollowsAt(raft'[a].state, cmds'[a][b], thread[a][b], rpc[a][b])
  BY <1>4, FollowBecome
<1>8. CASE a = n /\ b = m
  BY <1>1, <1>5, <1>6, <1>7, <1>8, FollowsCall
<1>9. CASE ~(a = n /\ b = m)
  BY <1>1, <1>6, <1>7, <1>9 DEF Others
<1> QED BY <1>8, <1>9

LEMMA FollowDeliverLate ==
  ASSUME TypeOK, TypeOK', FollowInv, NEW m \in Node, DeliverLate(m)
  PROVE  FollowInv'
<1>1. PICK q \in late[m], ok \in BOOLEAN : Serve(m, q, ok) /\ UNCHANGED <<thread, rpc>>
  BY DEF DeliverLate
<1>2. q \in Request
  BY DEF TypeOK
<1>3. PICK s : Become(m, s) /\ (raft[m].state = "leader" => s.state # "candidate")
  BY <1>1, <1>2, ServeStands
<1> SUFFICES ASSUME NEW a \in Node, NEW b \in Others(a)
             PROVE  FollowsAt(raft'[a].state, cmds'[a][b], thread'[a][b], rpc'[a][b])
  BY DEF FollowInv
<1> QED BY <1>1, <1>3, FollowBecome

\* The thread is told: the call is over, and a newer term ends the office.
LEMMA FollowResponse ==
  ASSUME TypeOK, TypeOK', FollowInv, NEW n \in Node, NEW m \in Node,
         VoteResponse(n, m) \/ NewTerm(n, m)
  PROVE  FollowInv'
<1>1. /\ rpc[n][m] # NoRpc /\ rpc[n][m] \in Call /\ raft[n] \in Raft
      /\ SetCall(n, m, NoRpc) /\ UNCHANGED thread
  BY DEF VoteResponse, NewTerm, TypeOK, Pairs
<1>2. rpc'[n][m] = NoRpc /\ \A a, b \in Node : ~(a = n /\ b = m) => rpc'[a][b] = rpc[a][b]
  BY <1>1, RpcWrite
<1>3. PICK s : /\ Become(n, s) /\ (raft[n].state = "leader" => s.state # "candidate")
               /\ rpc[n][m].status = "newterm" => s.state = "follower"
  <2>1. CASE VoteResponse(n, m)
    <3>1. rpc[n][m].status = "answered" /\ rpc[n][m].resp \in Response
          /\ Become(n, HandleVoteResponse(raft[n], rpc[n][m].resp))
      BY <1>1, <2>1, CallFields DEF VoteResponse
    <3> QED BY <1>1, <3>1, VoteResponseStands
  <2>2. CASE NewTerm(n, m)
    <3>1. rpc[n][m].term \in Nat /\ Become(n, StepDown(raft[n], rpc[n][m].term))
      BY <1>1, <2>2, CallFields DEF NewTerm
    <3> QED BY <1>1, <3>1, StepDownFields
  <2> QED BY <2>1, <2>2
<1> SUFFICES ASSUME NEW a \in Node, NEW b \in Others(a)
             PROVE  FollowsAt(raft'[a].state, cmds'[a][b], thread'[a][b], rpc'[a][b])
  BY DEF FollowInv
<1>4. /\ raft'[n] = s
      /\ FollowsAt(raft'[a].state, cmds'[a][b], thread[a][b], rpc[a][b])
  BY <1>3, FollowBecome
<1>5. CASE a = n /\ b = m
  <2>1. CASE rpc[n][m].status = "newterm"
    BY <1>1, <1>2, <1>3, <1>4, <1>5, <2>1 DEF FollowsAt
  <2>2. CASE rpc[n][m].status # "newterm"
    BY <1>1, <1>2, <1>4, <1>5, <2>2, FollowsCall
  <2> QED BY <2>1, <2>2
<1>6. CASE ~(a = n /\ b = m)
  BY <1>1, <1>2, <1>4, <1>6 DEF Others
<1> QED BY <1>5, <1>6

-----------------------------------------------------------------------------
(* The other steps.                                                        *)

\* TimerDue and Replicate change nobody's office.
LEMMA FollowSame ==
  ASSUME TypeOK, FollowInv, UNCHANGED <<cmds, thread, rpc>>,
         \A n \in Node : raft'[n].state = raft[n].state
  PROVE  FollowInv'
BY DEF FollowInv

LEMMA FollowQuiet ==
  ASSUME TypeOK, FollowInv, NEW n \in Node, TimerDue(n) \/ Replicate(n)
  PROVE  FollowInv'
<1>1. UNCHANGED <<cmds, thread, rpc>>
  BY DEF TimerDue, Replicate
<1>2. ASSUME NEW k \in Node PROVE raft'[k].state = raft[k].state
  BY DEF TimerDue, Replicate, TypeOK, Raft
<1> QED BY <1>1, <1>2, FollowSame

\* Whoever stands has every one of his threads ask for a vote.
LEMMA FollowElectionTimeout ==
  ASSUME TypeOK, FollowInv, NEW n \in Node, ElectionTimeout(n)
  PROVE  FollowInv'
<1>1. UNCHANGED <<thread, rpc>> /\ "election" \in Command /\ "election" # "append"
  BY DEF ElectionTimeout, Command
<1>2. /\ raft'[n].state = "candidate"
      /\ \A k \in Node : k # n => raft'[k] = raft[k]
  BY DEF ElectionTimeout, TypeOK, Raft
<1> SUFFICES ASSUME NEW a \in Node, NEW b \in Others(a)
             PROVE  FollowsAt(raft'[a].state, cmds'[a][b], thread[a][b], rpc[a][b])
  BY <1>1 DEF FollowInv
<1>3. b \in Node /\ b # a /\ cmds[a][b] \in Seq(Command)
      /\ FollowsAt(raft[a].state, cmds[a][b], thread[a][b], rpc[a][b])
  BY DEF FollowInv, Others, TypeOK, Pairs
<1>4. CASE a = n
  <2>1. cmds'[a][b] = Append(cmds[a][b], "election")
    BY <1>3, <1>4 DEF ElectionTimeout, TypeOK, Pairs
  <2>2. Append(cmds[a][b], "election") = cmds[a][b] \o <<"election">>
    BY <1>1, <1>3
  <2> QED BY <1>1, <1>2, <1>3, <1>4, <2>1, <2>2, LastOfConcat DEF FollowsAt
<1>5. CASE a # n
  <2>1. cmds'[a][b] = cmds[a][b]
    BY <1>3, <1>5 DEF ElectionTimeout, TypeOK, Pairs
  <2> QED BY <1>2, <1>3, <1>5, <2>1
<1> QED BY <1>4, <1>5

\* An election that fails is tried again, by a thread that does nothing else.
LEMMA FollowRpcFails ==
  ASSUME TypeOK, FollowInv, NEW n \in Node, NEW m \in Node, m # n, RpcFails(n, m)
  PROVE  FollowInv'
<1> DEFINE q == cmds[n][m]
<1>1. /\ rpc[n][m] # NoRpc /\ rpc[n][m].status # "newterm" /\ SetCall(n, m, NoRpc)
      /\ UNCHANGED <<raft, thread>> /\ "election" \in Command /\ "election" # "append"
  BY DEF RpcFails, Command
<1>2. m \in Others(n) /\ q \in Seq(Command)
      /\ FollowsAt(raft[n].state, q, thread[n][m], rpc[n][m])
  BY FollowHere
<1>3. rpc'[n][m] = NoRpc /\ \A a, b \in Node : ~(a = n /\ b = m) => rpc'[a][b] = rpc[a][b]
  BY <1>1, RpcWrite
<1>4. CASE rpc[n][m].req.kind = "vote"
  <2>1. cmds' = [cmds EXCEPT ![n][m] = <<"election">> \o q]
    BY <1>4 DEF RpcFails
  <2>2. /\ cmds'[n][m] = <<"election">> \o q
        /\ \A a, b \in Node : ~(a = n /\ b = m) => cmds'[a][b] = cmds[a][b]
    BY <2>1 DEF TypeOK, Pairs
  <2> HIDE DEF q
  <2>3. FollowsAt(raft[n].state, cmds'[n][m], thread[n][m], rpc'[n][m])
    BY <1>1, <1>2, <1>3, <1>4, <2>2, LastOfConcat DEF FollowsAt
  <2> QED BY <1>1, <1>2, <1>3, <2>2, <2>3, FollowCell
<1>5. CASE rpc[n][m].req.kind # "vote"
  <2>1. UNCHANGED cmds
    BY <1>5 DEF RpcFails
  <2>2. FollowsAt(raft[n].state, cmds'[n][m], thread'[n][m], rpc'[n][m])
    BY <1>1, <1>2, <1>3, <2>1, FollowsCall
  <2> QED BY <1>1, <1>2, <1>3, <2>1, <2>2, FollowCell
<1> QED BY <1>4, <1>5

LEMMA FollowAppendResponse ==
  ASSUME TypeOK, FollowInv, NEW n \in Node, NEW m \in Node, m # n, AppendResponse(n, m)
  PROVE  FollowInv'
<1>1. /\ rpc[n][m] # NoRpc /\ rpc[n][m].status = "answered"
      /\ UNCHANGED <<raft, cmds>>
  BY DEF AppendResponse
<1>2. m \in Others(n) /\ FollowsAt(raft[n].state, cmds[n][m], thread[n][m], rpc[n][m])
  BY FollowHere
<1>3. CASE SetCall(n, m, NoRpc) /\ UNCHANGED thread
  <2>1. rpc'[n][m] = NoRpc /\ \A a, b \in Node : ~(a = n /\ b = m) => rpc'[a][b] = rpc[a][b]
    BY <1>3, RpcWrite
  <2>2. FollowsAt(raft[n].state, cmds'[n][m], thread'[n][m], rpc'[n][m])
    BY <1>1, <1>2, <1>3, <2>1, FollowsCall
  <2> QED BY <1>1, <1>2, <1>3, <2>1, <2>2, FollowCell
<1>4. CASE ~(SetCall(n, m, NoRpc) /\ UNCHANGED thread)
  <2> DEFINE c == [status |-> "newterm", term |-> rpc[n][m].resp.term]
  <2>1. SetCall(n, m, c) /\ thread' = [thread EXCEPT ![n][m] = "idle"] /\ c.status = "newterm"
    BY <1>4 DEF AppendResponse
  <2>4. c # NoRpc
    <3>1. rpc[n][m] \in Call
      BY <1>1 DEF TypeOK, Pairs
    <3>2. rpc[n][m].resp.term \in Term
      BY <1>1, <3>1, CallFields DEF Response
    <3>3. c \in Call
      BY <3>2 DEF Call
    <3> QED BY <3>3, CallAssumption
  <2> HIDE DEF c
  <2>2. /\ rpc'[n][m] = c
        /\ \A a, b \in Node : ~(a = n /\ b = m) => rpc'[a][b] = rpc[a][b]
    BY <2>1, RpcWrite
  <2>3. /\ thread'[n][m] = "idle"
        /\ \A a, b \in Node : ~(a = n /\ b = m) => thread'[a][b] = thread[a][b]
    BY <2>1 DEF TypeOK, Pairs
  <2>5. FollowsAt(raft[n].state, cmds'[n][m], thread'[n][m], rpc'[n][m])
    BY <1>1, <1>2, <2>1, <2>2, <2>3, <2>4 DEF FollowsAt
  <2> QED BY <1>1, <1>2, <2>2, <2>3, <2>5, FollowCell
<1> QED BY <1>3, <1>4

\* A node that starts again has nothing in its queues and no office.
LEMMA FollowRestart ==
  ASSUME TypeOK, FollowInv, NEW n \in Node, Restart(n)
  PROVE  FollowInv'
<1>1. /\ raft'[n].state = "follower"
      /\ \A k \in Node : k # n => raft'[k] = raft[k]
  BY DEF Restart, TypeOK, NewRaft
<1>2. \A a, b \in Node :
        /\ cmds'[a][b] = IF a = n THEN <<>> ELSE cmds[a][b]
        /\ thread'[a][b] = IF a = n THEN "idle" ELSE thread[a][b]
  BY DEF Restart, TypeOK, Pairs
<1> SUFFICES ASSUME NEW a \in Node, NEW b \in Others(a)
             PROVE  FollowsAt(raft'[a].state, cmds'[a][b], thread'[a][b], rpc'[a][b])
  BY DEF FollowInv
<1>3. b \in Node /\ FollowsAt(raft[a].state, cmds[a][b], thread[a][b], rpc[a][b])
  BY DEF FollowInv, Others
<1>4. CASE a = n
  <2>1. rpc'[a][b] = NoRpc
    BY <1>3, <1>4 DEF Restart
  <2> QED BY <1>1, <1>2, <1>3, <1>4, <2>1 DEF FollowsAt
<1>5. CASE a # n
  <2>1. CASE b = n /\ rpc[a][b] # NoRpc /\ rpc[a][b].status = "sent"
    <3> DEFINE d == [rpc[a][b] EXCEPT !.status = "lost"]
    <3>1. rpc'[a][b] = d
      BY <1>3, <1>5, <2>1 DEF Restart
    <3>2. rpc[a][b] \in Call
      BY <1>3, <2>1 DEF TypeOK, Pairs
    <3>3. d.status = "lost" /\ d.req = rpc[a][b].req
      BY <2>1, <3>2 DEF Call
    <3> HIDE DEF d
    <3> QED BY <1>1, <1>2, <1>3, <1>5, <2>1, <3>1, <3>3, FollowsCall
  <2>2. CASE ~(b = n /\ rpc[a][b] # NoRpc /\ rpc[a][b].status = "sent")
    <3>1. rpc'[a][b] = rpc[a][b]
      BY <1>3, <1>5, <2>2 DEF Restart
    <3> QED BY <1>1, <1>2, <1>3, <1>5, <3>1
  <2> QED BY <2>1, <2>2
<1> QED BY <1>4, <1>5

LEMMA FollowStep ==
  ASSUME IInv, IInv', FollowInv, [Next]_vars
  PROVE  FollowInv'
<1> USE DEF IInv
<1>1. ASSUME NEW n \in Node, TimerDue(n) \/ ElectionTimeout(n) \/ Replicate(n)
                            \/ Restart(n) \/ DeliverLate(n)
      PROVE  FollowInv'
  BY <1>1, FollowQuiet, FollowElectionTimeout, FollowRestart, FollowDeliverLate
<1>2. ASSUME NEW n \in Node, NEW m \in Node, Deliver(n, m)
      PROVE  FollowInv'
  BY <1>2, FollowDeliver
<1>3. ASSUME NEW n \in Node, NEW m \in Node, StartElection(n, m) \/ SwitchAppend(n, m)
      PROVE  FollowInv'
  BY <1>3, FollowStartElection, FollowSwitchAppend
<1>4. ASSUME NEW n \in Node, NEW m \in Node, VoteResponse(n, m) \/ NewTerm(n, m)
      PROVE  FollowInv'
  BY <1>4, FollowResponse
<1>5. ASSUME NEW n \in Node, NEW m \in Node,
             BeginAppend(n, m) \/ SendAppend(n, m) \/ AppendResponse(n, m) \/ RpcFails(n, m)
      PROVE  FollowInv'
  <2>1. m # n
    BY <1>5 DEF BeginAppend, SendAppend, AppendResponse, RpcFails, CallInv
  <2> QED BY <1>5, <2>1, FollowAppends, FollowAppendResponse, FollowRpcFails
<1>6. CASE UNCHANGED vars
  BY <1>6 DEF vars, FollowInv
<1> QED BY <1>1, <1>2, <1>3, <1>4, <1>5, <1>6 DEF Next, PeerStep

\* The threads of a leader replicate, or will, or are about to depose it, and
\* a thread that replicates for nobody has a command waiting.
THEOREM ThreadsFollow == Spec => []PeersFollow
<1>1. Init => FollowInv
  BY DEF Init, FollowInv, FollowsAt, NewRaft, Others
<1>2. IInv /\ IInv' /\ FollowInv /\ [Next]_vars => FollowInv'
  BY FollowStep
<1>3. IInv /\ FollowInv => PeersFollow
  <2> SUFFICES ASSUME IInv, FollowInv, NEW n \in Node, NEW m \in Others(n)
               PROVE  /\ raft[n].state = "leader" =>
                           \/ thread[n][m] \in {"append", "build"}
                           \/ \E i \in 1 .. Len(cmds[n][m]) : cmds[n][m][i] = "append"
                           \/ rpc[n][m] # NoRpc /\ rpc[n][m].status = "newterm"
                      /\ raft[n].state # "leader" /\ thread[n][m] # "idle" => cmds[n][m] # <<>>
    BY DEF PeersFollow, LeaderReplicates, DeposedStops
  <2>1. /\ FollowsAt(raft[n].state, cmds[n][m], thread[n][m], rpc[n][m])
        /\ thread[n][m] \in {"idle", "append", "build"} /\ cmds[n][m] \in Seq(Command)
    BY DEF FollowInv, IInv, TypeOK, Pairs, Others
  <2>2. cmds[n][m] # <<>> => Len(cmds[n][m]) \in 1 .. Len(cmds[n][m])
    <3>1. cmds[n][m] # <<>> => Len(cmds[n][m]) \in Nat \ {0}
      BY <2>1, NoCommands
    <3> QED BY <3>1
  <2> QED BY <2>1, <2>2 DEF FollowsAt
<1> QED BY <1>1, <1>2, <1>3, Invariance, PTL DEF Spec

-----------------------------------------------------------------------------
(* Snapshots.  The argument needs to know where each block comes from:     *)
(* there is a function cur from terms to files, the file that the leader   *)
(* of the term has sent last, and whatever is under way or stored of a term*)
(* is of that file or of one of which a call was lost.                     *)

\* A file that was built: without an early one it holds all up to its head.
Good(f) == f \in File /\ f.head >= 1 /\ (~early => f.holds = f.head)

\* f is the file of term t, or a call of it was lost in t.
Own(cur, t, f) == f = cur[t] \/ <<t, f>> \in lostIn

\* Where a chunk of f may start; an odd place is in no block.
AtOK(at, f) == at % 2 = 1 \/ (at \in {0, 4, 8} /\ at \div 2 <= Blocks(f))

\* r is the chunk of f at its offset.
From(r, f) == /\ r.head = f.head /\ r.data = ReadAt(f, r.offset)
              /\ r.done = LastChunk(f, r.offset) /\ AtOK(r.offset, f)

\* The sender has the answer to the last chunk and will take the file as sent.
Finished == /\ answer # NoAnswer /\ LastChunk(sender.file, sender.at)
            /\ answer.stored = sender.at + 2 * Len(ReadAt(sender.file, sender.at))

\* Blocks stored in term t have their places, though they may be of several files.
BlockOK(cur, s, t, b) ==
  /\ s[b].block = b /\ b <= Blocks(s[b].file)
  /\ Good(s[b].file) /\ Own(cur, t, s[b].file)
  /\ t = term => <<t, s[b].file>> \in lostIn \/ (sender # Idle /\ s[b].file = sender.file)

StoredOK(cur, s, t) ==
  /\ Len(s) % 2 = 0
  /\ \A b \in 1 .. Len(s) :
       /\ BlockOK(cur, s, t, b)
       /\ t = term => <<t, s[b].file>> \in lostIn \/ ~Finished

\* A call under way is of the chunk that the sender waits for, or of an earlier
\* term, or it was lost.
CallOK(cur, r) ==
  /\ r.term <= term /\ r.attempt <= losses
  /\ \E f \in File :
       /\ From(r, f) /\ Good(f) /\ Own(cur, r.term, f)
       /\ r.term = term =>
            IF r.attempt = losses
            THEN sender.waits /\ answer = NoAnswer /\ r.offset = sender.at /\ f = sender.file
            ELSE <<term, f>> \in lostIn

CallsOK(cur) == \A r \in calls : CallOK(cur, r)

\* The files that are sent get newer, and what is dropped is in the newest.
LeaderOK(cur) ==
  /\ \A t, u \in 0 .. term : t <= u => cur[t].head <= cur[u].head
  /\ cur[term].head <= snapshot.head /\ snapshot.head <= dropped
  /\ build # NoFile => Good(build) /\ build.head >= snapshot.head /\ build.head <= written
  /\ snapshot # NoFile => Good(snapshot)
  /\ \A x \in lostIn : x[1] <= term /\ x[2].head <= cur[x[1]].head

SenderOK(cur) ==
  /\ sender # Idle => sender.file = cur[term] /\ Good(sender.file) /\ AtOK(sender.at, sender.file)
  /\ answer # NoAnswer => sender.waits /\ answer.term = term /\ answer.stored % 2 = 0

Peer == [term : 0 .. MaxSnapTerm, open : BOOLEAN, stored : Seq(Block), snapshot : 0 .. MaxEntry,
         committed : 0 .. MaxEntry, loaded : Seq(Block), at : 0 .. MaxSnapTerm]

PeerOK(cur) ==
  /\ peer \in Peer
  /\ peer.term <= term /\ peer.committed <= cur[peer.term].head
  /\ StoredOK(cur, peer.stored, peer.term)

InvAt(cur) ==
  /\ SnapTypeOK /\ LeaderOK(cur) /\ SenderOK(cur) /\ PeerOK(cur) /\ CallsOK(cur)
  /\ LoadsWhole /\ NothingLost

Files == [0 .. MaxSnapTerm -> File]

SnapInv == \E cur \in Files : InvAt(cur)

-----------------------------------------------------------------------------
(* Files and chunks.                                                       *)

\* A file has three or four blocks, each of which knows its place.
LEMMA FileBlocks ==
  ASSUME NEW f \in File
  PROVE  /\ Blocks(f) \in {3, 4} /\ Content(f) \in Seq(Block) /\ Len(Content(f)) = Blocks(f)
         /\ \A b \in 1 .. Blocks(f) : Content(f)[b] = [file |-> f, block |-> b]
  <1>1. f.head \in Nat
    BY RaftSnapshotAssumption DEF File
  <1>2. Blocks(f) \in {3, 4}
    BY <1>1 DEF Blocks
  <1>3. Content(f) \in [1 .. Blocks(f) -> Block]
    BY <1>2 DEF Content, Block
  <1> QED
    BY <1>2, <1>3 DEF Content

\* A chunk that is not the last has two blocks, the last one what is left.
LEMMA ChunkRead ==
  ASSUME NEW f \in File, NEW at \in Nat, AtOK(at, f)
  PROVE  /\ ReadAt(f, at) \in Seq(Block)
         /\ at % 2 = 1 => ReadAt(f, at) = <<>>
         /\ at % 2 = 0 =>
              /\ Len(ReadAt(f, at)) = IF LastChunk(f, at) THEN Blocks(f) - at \div 2 ELSE 2
              /\ LastChunk(f, at) <=> at \div 2 + 2 > Blocks(f)
              /\ \A i \in 1 .. Len(ReadAt(f, at)) : ReadAt(f, at)[i] = [file |-> f, block |-> at \div 2 + i]
  <1> DEFINE k == at \div 2
             end == IF k + 2 < Blocks(f) THEN k + 2 ELSE Blocks(f)
             C == Content(f)
  <1>1. CASE at % 2 = 1
    BY <1>1 DEF ReadAt
  <1>2. CASE at % 2 # 1
    <2>1. k \in {0, 2, 4} /\ k <= Blocks(f) /\ Blocks(f) \in {3, 4} /\ at % 2 = 0
      BY <1>2, FileBlocks DEF AtOK
    <2>2. ReadAt(f, at) = SubSeq(C, k + 1, end)
      BY <2>1 DEF ReadAt, Chunk
    <2>3. LastChunk(f, at) <=> k + 2 > Blocks(f)
      BY DEF LastChunk, Chunk
    <2> HIDE DEF k, C
    <2>4. C \in Seq(Block) /\ Len(C) = Blocks(f)
          /\ \A b \in 1 .. Blocks(f) : C[b] = [file |-> f, block |-> b]
      BY FileBlocks DEF C
    <2>5. k + 1 \in 1 .. Len(C) + 1 /\ end \in k .. Len(C)
      BY <2>1, <2>4
    <2> HIDE DEF end
    <2>6. /\ SubSeq(C, k + 1, end) \in Seq(Block) /\ Len(SubSeq(C, k + 1, end)) = end - k
          /\ \A i \in 1 .. end - k : SubSeq(C, k + 1, end)[i] = C[k + i]
      BY <2>1, <2>4, <2>5, SubSeqProperties
    <2>7. end - k = IF k + 2 > Blocks(f) THEN Blocks(f) - k ELSE 2
      BY <2>1 DEF end
    <2>8. \A i \in 1 .. end - k : k + i \in 1 .. Blocks(f)
      BY <2>1, <2>4, <2>5
    <2>9. \A i \in 1 .. end - k : SubSeq(C, k + 1, end)[i] = [file |-> f, block |-> k + i]
      BY <2>4, <2>6, <2>8
    <2>10. Len(ReadAt(f, at)) = IF LastChunk(f, at) THEN Blocks(f) - k ELSE 2
      BY <2>2, <2>3, <2>6, <2>7
    <2>11. ReadAt(f, at) \in Seq(Block)
      BY <2>2, <2>6
    <2>12. \A i \in 1 .. Len(ReadAt(f, at)) : ReadAt(f, at)[i] = [file |-> f, block |-> k + i]
      BY <2>2, <2>6, <2>9
    <2> QED
      BY <2>1, <2>3, <2>10, <2>11, <2>12 DEF k
  <1> QED
    BY <1>1, <1>2

-----------------------------------------------------------------------------
(* The leader's committer touches nothing that is sent.                    *)

\* What is under way and what the follower has stays right when the leader
\* only replicates, applies or builds.
LEMMA CommitterFrame ==
  ASSUME NEW cur, SenderOK(cur), PeerOK(cur), CallsOK(cur), LoadsWhole, early => early',
         UNCHANGED <<term, losses, lostIn, sender, answer, calls, peer>>
  PROVE  SenderOK(cur)' /\ PeerOK(cur)' /\ CallsOK(cur)' /\ LoadsWhole'
  <1>1. \A f : Good(f) => Good(f)'
    BY DEF Good
  <1>2. SenderOK(cur)'
    BY <1>1 DEF SenderOK
  <1>3. PeerOK(cur)'
    BY <1>1 DEF PeerOK, StoredOK, BlockOK, Own, Finished
  <1>4. CallsOK(cur)'
    BY <1>1 DEF CallsOK, CallOK, Own
  <1>5. LoadsWhole'
    BY DEF LoadsWhole, LoadedFrom
  <1> QED
    BY <1>2, <1>3, <1>4, <1>5

LEMMA ReplicateStep ==
  ASSUME NEW cur \in Files, InvAt(cur), DoReplicate
  PROVE  InvAt(cur)'
  <1>1. SenderOK(cur)' /\ PeerOK(cur)' /\ CallsOK(cur)' /\ LoadsWhole'
    BY CommitterFrame DEF InvAt, DoReplicate
  <1>2. SnapTypeOK'
    BY RaftSnapshotAssumption DEF InvAt, SnapTypeOK, DoReplicate
  <1>3. LeaderOK(cur)'
    <2>1. build # NoFile => build.head <= written + 1
      BY DEF InvAt, LeaderOK, SnapTypeOK, File
    <2> QED
      BY <2>1 DEF InvAt, LeaderOK, DoReplicate, Good
  <1>4. NothingLost'
    BY DEF InvAt, NothingLost, LoadedFrom, DoReplicate
  <1> QED
    BY <1>1, <1>2, <1>3, <1>4 DEF InvAt

LEMMA ApplyEntryStep ==
  ASSUME NEW cur \in Files, InvAt(cur), ApplyEntry
  PROVE  InvAt(cur)'
  <1>1. SenderOK(cur)' /\ PeerOK(cur)' /\ CallsOK(cur)' /\ LoadsWhole'
    BY CommitterFrame DEF InvAt, ApplyEntry
  <1>2. SnapTypeOK'
    BY RaftSnapshotAssumption DEF InvAt, SnapTypeOK, ApplyEntry
  <1>3. LeaderOK(cur)'
    BY DEF InvAt, LeaderOK, ApplyEntry, Good
  <1>4. NothingLost'
    BY DEF InvAt, NothingLost, LoadedFrom, ApplyEntry
  <1> QED
    BY <1>1, <1>2, <1>3, <1>4 DEF InvAt

LEMMA BuildSnapshotStep ==
  ASSUME NEW cur \in Files, InvAt(cur), BuildSnapshot
  PROVE  InvAt(cur)'
  <1>1. SenderOK(cur)' /\ PeerOK(cur)' /\ CallsOK(cur)' /\ LoadsWhole'
    BY CommitterFrame DEF InvAt, BuildSnapshot
  <1>0. /\ written \in 0 .. MaxEntry /\ applied \in 0 .. written /\ dropped \in 0 .. written
        /\ snapshot \in File /\ early \in BOOLEAN /\ snapshot.head <= dropped /\ written > dropped
    BY DEF InvAt, SnapTypeOK, LeaderOK, BuildSnapshot
  <1>2. build' \in File
    BY <1>0, RaftSnapshotAssumption DEF BuildSnapshot, File
  <1>3. SnapTypeOK'
    BY <1>2, <1>0 DEF InvAt, SnapTypeOK, BuildSnapshot
  <1>4. build'.head = written /\ build'.holds = applied
    BY DEF BuildSnapshot
  <1>5. Good(build)'
    <2>1. ~early' => ~(written > applied)
      BY Zenon DEF BuildSnapshot
    <2>2. written \in Nat /\ applied \in Nat /\ applied <= written /\ written >= 1
      BY <1>0, RaftSnapshotAssumption
    <2>3. ~early' => written = applied
      BY <2>1, <2>2
    <2> QED
      BY <1>2, <1>4, <2>2, <2>3 DEF Good
  <1>6. build'.head >= snapshot.head /\ build'.head <= written
    BY <1>0, <1>4, RaftSnapshotAssumption DEF File
  <1>7. LeaderOK(cur)'
    BY <1>5, <1>6 DEF InvAt, LeaderOK, BuildSnapshot, Good
  <1>8. NothingLost'
    BY DEF InvAt, NothingLost, LoadedFrom, BuildSnapshot
  <1> QED
    BY <1>1, <1>3, <1>7, <1>8 DEF InvAt

LEMMA SnapshotDoneStep ==
  ASSUME NEW cur \in Files, InvAt(cur), SnapshotDone
  PROVE  InvAt(cur)'
  <1>1. SenderOK(cur)' /\ PeerOK(cur)' /\ CallsOK(cur)' /\ LoadsWhole'
    BY CommitterFrame DEF InvAt, SnapshotDone
  <1>0. /\ written \in 0 .. MaxEntry /\ dropped \in 0 .. written /\ term \in 1 .. MaxSnapTerm
        /\ snapshot \in File /\ build \in File /\ early \in BOOLEAN
        /\ build # NoFile /\ Good(build) /\ build.head >= snapshot.head /\ build.head <= written
        /\ cur[term].head <= snapshot.head
    BY DEF InvAt, SnapTypeOK, LeaderOK, SnapshotDone
  <1>2. /\ snapshot' = build /\ build' = NoFile /\ dropped' = written
        /\ early' = (early \/ written > build.head)
        /\ UNCHANGED <<term, written, applied, sender, calls, answer, peer, losses, lostIn>>
    BY DEF SnapshotDone, Kept
  <1>3. NoFile \in File
    BY RaftSnapshotAssumption DEF NoFile, File
  <1>4. SnapTypeOK'
    <2>1. dropped' \in 0 .. written'
      BY <1>0, <1>2, RaftSnapshotAssumption
    <2>2. early' \in BOOLEAN
      BY <1>2
    <2> QED
      BY <1>0, <1>2, <1>3, <2>1, <2>2 DEF InvAt, SnapTypeOK
  <1>5. Good(build)' \/ build' = NoFile
    BY <1>2
  <1>6. Good(snapshot)'
    BY <1>0, <1>2 DEF Good
  <1>7. cur[term].head <= snapshot'.head /\ snapshot'.head <= dropped'
    <2>1. cur[term] \in File
      BY <1>0 DEF Files
    <2>2. cur[term].head \in Nat /\ snapshot.head \in Nat /\ build.head \in Nat /\ written \in Nat
      BY <1>0, <2>1, RaftSnapshotAssumption DEF File
    <2> QED
      BY <1>0, <1>2, <2>2
  <1>8. LeaderOK(cur)'
    BY <1>2, <1>6, <1>7 DEF InvAt, LeaderOK
  <1>9. NothingLost'
    <2>1. ~early' => build.holds = build.head /\ written <= build.head
      <3>1. build.head \in Nat /\ written \in Nat
        BY <1>0, RaftSnapshotAssumption DEF File
      <3>2. ~early' => ~early /\ ~(written > build.head)
        BY <1>2, Zenon
      <3> QED
        BY <3>1, <3>2, <1>0 DEF Good
    <2>2. ~early' => dropped' <= snapshot'.holds
      BY <1>2, <2>1
    <2> QED
      BY <1>2, <2>2 DEF InvAt, NothingLost, LoadedFrom
  <1> QED
    BY <1>1, <1>4, <1>8, <1>9 DEF InvAt

-----------------------------------------------------------------------------
(* The sender.                                                             *)

LEMMA StartSendStep ==
  ASSUME NEW cur \in Files, InvAt(cur), StartSend
  PROVE  \E c \in Files : InvAt(c)'
  <1>0. /\ term \in 1 .. MaxSnapTerm /\ snapshot \in File /\ snapshot # NoFile /\ Good(snapshot)
        /\ sender = Idle /\ cur[term].head <= snapshot.head /\ snapshot.head <= dropped
        /\ dropped \in 0 .. written /\ written \in 0 .. MaxEntry
    BY DEF InvAt, SnapTypeOK, LeaderOK, StartSend
  <1>1. PICK c \in Files : c = [cur EXCEPT ![term] = snapshot]
    BY <1>0 DEF Files
  <1>2. c[term] = snapshot /\ \A t \in 0 .. MaxSnapTerm : t # term => c[t] = cur[t]
    BY <1>0, <1>1 DEF Files
  <1>3. /\ sender' = [file |-> snapshot, at |-> 0, waits |-> FALSE]
        /\ UNCHANGED <<term, written, applied, dropped, snapshot, build, calls, answer, peer,
                       losses, lostIn, early>>
    BY DEF StartSend
  <1>4. \A t \in 0 .. MaxSnapTerm : cur[t].head \in Nat /\ c[t].head \in Nat
    BY RaftSnapshotAssumption DEF Files, File
  <1>5. \A t \in 0 .. MaxSnapTerm : cur[t].head <= c[t].head
    BY <1>0, <1>2, <1>4
  <1>6. answer = NoAnswer
    BY <1>0 DEF InvAt, SenderOK, Idle
  <1>7. SnapTypeOK'
    <2>1. sender' \in [file : File, at : Nat, waits : BOOLEAN]
      BY <1>0, <1>3
    <2> QED
      BY <1>3, <2>1 DEF InvAt, SnapTypeOK
  <1>8. LeaderOK(c)'
    <2>1. \A t, u \in 0 .. term : t <= u => c[t].head <= c[u].head
      <3> SUFFICES ASSUME NEW t \in 0 .. term, NEW u \in 0 .. term, t <= u
                   PROVE  c[t].head <= c[u].head
        OBVIOUS
      <3>1. t \in 0 .. MaxSnapTerm /\ u \in 0 .. MaxSnapTerm /\ term \in 0 .. MaxSnapTerm
        BY <1>0, RaftSnapshotAssumption
      <3>2. cur[t].head <= cur[u].head /\ cur[u].head <= c[u].head
        BY <3>1, <1>5 DEF InvAt, LeaderOK
      <3>3. CASE t # term
        BY <3>1, <3>2, <3>3, <1>2, <1>4
      <3>4. CASE t = term
        BY <3>1, <3>4, <1>0, <1>4
      <3> QED
        BY <3>3, <3>4
    <2>2. c[term].head <= snapshot.head
      BY <1>0, <1>2, <1>4
    <2>3. \A x \in lostIn : x[1] <= term /\ x[2].head <= c[x[1]].head
      <3> SUFFICES ASSUME NEW x \in lostIn
                   PROVE  x[1] <= term /\ x[2].head <= c[x[1]].head
        OBVIOUS
      <3>1. x \in (1 .. MaxSnapTerm) \X File /\ x[1] <= term /\ x[2].head <= cur[x[1]].head
        BY DEF InvAt, SnapTypeOK, LeaderOK
      <3>2. x[1] \in 0 .. MaxSnapTerm /\ x[2].head \in Nat
        BY <3>1, RaftSnapshotAssumption DEF File
      <3>3. cur[x[1]].head <= c[x[1]].head
        BY <3>2, <1>5
      <3> QED
        BY <3>1, <3>2, <3>3, <1>4
    <2> QED
      BY <1>3, <2>1, <2>2, <2>3 DEF InvAt, LeaderOK, Good
  <1>9. SenderOK(c)'
    <2>1. AtOK(0, snapshot)
      BY <1>0, FileBlocks DEF AtOK
    <2> QED
      BY <1>0, <1>2, <1>3, <1>6, <2>1 DEF SenderOK, Good
  <1>10. PeerOK(c)'
    <2>1. peer \in Peer /\ peer.term <= term /\ peer.committed <= cur[peer.term].head
          /\ StoredOK(cur, peer.stored, peer.term)
      BY DEF InvAt, PeerOK
    <2>2. peer.term \in 0 .. MaxSnapTerm /\ peer.committed \in Nat /\ peer.stored \in Seq(Block)
      BY <2>1, RaftSnapshotAssumption DEF Peer
    <2>3. peer.committed <= c[peer.term].head
      BY <2>1, <2>2, <1>4, <1>5
    <2>4. ASSUME NEW b \in 1 .. Len(peer.stored)
          PROVE  /\ BlockOK(c, peer.stored, peer.term, b)'
                 /\ peer.term = term => <<peer.term, peer.stored[b].file>> \in lostIn
      <3>1. BlockOK(cur, peer.stored, peer.term, b)
        BY <2>1 DEF StoredOK
      <3>2. peer.term = term => <<peer.term, peer.stored[b].file>> \in lostIn
        BY <3>1, <1>0 DEF BlockOK
      <3>3. peer.term # term => c[peer.term] = cur[peer.term]
        BY <1>2, <2>2
      <3> QED
        BY <3>1, <3>2, <3>3, <1>3 DEF BlockOK, Own, Good
    <2> QED
      BY <1>3, <2>1, <2>3, <2>4 DEF PeerOK, StoredOK
  <1>11. CallsOK(c)'
    <2>1. ASSUME NEW r \in calls PROVE CallOK(c, r)'
      <3>1. CallOK(cur, r) /\ r \in InstallCall
        BY DEF InvAt, CallsOK, SnapTypeOK
      <3>2. r.term \in 0 .. MaxSnapTerm
        BY <3>1 DEF InstallCall
      <3>3. PICK f \in File :
              /\ From(r, f) /\ Good(f) /\ Own(cur, r.term, f)
              /\ r.term = term => r.attempt # losses /\ <<term, f>> \in lostIn
        BY <3>1, <1>0 DEF CallOK, Idle
      <3>4. Own(c, r.term, f)
        BY <3>2, <3>3, <1>2 DEF Own
      <3> QED
        BY <3>1, <3>3, <3>4, <1>3 DEF CallOK, Own, Good
    <2> QED
      BY <2>1, <1>3 DEF CallsOK
  <1>12. LoadsWhole' /\ NothingLost'
    BY <1>3 DEF InvAt, LoadsWhole, NothingLost, LoadedFrom
  <1> QED
    BY <1>7, <1>8, <1>9, <1>10, <1>11, <1>12 DEF InvAt

LEMMA DeposedStep ==
  ASSUME NEW cur \in Files, InvAt(cur), Deposed
  PROVE  \E c \in Files : InvAt(c)'
  <1>0. /\ term \in 1 .. MaxSnapTerm /\ term + 1 \in 1 .. MaxSnapTerm /\ snapshot \in File
        /\ cur[term].head <= snapshot.head
    BY RaftSnapshotAssumption DEF InvAt, SnapTypeOK, LeaderOK, Deposed
  <1>1. PICK c \in Files : c = [cur EXCEPT ![term + 1] = cur[term]]
    <2>1. cur[term] \in File
      BY <1>0, RaftSnapshotAssumption DEF Files
    <2> QED
      BY <2>1 DEF Files
  <1>2. c[term + 1] = cur[term] /\ \A t \in 0 .. MaxSnapTerm : t # term + 1 => c[t] = cur[t]
    BY <1>0, <1>1 DEF Files
  <1>3. /\ sender' = Idle /\ answer' = NoAnswer /\ term' = term + 1
        /\ UNCHANGED <<written, applied, dropped, snapshot, build, calls, peer, losses, lostIn, early>>
    BY DEF Deposed
  <1>4. \A t \in 0 .. MaxSnapTerm : cur[t].head \in Nat /\ c[t].head \in Nat
    BY RaftSnapshotAssumption DEF Files, File
  <1>5. \A t \in 0 .. term : t \in 0 .. MaxSnapTerm /\ c[t] = cur[t]
    BY <1>0, <1>2, RaftSnapshotAssumption
  <1>6. Idle \in [file : File, at : Nat, waits : BOOLEAN]
        /\ NoAnswer \in [term : 0 .. MaxSnapTerm, stored : Nat]
    BY RaftSnapshotAssumption DEF Idle, NoAnswer, NoFile, File
  <1>7. SnapTypeOK'
    <2>1. term' \in 1 .. MaxSnapTerm
      BY <1>0, <1>3
    <2> QED
      BY <1>3, <1>6, <2>1 DEF InvAt, SnapTypeOK
  <1>8. LeaderOK(c)'
    <2>1. \A t, u \in 0 .. term + 1 : t <= u => c[t].head <= c[u].head
      <3> SUFFICES ASSUME NEW t \in 0 .. term + 1, NEW u \in 0 .. term + 1, t <= u
                   PROVE  c[t].head <= c[u].head
        OBVIOUS
      <3>1. term \in 0 .. term /\ term + 1 \in 0 .. MaxSnapTerm
        BY <1>0
      <3>2. \A v, w \in 0 .. term : v <= w => cur[v].head <= cur[w].head
        BY DEF InvAt, LeaderOK
      <3>3. CASE u # term + 1
        <4>1. t \in 0 .. term /\ u \in 0 .. term
          BY <3>3, <1>0
        <4> QED
          BY <4>1, <3>2, <1>5
      <3>4. CASE u = term + 1 /\ t # term + 1
        <4>1. t \in 0 .. term /\ t <= term
          BY <3>4, <1>0
        <4> QED
          BY <4>1, <3>1, <3>2, <3>4, <1>2, <1>5
      <3>5. CASE u = term + 1 /\ t = term + 1
        BY <3>1, <3>5, <1>4
      <3> QED
        BY <3>3, <3>4, <3>5
    <2>2. c[term + 1].head <= snapshot.head
      BY <1>0, <1>2
    <2>3. \A x \in lostIn : x[1] <= term + 1 /\ x[2].head <= c[x[1]].head
      <3> SUFFICES ASSUME NEW x \in lostIn
                   PROVE  x[1] <= term + 1 /\ x[2].head <= c[x[1]].head
        OBVIOUS
      <3>1. x \in (1 .. MaxSnapTerm) \X File /\ x[1] <= term /\ x[2].head <= cur[x[1]].head
        BY DEF InvAt, SnapTypeOK, LeaderOK
      <3>2. x[1] \in 0 .. term
        BY <3>1, <1>0
      <3> QED
        BY <3>1, <3>2, <1>0, <1>5
    <2> QED
      BY <1>3, <2>1, <2>2, <2>3 DEF InvAt, LeaderOK, Good
  <1>9. SenderOK(c)'
    BY <1>3 DEF SenderOK
  <1>10. PeerOK(c)'
    <2>1. peer \in Peer /\ peer.term <= term /\ peer.committed <= cur[peer.term].head
          /\ StoredOK(cur, peer.stored, peer.term)
      BY DEF InvAt, PeerOK
    <2>2. peer.term \in 0 .. term /\ peer.term # term + 1 /\ peer.term <= term + 1
      BY <2>1, <1>0 DEF Peer
    <2>3. peer.committed <= c[peer.term].head
      BY <2>1, <2>2, <1>5
    <2>4. StoredOK(c, peer.stored, peer.term)'
      BY <1>3, <1>5, <2>1, <2>2 DEF StoredOK, BlockOK, Own, Good
    <2> QED
      BY <1>3, <2>1, <2>2, <2>3, <2>4 DEF PeerOK
  <1>11. CallsOK(c)'
    <2>1. ASSUME NEW r \in calls PROVE CallOK(c, r)'
      <3>1. CallOK(cur, r) /\ r \in InstallCall
        BY DEF InvAt, CallsOK, SnapTypeOK
      <3>2. r.term \in 0 .. term /\ r.term # term + 1 /\ r.term <= term + 1
        BY <3>1, <1>0 DEF InstallCall, CallOK
      <3>3. PICK f \in File : From(r, f) /\ Good(f) /\ Own(cur, r.term, f)
        BY <3>1 DEF CallOK
      <3>4. Own(c, r.term, f)
        BY <3>2, <3>3, <1>5 DEF Own
      <3> QED
        BY <3>1, <3>2, <3>3, <3>4, <1>3 DEF CallOK, Own, Good
    <2> QED
      BY <2>1, <1>3 DEF CallsOK
  <1>12. LoadsWhole' /\ NothingLost'
    BY <1>3 DEF InvAt, LoadsWhole, NothingLost, LoadedFrom
  <1> QED
    BY <1>7, <1>8, <1>9, <1>10, <1>11, <1>12 DEF InvAt

LEMMA SendChunkStep ==
  ASSUME NEW cur \in Files, InvAt(cur), SendChunk
  PROVE  InvAt(cur)'
  <1> DEFINE f == sender.file
             new == [term |-> term, attempt |-> losses, head |-> f.head, offset |-> sender.at,
                     data |-> ReadAt(f, sender.at), done |-> LastChunk(f, sender.at)]
  <1>0. /\ term \in 1 .. MaxSnapTerm /\ losses \in 0 .. MaxLoss
        /\ sender \in [file : File, at : Nat, waits : BOOLEAN] /\ sender # Idle /\ ~sender.waits
        /\ f = cur[term] /\ Good(f) /\ AtOK(sender.at, f) /\ answer = NoAnswer
    BY DEF InvAt, SnapTypeOK, SenderOK, SendChunk
  <1>1. /\ calls' = calls \cup {new} /\ sender' = [sender EXCEPT !.waits = TRUE]
        /\ UNCHANGED <<term, written, applied, dropped, snapshot, build, answer, peer, losses, lostIn, early>>
    BY DEF SendChunk
  <1>2. /\ sender' \in [file : File, at : Nat, waits : BOOLEAN]
        /\ sender'.file = f /\ sender'.at = sender.at /\ sender'.waits = TRUE /\ sender' # Idle
    BY <1>0, <1>1 DEF Idle
  <1>3. f \in File /\ sender.at \in Nat /\ f.head \in 1 .. MaxEntry
    BY <1>0, RaftSnapshotAssumption DEF Good, File
  <1>4. ReadAt(f, sender.at) \in Seq(Block) /\ LastChunk(f, sender.at) \in BOOLEAN
    BY <1>0, <1>3, ChunkRead DEF LastChunk
  <1>5. new \in InstallCall
    BY <1>0, <1>3, <1>4 DEF InstallCall
  <1>6. SnapTypeOK'
    BY <1>1, <1>2, <1>5 DEF InvAt, SnapTypeOK
  <1>7. LeaderOK(cur)'
    BY <1>1 DEF InvAt, LeaderOK, Good
  <1>8. SenderOK(cur)'
    BY <1>0, <1>1, <1>2 DEF SenderOK, Good
  <1>9. PeerOK(cur)'
    BY <1>0, <1>1, <1>2 DEF InvAt, PeerOK, StoredOK, BlockOK, Own, Good, Finished
  <1>10. CallsOK(cur)'
    <2>0. PICK q \in InstallCall : q = new
      BY <1>5
    <2>1. /\ From(q, f) /\ q.term = term /\ q.attempt = losses /\ q.offset = sender.at
          /\ calls' = calls \cup {q}
      BY <1>0, <1>1, <2>0 DEF From
    <2> HIDE DEF new
    <2>2. q.term <= term /\ q.attempt <= losses
      BY <1>0, <2>1
    <2>3. CallOK(cur, q)'
      BY <1>0, <1>1, <1>2, <1>3, <2>1, <2>2 DEF CallOK, Own, Good
    <2>4. ASSUME NEW r \in calls PROVE CallOK(cur, r)'
      <3>1. CallOK(cur, r) /\ ~sender.waits
        BY <1>0 DEF InvAt, CallsOK
      <3> QED
        BY <3>1, <1>1 DEF CallOK, Own, Good
    <2> QED
      BY <2>1, <2>3, <2>4 DEF CallsOK
  <1>11. LoadsWhole' /\ NothingLost'
    BY <1>1 DEF InvAt, LoadsWhole, NothingLost, LoadedFrom
  <1> QED
    BY <1>6, <1>7, <1>8, <1>9, <1>10, <1>11 DEF InvAt

LEMMA AnsweredStep ==
  ASSUME NEW cur \in Files, InvAt(cur), Answered
  PROVE  InvAt(cur)'
  <1> DEFINE f == sender.file
             sent == Len(ReadAt(f, sender.at))
             over == answer.stored # sender.at + 2 * sent
             ends == answer.term > term \/ (~over /\ LastChunk(f, sender.at))
             next == IF over THEN answer.stored + 1 ELSE answer.stored
  <1>0. /\ term \in 1 .. MaxSnapTerm /\ answer # NoAnswer /\ answer.term = term
        /\ answer \in [term : 0 .. MaxSnapTerm, stored : Nat] /\ answer.stored % 2 = 0
        /\ sender \in [file : File, at : Nat, waits : BOOLEAN] /\ sender.waits /\ sender # Idle
        /\ f = cur[term] /\ Good(f) /\ AtOK(sender.at, f)
    BY DEF InvAt, SnapTypeOK, SenderOK, Answered, Idle
  <1>1. /\ sender' = IF ends THEN Idle ELSE [file |-> f, waits |-> FALSE, at |-> next]
        /\ answer' = NoAnswer
        /\ UNCHANGED <<term, written, applied, dropped, snapshot, build, calls, peer, losses, lostIn, early>>
    BY DEF Answered
  <1>2. f \in File /\ sender.at \in Nat /\ next \in Nat /\ Blocks(f) \in {3, 4}
    BY <1>0, FileBlocks
  <1>3. ends => Finished
    BY <1>0 DEF Finished
  <1>4. ~ends => AtOK(next, f)
    <2>1. CASE over
      <3>1. (answer.stored + 1) % 2 = 1
        BY <1>0
      <3> QED
        BY <2>1, <3>1 DEF AtOK
    <2>2. CASE ~over /\ ~LastChunk(f, sender.at)
      <3>0. /\ sender.at % 2 = 1 => ReadAt(f, sender.at) = <<>>
            /\ sender.at % 2 = 0 =>
                 /\ Len(ReadAt(f, sender.at)) =
                      IF LastChunk(f, sender.at) THEN Blocks(f) - sender.at \div 2 ELSE 2
                 /\ LastChunk(f, sender.at) <=> sender.at \div 2 + 2 > Blocks(f)
        BY <1>0, <1>2, ChunkRead
      <3>1. CASE sender.at % 2 = 1
        <4>1. sent = 0
          BY <3>0, <3>1
        <4> QED
          BY <4>1, <3>1, <2>2, <1>0, <1>2
      <3>2. CASE sender.at % 2 # 1
        <4>1. sender.at \in {0, 4, 8} /\ sender.at \div 2 <= Blocks(f) /\ sender.at % 2 = 0
          BY <3>2, <1>0 DEF AtOK
        <4>2. sent = 2 /\ sender.at \div 2 + 2 <= Blocks(f)
          BY <2>2, <3>0, <4>1, <1>2
        <4>3. next = sender.at + 4 /\ sender.at \in {0, 4}
          BY <2>2, <4>1, <4>2, <1>2
        <4>4. next \in {4, 8} /\ next \div 2 <= Blocks(f)
          BY <4>2, <4>3
        <4> QED
          BY <4>4 DEF AtOK
      <3> QED
        BY <3>1, <3>2
    <2> QED
      BY <2>1, <2>2
  <1> HIDE DEF f, ends, next
  <1>5. /\ sender' \in [file : File, at : Nat, waits : BOOLEAN]
        /\ ends => sender' = Idle
        /\ ~ends => sender'.file = f /\ sender'.at = next /\ sender'.waits = FALSE
    <2>1. Idle \in [file : File, at : Nat, waits : BOOLEAN]
      BY RaftSnapshotAssumption DEF Idle, NoFile, File
    <2>2. [file |-> f, waits |-> FALSE, at |-> next] \in [file : File, at : Nat, waits : BOOLEAN]
      BY <1>2
    <2> QED
      BY <1>1, <2>1, <2>2
  <1>6. ~ends => sender' # Idle
    <2>1. f # NoFile
      BY <1>0, <1>2, RaftSnapshotAssumption DEF Good, NoFile, File
    <2> QED
      BY <1>5, <2>1 DEF Idle
  <1>7. SnapTypeOK'
    <2>1. NoAnswer \in [term : 0 .. MaxSnapTerm, stored : Nat]
      BY RaftSnapshotAssumption DEF NoAnswer
    <2> QED
      BY <1>1, <1>5, <2>1 DEF InvAt, SnapTypeOK
  <1>8. LeaderOK(cur)'
    BY <1>1 DEF InvAt, LeaderOK, Good
  <1>9. SenderOK(cur)'
    BY <1>0, <1>1, <1>4, <1>5 DEF SenderOK, Good
  <1>10. PeerOK(cur)'
    <2>1. peer \in Peer /\ peer.term <= term /\ peer.committed <= cur[peer.term].head
          /\ StoredOK(cur, peer.stored, peer.term)
      BY DEF InvAt, PeerOK
    <2>2. ~Finished'
      BY <1>1 DEF Finished
    <2>3. ASSUME NEW b \in 1 .. Len(peer.stored)
          PROVE  BlockOK(cur, peer.stored, peer.term, b)'
      <3>1. /\ BlockOK(cur, peer.stored, peer.term, b)
            /\ peer.term = term => <<peer.term, peer.stored[b].file>> \in lostIn \/ ~Finished
        BY <2>1 DEF StoredOK
      <3>2. peer.term = term => <<peer.term, peer.stored[b].file>> \in lostIn
                                \/ (sender' # Idle /\ peer.stored[b].file = sender'.file)
        BY <3>1, <1>3, <1>5, <1>6 DEF BlockOK, f
      <3> QED
        BY <3>1, <3>2, <1>1 DEF BlockOK, Own, Good
    <2> QED
      BY <1>1, <2>1, <2>2, <2>3 DEF PeerOK, StoredOK
  <1>11. CallsOK(cur)'
    <2>1. ASSUME NEW r \in calls PROVE CallOK(cur, r)'
      <3>1. CallOK(cur, r)
        BY DEF InvAt, CallsOK
      <3> QED
        BY <3>1, <1>0, <1>1 DEF CallOK, Own, Good
    <2> QED
      BY <1>1, <2>1 DEF CallsOK
  <1>12. LoadsWhole' /\ NothingLost'
    BY <1>1 DEF InvAt, LoadsWhole, NothingLost, LoadedFrom
  <1> QED
    BY <1>7, <1>8, <1>9, <1>10, <1>11, <1>12 DEF InvAt

LEMMA CallFailsStep ==
  ASSUME NEW cur \in Files, InvAt(cur), CallFails
  PROVE  InvAt(cur)'
  <1> DEFINE f == sender.file
  <1>0. /\ term \in 1 .. MaxSnapTerm /\ losses \in 0 .. MaxLoss /\ losses < MaxLoss
        /\ sender \in [file : File, at : Nat, waits : BOOLEAN] /\ sender.waits /\ sender # Idle
        /\ f = cur[term] /\ Good(f) /\ lostIn \subseteq (1 .. MaxSnapTerm) \X File
    BY DEF InvAt, SnapTypeOK, SenderOK, CallFails, Idle
  <1>1. /\ losses' = losses + 1 /\ sender' = Idle /\ answer' = NoAnswer
        /\ lostIn' = lostIn \cup {<<term, f>>} /\ calls' \subseteq calls
        /\ UNCHANGED <<term, written, applied, dropped, snapshot, build, peer, early>>
    BY DEF CallFails
  <1>2. f \in File
    BY <1>0
  <1>3. SnapTypeOK'
    <2>1. sender' \in [file : File, at : Nat, waits : BOOLEAN]
          /\ answer' \in [term : 0 .. MaxSnapTerm, stored : Nat]
      BY <1>1, RaftSnapshotAssumption DEF Idle, NoAnswer, NoFile, File
    <2>2. losses' \in 0 .. MaxLoss
      BY <1>0, <1>1, RaftSnapshotAssumption
    <2>3. lostIn' \subseteq (1 .. MaxSnapTerm) \X File
      BY <1>0, <1>1, <1>2
    <2> QED
      BY <1>1, <2>1, <2>2, <2>3 DEF InvAt, SnapTypeOK
  <1>4. LeaderOK(cur)'
    <2>1. term <= term /\ f.head <= cur[term].head
      BY <1>0, <1>2, RaftSnapshotAssumption DEF File
    <2>2. \A x \in lostIn' : x[1] <= term /\ x[2].head <= cur[x[1]].head
      BY <1>1, <2>1 DEF InvAt, LeaderOK
    <2> QED
      BY <1>1, <2>2 DEF InvAt, LeaderOK, Good
  <1>5. SenderOK(cur)'
    BY <1>1 DEF SenderOK
  <1>6. PeerOK(cur)'
    <2>1. peer \in Peer /\ peer.term <= term /\ peer.committed <= cur[peer.term].head
          /\ StoredOK(cur, peer.stored, peer.term)
      BY DEF InvAt, PeerOK
    <2>2. ASSUME NEW b \in 1 .. Len(peer.stored)
          PROVE  /\ BlockOK(cur, peer.stored, peer.term, b)'
                 /\ peer.term = term => <<peer.term, peer.stored[b].file>> \in lostIn'
      <3>1. BlockOK(cur, peer.stored, peer.term, b)
        BY <2>1 DEF StoredOK
      <3>2. peer.term = term => <<peer.term, peer.stored[b].file>> \in lostIn'
        BY <3>1, <1>1 DEF BlockOK
      <3> QED
        BY <3>1, <3>2, <1>1 DEF BlockOK, Own, Good
    <2> QED
      BY <1>1, <2>1, <2>2 DEF PeerOK, StoredOK
  <1>7. CallsOK(cur)'
    <2>1. ASSUME NEW r \in calls PROVE CallOK(cur, r)'
      <3>1. CallOK(cur, r) /\ r \in InstallCall
        BY DEF InvAt, CallsOK, SnapTypeOK
      <3>2. r.attempt \in Nat /\ r.attempt <= losses /\ r.attempt # losses + 1 /\ r.attempt <= losses + 1
        BY <3>1, <1>0 DEF InstallCall, CallOK
      <3>3. PICK g \in File :
              /\ From(r, g) /\ Good(g) /\ Own(cur, r.term, g)
              /\ r.term = term => IF r.attempt = losses THEN g = f ELSE <<term, g>> \in lostIn
        BY <3>1 DEF CallOK
      <3>4. r.term = term => <<term, g>> \in lostIn'
        BY <3>3, <1>1
      <3> QED
        BY <3>1, <3>2, <3>3, <3>4, <1>1 DEF CallOK, Own, Good
    <2> QED
      BY <1>1, <2>1 DEF CallsOK
  <1>8. LoadsWhole' /\ NothingLost'
    BY <1>1 DEF InvAt, LoadsWhole, NothingLost, LoadedFrom
  <1> QED
    BY <1>3, <1>4, <1>5, <1>6, <1>7, <1>8 DEF InvAt

-----------------------------------------------------------------------------
(* The follower.                                                           *)

LEMMA RefuseStep ==
  ASSUME NEW cur \in Files, InvAt(cur), NEW r \in calls, RefuseInstall(r)
  PROVE  InvAt(cur)'
  <1>1. /\ calls' \subseteq calls
        /\ UNCHANGED <<term, written, applied, dropped, snapshot, build, sender, answer, peer, losses,
                       lostIn, early>>
    BY DEF RefuseInstall
  <1>2. SnapTypeOK'
    BY <1>1 DEF InvAt, SnapTypeOK
  <1>3. LeaderOK(cur)' /\ SenderOK(cur)'
    BY <1>1 DEF InvAt, LeaderOK, SenderOK, Good
  <1>4. PeerOK(cur)'
    BY <1>1 DEF InvAt, PeerOK, StoredOK, BlockOK, Own, Good, Finished
  <1>5. CallsOK(cur)'
    BY <1>1 DEF InvAt, CallsOK, CallOK, Own, Good
  <1>6. LoadsWhole' /\ NothingLost'
    BY <1>1 DEF InvAt, LoadsWhole, NothingLost, LoadedFrom
  <1> QED
    BY <1>2, <1>3, <1>4, <1>5, <1>6 DEF InvAt

\* A set with two members has a cardinality above one.
LEMMA TwoMembers ==
  ASSUME NEW S, IsFiniteSet(S), NEW x \in S, NEW y \in S, x # y
  PROVE  Cardinality(S) > 1
  <1>1. Cardinality(S) \in Nat
    BY FS_CardinalityType
  <1>2. Cardinality(S) # 0
    BY FS_EmptySet
  <1>3. Cardinality(S) # 1
    BY FS_Singleton
  <1> QED
    BY <1>1, <1>2, <1>3

LEMMA BlockFields ==
  ASSUME NEW x, NEW f, NEW b, x = [file |-> f, block |-> b]
  PROVE  x.file = f /\ x.block = b
  OBVIOUS

\* What the writer has when r is handled: blocks in their places, of the term of r.
LEMMA WriterOK ==
  ASSUME NEW cur \in Files, InvAt(cur), NEW r \in calls, ~(r.term < peer.term)
  PROVE  Writer(r) \in Seq(Block) /\ StoredOK(cur, Writer(r), r.term)
  <1>1. peer \in Peer /\ StoredOK(cur, peer.stored, peer.term) /\ r \in InstallCall
    BY DEF InvAt, PeerOK, SnapTypeOK
  <1>2. CASE peer.open /\ r.term <= peer.term
    <2>1. r.term = peer.term
      BY <1>1, <1>2 DEF InstallCall, Peer
    <2> QED
      BY <1>1, <1>2, <2>1 DEF Writer, Peer
  <1>3. CASE ~(peer.open /\ r.term <= peer.term)
    <2>1. Writer(r) = <<>>
      BY <1>3 DEF Writer
    <2>2. <<>> \in Seq(Block) /\ StoredOK(cur, <<>>, r.term)
      BY DEF StoredOK
    <2> QED
      BY <2>1, <2>2
  <1> QED
    BY <1>2, <1>3

\* What is stored when r was handled: the writer's blocks and, if r fits, those of
\* the file of r at their places.
LEMMA StoredFacts ==
  ASSUME NEW cur \in Files, InvAt(cur), NEW r \in calls, ~(r.term < peer.term),
         NEW f \in File, From(r, f), Good(f), Own(cur, r.term, f),
         r.term = term =>
           IF r.attempt = losses
           THEN sender.waits /\ answer = NoAnswer /\ r.offset = sender.at /\ f = sender.file
           ELSE <<term, f>> \in lostIn,
         NEW S, S = IF Fits(r, Writer(r)) THEN Writer(r) \o r.data ELSE Writer(r)
  PROVE  /\ S \in Seq(Block)
         /\ \A b \in 1 .. Len(S) :
              /\ BlockOK(cur, S, r.term, b)
              /\ r.term = term => <<r.term, S[b].file>> \in lostIn \/ ~Finished \/ Mine(r)
         /\ ~(Fits(r, Writer(r)) /\ r.done) => Len(S) % 2 = 0
         /\ Fits(r, Writer(r)) /\ r.done =>
              /\ Len(S) = Blocks(f)
              /\ S[Len(S)].file = f \/ Blocks(f) = 4
         /\ (LastChunk(f, r.offset) /\ 2 * Len(S) = r.offset + 2 * Len(ReadAt(f, r.offset)))
              => Fits(r, Writer(r))
  <1> DEFINE W == Writer(r)
             d == ReadAt(f, r.offset)
  <1>1. W \in Seq(Block) /\ StoredOK(cur, W, r.term)
    BY WriterOK
  <1>2. r \in InstallCall /\ r.offset \in Nat /\ r.data = d /\ AtOK(r.offset, f)
        /\ r.done = LastChunk(f, r.offset)
    BY DEF InvAt, SnapTypeOK, InstallCall, From
  <1>3. Blocks(f) \in {3, 4}
    BY FileBlocks
  <1>4. /\ d \in Seq(Block)
        /\ r.offset % 2 = 1 => d = <<>>
        /\ r.offset % 2 = 0 =>
              /\ Len(d) = IF LastChunk(f, r.offset) THEN Blocks(f) - r.offset \div 2 ELSE 2
              /\ LastChunk(f, r.offset) <=> r.offset \div 2 + 2 > Blocks(f)
              /\ \A i \in 1 .. Len(d) : d[i] = [file |-> f, block |-> r.offset \div 2 + i]
    BY <1>2, ChunkRead
  <1>5. r.offset % 2 = 0 => r.offset \in {0, 4, 8} /\ r.offset \div 2 <= Blocks(f)
    BY <1>2 DEF AtOK
  <1>6. S = IF Fits(r, W) THEN W \o d ELSE W
    BY <1>2
  <1>7. Fits(r, W) <=> r.offset = 2 * Len(W)
    BY DEF Fits
  <1>8. \A b \in 1 .. Len(W) :
          /\ BlockOK(cur, W, r.term, b)
          /\ r.term = term => <<r.term, W[b].file>> \in lostIn \/ ~Finished
    BY <1>1 DEF StoredOK
  <1>9. Len(W) \in Nat /\ Len(W) % 2 = 0 /\ Len(d) \in Nat
    BY <1>1, <1>4 DEF StoredOK
  <1>10. r.term = term => <<r.term, f>> \in lostIn \/ (Mine(r) /\ f = sender.file /\ sender # Idle)
    BY DEF Mine, Idle
  <1> HIDE DEF W, d
  <1>11. CASE ~Fits(r, W)
    <2>1. S = W
      BY <1>6, <1>11
    <2>2. LastChunk(f, r.offset) => 2 * Len(W) # r.offset + 2 * Len(d)
      <3>1. CASE r.offset % 2 = 1
        <4>1. Len(d) = 0
          BY <1>4, <3>1
        <4> QED
          BY <4>1, <1>2, <1>7, <1>9, <1>11
      <3>2. CASE r.offset % 2 # 1
        <4>1. r.offset % 2 = 0
          BY <3>2, <1>2
        <4>2. r.offset \in {0, 4, 8} /\ r.offset \div 2 <= Blocks(f)
          BY <4>1, <1>5
        <4> SUFFICES ASSUME LastChunk(f, r.offset), 2 * Len(W) = r.offset + 2 * Len(d)
                     PROVE  FALSE
          OBVIOUS
        <4>3. Len(d) = Blocks(f) - r.offset \div 2 /\ r.offset \div 2 + 2 > Blocks(f)
          BY <4>1, <1>4
        <4>7. 2 * (r.offset \div 2) = r.offset
          BY <4>2
        <4>8. r.offset \div 2 \in {0, 2, 4}
          BY <4>2
        <4>4. Len(W) = Blocks(f)
          <5> DEFINE h == r.offset \div 2
          <5>1. 2 * Len(W) = 2 * h + 2 * (Blocks(f) - h) /\ h \in Nat
            BY <4>3, <4>7, <4>8
          <5> HIDE DEF h
          <5> QED
            BY <5>1, <1>3, <1>9
        <4>5. Blocks(f) = 4
          BY <4>4, <1>3, <1>9
        <4>6. r.offset = 8
          BY <4>2, <4>3, <4>5
        <4> QED
          BY <4>4, <4>5, <4>6, <1>7, <1>11
      <3> QED
        BY <3>1, <3>2
    <2> QED
      BY <2>1, <2>2, <1>1, <1>8, <1>9, <1>11 DEF W, d
  <1>12. CASE Fits(r, W)
    <2>0. PICK k \in Nat : k = Len(W)
      BY <1>9
    <2>1. r.offset = 2 * k /\ S = W \o d
      BY <1>6, <1>7, <1>12, <2>0
    <2>2. r.offset % 2 = 0 /\ r.offset \div 2 = k
      BY <2>1, <1>9
    <2>3. /\ Len(d) = IF LastChunk(f, r.offset) THEN Blocks(f) - k ELSE 2
          /\ \A i \in 1 .. Len(d) : d[i] = [file |-> f, block |-> k + i]
          /\ k <= Blocks(f) /\ (LastChunk(f, r.offset) <=> k + 2 > Blocks(f))
      BY <2>2, <1>4, <1>5
    <2>4. S \in Seq(Block) /\ Len(S) = k + Len(d)
      <3>1. W \o d \in Seq(Block) /\ Len(W \o d) = Len(W) + Len(d)
        BY <1>1, <1>4, ConcatProperties
      <3> QED
        BY <3>1, <2>0, <2>1, Zenon
    <2>5. /\ \A b \in 1 .. k : S[b] = W[b]
          /\ \A b \in k + 1 .. k + Len(d) : S[b] = d[b - k]
      <3>1. \A b \in 1 .. Len(W) + Len(d) : (W \o d)[b] = IF b <= Len(W) THEN W[b] ELSE d[b - Len(W)]
        BY <1>1, <1>4, ConcatProperties
      <3>2. \A b \in 1 .. k : b \in 1 .. k + Len(d) /\ b <= k
        BY <1>9
      <3>3. \A b \in k + 1 .. k + Len(d) : b \in 1 .. k + Len(d) /\ ~(b <= k)
        BY <1>9
      <3> QED
        BY <2>0, <2>1, <3>1, <3>2, <3>3
    <2>6. \A b \in k + 1 .. k + Len(d) : S[b] = [file |-> f, block |-> b]
      <3> SUFFICES ASSUME NEW b \in k + 1 .. k + Len(d)
                   PROVE  S[b] = [file |-> f, block |-> b]
        OBVIOUS
      <3>1. b - k \in 1 .. Len(d) /\ k + (b - k) = b
        BY <1>9
      <3> QED
        BY <3>1, <2>3, <2>5
    <2>11. \A b \in k + 1 .. k + Len(d) : S[b].file = f /\ S[b].block = b
      <3> SUFFICES ASSUME NEW b \in k + 1 .. k + Len(d)
                   PROVE  S[b].file = f /\ S[b].block = b
        OBVIOUS
      <3>1. S[b] = [file |-> f, block |-> b]
        BY <2>6, Zenon
      <3> QED
        BY <3>1, BlockFields, Zenon
    <2>7. k + Len(d) <= Blocks(f)
      BY <2>3, <1>3, <1>9
    <2>8. ASSUME NEW b \in 1 .. Len(S)
          PROVE  /\ BlockOK(cur, S, r.term, b)
                 /\ r.term = term => <<r.term, S[b].file>> \in lostIn \/ ~Finished \/ Mine(r)
      <3>1. CASE b <= k
        <4>1. b \in 1 .. k
          BY <3>1, <2>4, <1>9
        <4> QED
          BY <4>1, <1>8, <2>0, <2>5 DEF BlockOK
      <3>2. CASE b > k
        <4>1. b \in k + 1 .. k + Len(d)
          BY <3>2, <2>4, <1>9
        <4>2. S[b].file = f /\ S[b].block = b
          BY <4>1, <2>11, Zenon
        <4>3. b <= Blocks(f)
          BY <4>1, <2>7, <1>3, <1>9
        <4>4. BlockOK(cur, S, r.term, b)
          BY <4>2, <4>3, <1>10, Zenon DEF BlockOK
        <4>5. r.term = term => <<r.term, S[b].file>> \in lostIn \/ ~Finished \/ Mine(r)
          BY <4>2, <1>10, Zenon
        <4> QED
          BY <4>4, <4>5
      <3>3. b <= k \/ b > k
        BY <2>4, <1>9
      <3> QED
        BY <3>1, <3>2, <3>3
    <2>9. ~r.done => Len(S) % 2 = 0
      <3>1. ~r.done => Len(S) = k + 2
        BY <2>3, <2>4, <1>2
      <3>2. k % 2 = 0
        BY <2>0, <1>9
      <3>3. (k + 2) % 2 = 0
        BY <3>2
      <3> QED
        BY <3>1, <3>3
    <2>10. r.done => Len(S) = Blocks(f) /\ (S[Len(S)].file = f \/ Blocks(f) = 4)
      <3> SUFFICES ASSUME r.done
                   PROVE  Len(S) = Blocks(f) /\ (S[Len(S)].file = f \/ Blocks(f) = 4)
        OBVIOUS
      <3>0. Len(d) = Blocks(f) - k
        BY <2>3, <1>2
      <3>1. Len(S) = Blocks(f)
        BY <3>0, <2>4, <1>3
      <3>2. CASE k < Blocks(f)
        <4>1. Len(S) \in k + 1 .. k + Len(d)
          BY <3>0, <3>1, <3>2, <1>3, <1>9
        <4>3. PICK b \in k + 1 .. k + Len(d) : b = Len(S)
          BY <4>1, Zenon
        <4>5. S[b].file = f
          BY <2>11, Zenon
        <4>2. S[Len(S)].file = f
          BY <4>3, <4>5, Zenon
        <4> QED
          BY <4>2, <3>1
      <3>3. CASE k = Blocks(f)
        <4>1. k % 2 = 0
          BY <2>0, <1>9
        <4>2. k = 4
          BY <4>1, <3>3, <1>3
        <4> QED
          BY <4>2, <3>1, <3>3
      <3> QED
        BY <3>2, <3>3, <2>3, <1>3, <1>9
    <2> QED
      BY <2>4, <2>8, <2>9, <2>10, <1>12 DEF W, d
  <1> QED
    BY <1>11, <1>12

\* What is loaded is whole, or mixed with a file of which a call was lost.
LEMMA WholeOrMixed ==
  ASSUME NEW cur \in Files, NEW t, NEW S \in Seq(Block), NEW f \in File, Len(S) = Blocks(f),
         \A b \in 1 .. Len(S) : BlockOK(cur, S, t, b),
         S[Len(S)].file = f \/ Blocks(f) = 4
  PROVE  \/ \A g \in {S[b].file : b \in DOMAIN S} : S = Content(g)
         \/ /\ Cardinality({S[b].file : b \in DOMAIN S}) > 1
            /\ \E g \in {S[b].file : b \in DOMAIN S} : <<t, g>> \in lostIn
  <1> DEFINE F == {S[b].file : b \in DOMAIN S}
             n == Len(S)
  <1>1. n \in {3, 4} /\ DOMAIN S = 1 .. n /\ n = Blocks(f)
    BY FileBlocks
  <1>2. \A b \in 1 .. n : S[b] \in Block /\ S[b].file \in F
    BY <1>1
  <1>3. CASE \E b, c \in 1 .. n : S[b].file # S[c].file
    <2>1. PICK b \in 1 .. n, c \in 1 .. n : S[b].file # S[c].file
      BY <1>3
    <2>2. Own(cur, t, S[b].file) /\ Own(cur, t, S[c].file)
      BY DEF BlockOK
    <2>3. <<t, S[b].file>> \in lostIn \/ <<t, S[c].file>> \in lostIn
      BY <2>1, <2>2 DEF Own
    <2>4. IsFiniteSet(F)
      <3>1. IsFiniteSet(DOMAIN S)
        BY <1>1, FS_Interval
      <3>2. PICK q : q = [x \in 1 .. n |-> S[x].file]
        OBVIOUS
      <3>3. q \in Surjection(1 .. n, F)
        BY <3>2, <1>1 DEF Surjection
      <3> HIDE DEF F, n
      <3>4. IsFiniteSet(1 .. n)
        BY <1>1, <3>1, Zenon
      <3> QED
        BY <3>3, <3>4, FS_Surjection
    <2>5. Cardinality(F) > 1
      BY <2>1, <2>4, <1>2, TwoMembers
    <2> QED
      BY <2>3, <2>5, <1>2
  <1>4. CASE \A b, c \in 1 .. n : S[b].file = S[c].file
    <2> SUFFICES ASSUME NEW g \in F PROVE S = Content(g)
      OBVIOUS
    <2>1. \A b \in 1 .. n : S[b].file = g
      BY <1>1, <1>4
    <2>2. n \in 1 .. n /\ 1 \in 1 .. n
      BY <1>1
    <2>3. g \in File /\ n <= Blocks(g)
      BY <2>1, <2>2 DEF BlockOK, Good
    <2>4. Blocks(g) = n
      BY <2>1, <2>2, <2>3, <1>1, FileBlocks
    <2>5. \A b \in 1 .. n : S[b] = [file |-> g, block |-> b]
      BY <2>1, <1>2 DEF BlockOK, Block
    <2>6. Content(g) \in Seq(Block) /\ Len(Content(g)) = n
          /\ \A b \in 1 .. n : Content(g)[b] = [file |-> g, block |-> b]
      BY <2>3, <2>4, FileBlocks
    <2> QED
      BY <2>5, <2>6, <1>1
  <1> QED
    BY <1>3, <1>4

\* The answer of the call that the sender waits for says that the file is
\* finished only when the follower has ended it.
LEMMA HandleStep ==
  ASSUME NEW cur \in Files, InvAt(cur), NEW r \in calls, ~(r.term < peer.term), HandleInstall(r)
  PROVE  InvAt(cur)'
  <1>0. /\ r \in InstallCall /\ CallOK(cur, r) /\ peer \in Peer /\ peer.term <= term
        /\ peer.committed <= cur[peer.term].head /\ term \in 1 .. MaxSnapTerm
    BY DEF InvAt, SnapTypeOK, CallsOK, PeerOK
  <1>1. PICK f \in File :
          /\ From(r, f) /\ Good(f) /\ Own(cur, r.term, f)
          /\ r.term = term =>
               IF r.attempt = losses
               THEN sender.waits /\ answer = NoAnswer /\ r.offset = sender.at /\ f = sender.file
               ELSE <<term, f>> \in lostIn
    BY <1>0 DEF CallOK
  <1>2. PICK S : S = IF Fits(r, Writer(r)) THEN Writer(r) \o r.data ELSE Writer(r)
    OBVIOUS
  <1> DEFINE ends == Fits(r, Writer(r)) /\ r.done
  <1>3. /\ S \in Seq(Block)
        /\ \A b \in 1 .. Len(S) :
             /\ BlockOK(cur, S, r.term, b)
             /\ r.term = term => <<r.term, S[b].file>> \in lostIn \/ ~Finished \/ Mine(r)
        /\ ~ends => Len(S) % 2 = 0
        /\ ends => Len(S) = Blocks(f) /\ (S[Len(S)].file = f \/ Blocks(f) = 4)
        /\ (LastChunk(f, r.offset) /\ 2 * Len(S) = r.offset + 2 * Len(ReadAt(f, r.offset)))
             => Fits(r, Writer(r))
    BY <1>1, <1>2, StoredFacts
  <1>4. r.term \in 1 .. MaxSnapTerm /\ r.term <= term /\ peer.term <= r.term
        /\ r.done = LastChunk(f, r.offset) /\ ends \in BOOLEAN
    BY <1>0, <1>1 DEF InstallCall, CallOK, Peer, From
  <1> DEFINE head == S[1].file.head
             loads == ends /\ ~(r.head < peer.snapshot)
             committed == IF head > peer.committed THEN head ELSE peer.committed
  <1>5. /\ calls' = calls \ {r}
        /\ answer' = IF Mine(r) THEN [term |-> r.term, stored |-> 2 * Len(S)] ELSE answer
        /\ ~loads => peer' = [peer EXCEPT !.term = r.term, !.open = ~ends,
                                          !.stored = IF ends THEN <<>> ELSE S]
        /\ loads => peer' = [term |-> r.term, open |-> FALSE, stored |-> <<>>,
                             snapshot |-> head, loaded |-> S, at |-> r.term, committed |-> committed]
        /\ UNCHANGED <<term, written, applied, dropped, snapshot, build, sender, losses, lostIn, early>>
    BY <1>2 DEF HandleInstall
  <1> HIDE DEF ends
  <1>6. ends => /\ Len(S) \in {3, 4} /\ head \in 1 .. MaxEntry
                /\ head <= cur[r.term].head /\ S[1].file \in File
    <2> SUFFICES ASSUME ends
                 PROVE  /\ Len(S) \in {3, 4} /\ head \in 1 .. MaxEntry
                        /\ head <= cur[r.term].head /\ S[1].file \in File
      OBVIOUS
    <2>1. Len(S) \in {3, 4} /\ 1 \in 1 .. Len(S)
      BY <1>3, FileBlocks
    <2>2. Good(S[1].file) /\ Own(cur, r.term, S[1].file)
      BY <2>1, <1>3 DEF BlockOK
    <2>3. S[1].file \in File /\ head \in 1 .. MaxEntry
      BY <2>2, RaftSnapshotAssumption DEF Good, File
    <2>4. head <= cur[r.term].head
      <3>1. CASE S[1].file = cur[r.term]
        BY <3>1, <2>3, RaftSnapshotAssumption
      <3>2. CASE <<r.term, S[1].file>> \in lostIn
        <4>1. \A x \in lostIn : x[2].head <= cur[x[1]].head
          BY DEF InvAt, LeaderOK
        <4>2. PICK x \in lostIn : x = <<r.term, S[1].file>>
          BY <3>2
        <4> QED
          BY <4>1, <4>2
      <3> QED
        BY <3>1, <3>2, <2>2 DEF Own
    <2> QED
      BY <2>1, <2>3, <2>4
  <1>7. /\ \A t \in 0 .. MaxSnapTerm : cur[t].head \in Nat /\ cur[t].head <= MaxEntry
        /\ cur[peer.term].head <= cur[r.term].head
        /\ peer.term \in 0 .. MaxSnapTerm /\ peer.committed \in 0 .. MaxEntry
    <2>1. \A t \in 0 .. MaxSnapTerm : cur[t].head \in Nat /\ cur[t].head <= MaxEntry
      BY RaftSnapshotAssumption DEF Files, File
    <2>2. peer.term \in 0 .. MaxSnapTerm /\ peer.committed \in 0 .. MaxEntry
      BY <1>0 DEF Peer
    <2>3. peer.term \in 0 .. term /\ r.term \in 0 .. term
      BY <1>4, <1>0, <2>2, RaftSnapshotAssumption
    <2> QED
      BY <2>1, <2>2, <2>3, <1>4 DEF InvAt, LeaderOK
  <1>8. loads => committed \in 0 .. MaxEntry /\ committed <= cur[r.term].head
    <2>1. loads => head \in 1 .. MaxEntry /\ head <= cur[r.term].head
      BY <1>6
    <2>2. r.term \in 0 .. MaxSnapTerm
      BY <1>4, RaftSnapshotAssumption
    <2> HIDE DEF head, loads
    <2> QED
      BY <2>1, <2>2, <1>0, <1>7, RaftSnapshotAssumption
  <1> HIDE DEF committed
  <1>9. /\ peer' \in Peer /\ peer'.term = r.term
        /\ peer'.stored = IF ends THEN <<>> ELSE S
        /\ ~loads => peer'.loaded = peer.loaded /\ peer'.at = peer.at
                     /\ peer'.committed = peer.committed /\ peer'.snapshot = peer.snapshot
        /\ loads => peer'.loaded = S /\ peer'.at = r.term /\ peer'.committed = committed
    <2>1. CASE loads
      <3>1. head \in 0 .. MaxEntry /\ committed \in 0 .. MaxEntry /\ ends
        BY <2>1, <1>6, <1>8
      <3>2. r.term \in 0 .. MaxSnapTerm /\ <<>> \in Seq(Block)
        BY <1>4, RaftSnapshotAssumption
      <3>3. PICK h \in 0 .. MaxEntry, c \in 0 .. MaxEntry : h = head /\ c = committed
        BY <3>1
      <3>4. peer' = [term |-> r.term, open |-> FALSE, stored |-> <<>>,
                     snapshot |-> h, loaded |-> S, at |-> r.term, committed |-> c]
        BY <2>1, <3>3, <1>5
      <3> HIDE DEF head, loads
      <3>5. peer' \in Peer
        BY <3>2, <3>4, <1>3 DEF Peer
      <3>6. /\ peer'.term = r.term /\ peer'.stored = <<>> /\ peer'.loaded = S /\ peer'.at = r.term
            /\ peer'.committed = c
        BY <3>4
      <3> QED
        BY <2>1, <3>1, <3>3, <3>5, <3>6
    <2>2. CASE ~loads
      <3>2. r.term \in 0 .. MaxSnapTerm /\ (IF ends THEN <<>> ELSE S) \in Seq(Block) /\ (~ends) \in BOOLEAN
        BY <1>3, <1>4, RaftSnapshotAssumption
      <3>3. peer' = [peer EXCEPT !.term = r.term, !.open = ~ends, !.stored = IF ends THEN <<>> ELSE S]
        BY <2>2, <1>5
      <3> DEFINE st == IF ends THEN <<>> ELSE S
      <3>4. PICK op : op = ~ends
        OBVIOUS
      <3>5. peer' = [peer EXCEPT !.term = r.term, !.open = op, !.stored = st] /\ op \in BOOLEAN
            /\ st \in Seq(Block)
        BY <3>2, <3>3, <3>4
      <3> HIDE DEF loads, st
      <3>6. peer' \in Peer
        BY <3>2, <3>5, <1>0 DEF Peer
      <3>7. /\ peer'.term = r.term /\ peer'.stored = st /\ peer'.loaded = peer.loaded
            /\ peer'.at = peer.at /\ peer'.committed = peer.committed /\ peer'.snapshot = peer.snapshot
        BY <3>5, <1>0 DEF Peer
      <3> QED
        BY <2>2, <3>6, <3>7 DEF st
    <2> QED
      BY <2>1, <2>2
  <1>10. SnapTypeOK'
    <2>1. 2 * Len(S) \in Nat
      BY <1>3
    <2>2. answer' \in [term : 0 .. MaxSnapTerm, stored : Nat]
      <3>1. r.term \in 0 .. MaxSnapTerm
        BY <1>4, RaftSnapshotAssumption
      <3>2. [term |-> r.term, stored |-> 2 * Len(S)] \in [term : 0 .. MaxSnapTerm, stored : Nat]
        BY <2>1, <3>1
      <3> QED
        BY <3>2, <1>5 DEF InvAt, SnapTypeOK
    <2>3. peer'.at \in 0 .. peer'.term
      <3>1. peer.at \in 0 .. peer.term
        BY DEF InvAt, SnapTypeOK
      <3>2. peer.at \in 0 .. r.term /\ r.term \in 0 .. r.term
        BY <3>1, <1>4, <1>7
      <3> QED
        BY <3>2, <1>9
    <2>4. /\ peer'.term \in 0 .. MaxSnapTerm /\ peer'.open \in BOOLEAN /\ peer'.stored \in Seq(Block)
          /\ peer'.snapshot \in 0 .. MaxEntry /\ peer'.committed \in 0 .. MaxEntry
          /\ peer'.loaded \in Seq(Block)
      BY <1>9 DEF Peer
    <2>5. \A x \in calls' : x \in InstallCall
      BY <1>5 DEF InvAt, SnapTypeOK
    <2> QED
      BY <1>5, <2>2, <2>3, <2>4, <2>5 DEF InvAt, SnapTypeOK
  <1>11. LeaderOK(cur)'
    BY <1>5 DEF InvAt, LeaderOK, Good
  <1>12. Mine(r) => r.term = term /\ sender.waits /\ f = sender.file /\ r.offset = sender.at
    BY <1>1 DEF Mine
  <1>13. SenderOK(cur)'
    <2>1. ~ends => (2 * Len(S)) % 2 = 0
      BY <1>3
    <2>2. (2 * Len(S)) % 2 = 0
      <3>1. Len(S) \in Nat
        BY <1>3
      <3> QED
        BY <3>1
    <2>3. Mine(r) => answer'.term = term /\ answer'.stored = 2 * Len(S) /\ sender.waits
      BY <1>5, <1>12
    <2> QED
      BY <1>5, <2>2, <2>3 DEF InvAt, SenderOK, Good
  <1>14. Mine(r) /\ Finished' => ends
    <2>1. Mine(r) => answer'.stored = 2 * Len(S)
      BY <1>5
    <2>2. Finished' => LastChunk(sender.file, sender.at)
                       /\ answer'.stored = sender.at + 2 * Len(ReadAt(sender.file, sender.at))
      BY <1>5 DEF Finished
    <2> QED
      BY <2>1, <2>2, <1>3, <1>4, <1>12 DEF ends
  <1>15. ~Mine(r) /\ Finished' => Finished
    BY <1>5 DEF Finished
  <1>16. PeerOK(cur)'
    <2>1. peer'.committed <= cur[r.term].head
      <3>1. CASE loads
        BY <3>1, <1>8, <1>9
      <3>2. CASE ~loads
        <4>1. r.term \in 0 .. MaxSnapTerm
          BY <1>4, RaftSnapshotAssumption
        <4> QED
          BY <3>2, <4>1, <1>0, <1>7, <1>9
      <3> QED
        BY <3>1, <3>2
    <2>2. StoredOK(cur, peer.stored, peer.term)'
      <3>1. CASE ends
        BY <3>1, <1>9 DEF StoredOK
      <3>2. CASE ~ends
        <4>1. peer'.stored = S /\ peer'.term = r.term /\ term' = term
          BY <3>2, <1>5, <1>9
        <4>2. ASSUME NEW b \in 1 .. Len(S)
              PROVE  /\ BlockOK(cur, S, r.term, b)'
                     /\ r.term = term => <<r.term, S[b].file>> \in lostIn' \/ ~Finished'
          <5>1. /\ BlockOK(cur, S, r.term, b)
                /\ r.term = term => <<r.term, S[b].file>> \in lostIn \/ ~Finished \/ Mine(r)
            BY <1>3
          <5>2. BlockOK(cur, S, r.term, b)'
            BY <5>1, <1>5 DEF BlockOK, Own, Good
          <5> QED
            BY <5>1, <5>2, <3>2, <1>5, <1>14, <1>15
        <4>3. Len(S) % 2 = 0
          BY <3>2, <1>3
        <4> QED
          BY <4>1, <4>2, <4>3 DEF StoredOK, BlockOK
      <3> QED
        BY <3>1, <3>2
    <2> QED
      BY <2>1, <2>2, <1>4, <1>5, <1>9 DEF PeerOK
  <1>17. CallsOK(cur)'
    <2>1. ASSUME NEW x \in calls, x # r PROVE CallOK(cur, x)'
      <3>1. CallOK(cur, x) /\ x \in InstallCall
        BY DEF InvAt, CallsOK, SnapTypeOK
      <3>2. PICK g \in File :
              /\ From(x, g) /\ Good(g) /\ Own(cur, x.term, g)
              /\ x.term = term =>
                   IF x.attempt = losses
                   THEN sender.waits /\ answer = NoAnswer /\ x.offset = sender.at /\ g = sender.file
                   ELSE <<term, g>> \in lostIn
        BY <3>1 DEF CallOK
      <3>3. ~(Mine(r) /\ x.term = term /\ x.attempt = losses)
        <4> SUFFICES ASSUME Mine(r), x.term = term, x.attempt = losses PROVE FALSE
          OBVIOUS
        <4>1. g = f /\ x.offset = r.offset /\ x.term = r.term /\ x.attempt = r.attempt
          BY <3>2, <1>12 DEF Mine
        <4>2. x.head = r.head /\ x.data = r.data /\ x.done = r.done
          BY <4>1, <3>2, <1>1 DEF From
        <4> QED
          BY <4>1, <4>2, <3>1, <1>0, <2>1 DEF InstallCall
      <3>4. x.term = term /\ x.attempt = losses => answer' = answer
        BY <3>3, <1>5
      <3> QED
        BY <3>1, <3>2, <3>4, <1>5 DEF CallOK, Own, Good
    <2> QED
      BY <2>1, <1>5 DEF CallsOK
  <1>18. LoadsWhole'
    <2>1. CASE ~loads
      <3>1. LoadedFrom' = LoadedFrom
        BY <2>1, <1>9 DEF LoadedFrom
      <3>2. peer'.loaded = peer.loaded /\ peer'.at = peer.at /\ lostIn' = lostIn
        BY <2>1, <1>5, <1>9
      <3> QED
        BY <3>1, <3>2 DEF InvAt, LoadsWhole
    <2>2. CASE loads
      <3>1. peer'.loaded = S /\ peer'.at = r.term /\ lostIn' = lostIn
        BY <2>2, <1>5, <1>9
      <3>2. \/ \A g \in {S[b].file : b \in DOMAIN S} : S = Content(g)
            \/ /\ Cardinality({S[b].file : b \in DOMAIN S}) > 1
               /\ \E g \in {S[b].file : b \in DOMAIN S} : <<r.term, g>> \in lostIn
        BY <2>2, <1>3, WholeOrMixed
      <3> QED
        BY <3>1, <3>2 DEF LoadsWhole, LoadedFrom
    <2> QED
      BY <2>1, <2>2
  <1>19. NothingLost'
    <2>1. CASE ~loads
      <3>1. LoadedFrom' = LoadedFrom
        BY <2>1, <1>9 DEF LoadedFrom
      <3>2. /\ peer'.committed = peer.committed /\ peer'.at = peer.at /\ lostIn' = lostIn
            /\ early' = early /\ dropped' = dropped /\ snapshot' = snapshot
        BY <2>1, <1>5, <1>9
      <3> QED
        BY <3>1, <3>2 DEF InvAt, NothingLost
    <2>2. CASE loads
      <3>1. peer'.loaded = S /\ peer'.at = r.term /\ peer'.committed = committed
        BY <2>2, <1>9
      <3>2. ~early => dropped <= snapshot.holds
        BY DEF InvAt, NothingLost
      <3>3. ASSUME ~early, NEW g, {S[b].file : b \in DOMAIN S} = {g}
            PROVE  committed <= g.holds \/ <<r.term, g>> \in lostIn
        <4>1. 1 \in 1 .. Len(S) /\ DOMAIN S = 1 .. Len(S)
          BY <2>2, <1>3, <1>6
        <4>2. g = S[1].file
          BY <4>1, <3>3
        <4>3. Good(g) /\ Own(cur, r.term, g)
          BY <4>1, <4>2, <1>3 DEF BlockOK
        <4>4. g = cur[r.term] => committed <= g.holds
          BY <4>3, <3>3, <2>2, <1>8 DEF Good
        <4> QED
          BY <4>3, <4>4 DEF Own
      <3> QED
        BY <3>1, <3>2, <3>3, <1>5 DEF NothingLost, LoadedFrom
    <2> QED
      BY <2>1, <2>2
  <1> QED
    BY <1>10, <1>11, <1>13, <1>16, <1>17, <1>18, <1>19 DEF InvAt

-----------------------------------------------------------------------------
(* The theorem.                                                            *)

LEMMA SnapInvInit ==
  ASSUME SnapInit
  PROVE  SnapInv
  <1>1. PICK cur : cur = [t \in 0 .. MaxSnapTerm |-> NoFile]
    OBVIOUS
  <1>2. NoFile \in File /\ NoFile.head = 0 /\ NoFile.holds = 0
    BY RaftSnapshotAssumption DEF NoFile, File
  <1>3. cur \in Files /\ \A t \in 0 .. MaxSnapTerm : cur[t].head = 0
    BY <1>1, <1>2 DEF Files
  <1>4. peer \in Peer /\ peer.stored = <<>> /\ peer.loaded = <<>> /\ peer.term = 0
        /\ peer.committed = 0 /\ peer.at = 0
    BY RaftSnapshotAssumption DEF SnapInit, Peer
  <1>5. SnapTypeOK
    <2>1. sender \in [file : File, at : Nat, waits : BOOLEAN]
          /\ answer \in [term : 0 .. MaxSnapTerm, stored : Nat]
      BY <1>2, RaftSnapshotAssumption DEF SnapInit, Idle, NoAnswer
    <2>2. term \in 1 .. MaxSnapTerm /\ losses \in 0 .. MaxLoss /\ written \in 0 .. MaxEntry
          /\ applied \in 0 .. written /\ dropped \in 0 .. written
      BY RaftSnapshotAssumption DEF SnapInit
    <2>3. snapshot \in File /\ build \in File /\ calls = {} /\ lostIn = {} /\ early \in BOOLEAN
      BY <1>2 DEF SnapInit
    <2>4. peer.at \in 0 .. peer.term
      BY <1>4
    <2>5. /\ peer.term \in 0 .. MaxSnapTerm /\ peer.open \in BOOLEAN /\ peer.stored \in Seq(Block)
          /\ peer.snapshot \in 0 .. MaxEntry /\ peer.committed \in 0 .. MaxEntry
          /\ peer.loaded \in Seq(Block)
      BY <1>4 DEF Peer
    <2> QED
      BY <2>1, <2>2, <2>3, <2>4, <2>5 DEF SnapTypeOK
  <1>6. LeaderOK(cur)
    <2>1. \A t \in 0 .. term : t \in 0 .. MaxSnapTerm
      BY RaftSnapshotAssumption DEF SnapInit
    <2> QED
      BY <1>2, <1>3, <2>1, RaftSnapshotAssumption DEF SnapInit, LeaderOK
  <1>7. SenderOK(cur) /\ CallsOK(cur)
    BY DEF SnapInit, SenderOK, CallsOK
  <1>8. PeerOK(cur)
    BY <1>3, <1>4, RaftSnapshotAssumption DEF SnapInit, PeerOK, StoredOK
  <1>9. LoadedFrom = {} /\ LoadsWhole /\ NothingLost
    BY <1>2, <1>4 DEF SnapInit, LoadsWhole, NothingLost, LoadedFrom
  <1> QED
    BY <1>3, <1>5, <1>6, <1>7, <1>8, <1>9 DEF SnapInv, InvAt

LEMMA SnapInvStep ==
  ASSUME SnapInv, [SnapNext]_snapVars
  PROVE  SnapInv'
  <1>1. PICK cur \in Files : InvAt(cur)
    BY DEF SnapInv
  <1>2. CASE UNCHANGED snapVars
    <2>0. /\ UNCHANGED <<term, losses, lostIn, sender, answer, calls, peer>>
          /\ UNCHANGED <<written, applied, dropped, snapshot, build, early>>
      BY <1>2 DEF snapVars
    <2>1. SenderOK(cur)' /\ PeerOK(cur)' /\ CallsOK(cur)' /\ LoadsWhole'
      BY <1>1, <2>0, CommitterFrame DEF InvAt
    <2>2. SnapTypeOK'
      BY <1>1, <2>0 DEF InvAt, SnapTypeOK
    <2>3. LeaderOK(cur)'
      BY <1>1, <2>0 DEF InvAt, LeaderOK, Good
    <2>4. NothingLost'
      BY <1>1, <2>0 DEF InvAt, NothingLost, LoadedFrom
    <2> QED
      BY <2>1, <2>2, <2>3, <2>4 DEF SnapInv, Files, InvAt
  <1>3. CASE StartSend \/ Deposed
    BY <1>1, <1>3, StartSendStep, DeposedStep DEF SnapInv, Files
  <1>4. CASE DoReplicate \/ ApplyEntry \/ BuildSnapshot \/ SnapshotDone \/ SendChunk \/ Answered \/ CallFails
    <2>1. InvAt(cur)'
      BY <1>1, <1>4, ReplicateStep, ApplyEntryStep, BuildSnapshotStep, SnapshotDoneStep, SendChunkStep,
         AnsweredStep, CallFailsStep
    <2> QED
      BY <2>1 DEF SnapInv, Files
  <1>5. CASE \E r \in calls : Receive(r)
    <2>1. PICK r \in calls : Receive(r)
      BY <1>5
    <2>2. InvAt(cur)'
      BY <1>1, <2>1, RefuseStep, HandleStep DEF Receive
    <2> QED
      BY <2>2 DEF SnapInv, Files
  <1> QED
    BY <1>2, <1>3, <1>4, <1>5 DEF SnapNext

\* Snapshots are kept, for any number of entries, terms and lost calls: unless
\* one was built too early, what the leader drops is in its file; what the
\* follower loads is one whole file in order, or it was mixed and a call of one
\* of its files was lost in the term (handle_install_snapshot, make_snapshot).
THEOREM SnapshotIsKept == SnapSpec => []SnapshotKept
  <1>1. SnapInv => SnapshotKept
    BY DEF SnapInv, InvAt, SnapshotKept
  <1> QED
    BY <1>1, SnapInvInit, SnapInvStep, PTL DEF SnapSpec

-----------------------------------------------------------------------------
(* The metadata of a node: what is read back, as a function of the files.  *)

\* A set of numbers has a least one.
LEMMA LeastNumber ==
  ASSUME NEW T \in SUBSET Nat, T # {}
  PROVE  \E m \in T : \A n \in T : m <= n
<1> DEFINE R == {ss \in Nat \X Nat : ss[1] < ss[2]}
<1>1. IsWellFoundedOn(R, Nat)
  BY NatLessThanWellFounded DEF OpToRel
<1>2. PICK x \in T : \A y \in T : <<y, x>> \notin R
  <2> HIDE DEF R
  <2> QED BY <1>1, WFMin
<1>3. ASSUME NEW y \in T PROVE x <= y
  <2>1. x \in Nat /\ y \in Nat
    OBVIOUS
  <2>2. y < x => <<y, x>> \in R
    BY <2>1
  <2> HIDE DEF R
  <2> QED BY <2>1, <2>2, <1>2
<1> QED BY <1>3

GenOf(st) == {n \in 1 .. MaxGeneration + 1 : <<n, "meta">> \in DOMAIN st}
OrderOf(F) == CHOOSE s \in [1 .. Cardinality(F) -> F] :
                \A i, j \in DOMAIN s : i < j => Rank(s[i]) > Rank(s[j])
DataOf(st, n) == IF <<n, "data">> \in DOMAIN st THEN st[<<n, "data">>] ELSE Nothing
LogOf(st, n) == st[<<n, "log">>]
OverData(st, m, n) == [k \in Key |-> IF DataOf(st, n)[k] # 0 THEN DataOf(st, n)[k] ELSE m[k]]
LoadOf(st, m, n) == FoldLeft(Apply, OverData(st, m, n), LogOf(st, n))
LoadAll(st, l) == FoldLeft(LAMBDA x, y : LoadOf(st, x, y), Nothing, l)
RecOf(st) == LoadAll(st, OrderOf(GenOf(st)))

Rec_ == Recovered = RecOf(store)

LEMMA RecNow == Rec_
  BY DEF Rec_, Recovered, RecOf, LoadOne, LoadOf, LoadAll, OverData, InOrder, OrderOf, GenOf, Found,
         LogOf, DataOf

LEMMA RecNext == Rec_'
  BY RecNow, PTL

-----------------------------------------------------------------------------
(* Folds.                                                                  *)

LEMMA MaxTop ==
  ASSUME NEW n \in Nat, NEW s \in SUBSET (1 .. n), n \in s
  PROVE  Max(s) = n
<1>1. n \in s /\ \A y \in s : n >= y
  OBVIOUS
<1>2. \A x \in s : (\A y \in s : x >= y) => x = n
  OBVIOUS
<1> QED BY <1>1, <1>2 DEF Max

\* The functions by which the folds go over the first n records, and generations.
Sets_(f, m, l, n) ==
  f = [s \in SUBSET (1 .. n) |-> IF s = {} THEN m ELSE Apply(f[s \ {Max(s)}], l[Max(s)])]

Loads_(f, st, l, n) ==
  f = [s \in SUBSET (1 .. n) |-> IF s = {} THEN Nothing ELSE LoadOf(st, f[s \ {Max(s)}], l[Max(s)])]

LEMMA SetsExist ==
  ASSUME NEW b, NEW l, NEW n \in Nat
  PROVE  \E f : Sets_(f, b, l, n)
<1> DEFINE T == {m \in Nat : ~\E f : Sets_(f, b, l, m)}
<1>1. SUFFICES ASSUME T # {} PROVE FALSE
  OBVIOUS
<1>2. PICK m \in T : \A k \in T : m <= k
  <2>1. T \in SUBSET Nat
    OBVIOUS
  <2> HIDE DEF T
  <2> QED BY <1>1, <2>1, LeastNumber
<1>3. CASE m = 0
  <2> DEFINE g == [s \in SUBSET (1 .. 0) |-> b]
  <2>1. \A s \in SUBSET (1 .. 0) : s = {}
    OBVIOUS
  <2>2. g = [s \in SUBSET (1 .. 0) |-> IF s = {} THEN b ELSE Apply(g[s \ {Max(s)}], l[Max(s)])]
    BY <2>1
  <2>3. Sets_(g, b, l, 0)
    <3> HIDE DEF g
    <3> QED BY <2>2 DEF Sets_
  <2> QED BY <1>2, <1>3, <2>3
<1>4. CASE m # 0
  <2>1. m \in Nat /\ m - 1 \in Nat /\ m - 1 \notin T
    BY <1>2, <1>4
  <2>2. PICK f : Sets_(f, b, l, m - 1)
    BY <2>1
  <2> DEFINE g == [s \in SUBSET (1 .. m) |-> IF m \in s THEN Apply(f[s \ {m}], l[m]) ELSE f[s]]
  <2>3. ASSUME NEW s \in SUBSET (1 .. m - 1)
        PROVE  f[s] = IF s = {} THEN b ELSE Apply(f[s \ {Max(s)}], l[Max(s)])
    <3> HIDE DEF T
    <3> QED BY <2>2 DEF Sets_
  <2>4. ASSUME NEW s \in SUBSET (1 .. m - 1) PROVE s \in SUBSET (1 .. m) /\ g[s] = f[s]
    <3>1. s \in SUBSET (1 .. m) /\ m \notin s
      BY <2>1
    <3> QED BY <3>1
  <2>5. ASSUME NEW s \in SUBSET (1 .. m)
        PROVE  g[s] = IF s = {} THEN b ELSE Apply(g[s \ {Max(s)}], l[Max(s)])
    <3>1. CASE m \in s
      <4>1. Max(s) = m /\ s # {}
        BY <3>1, <2>1, MaxTop
      <4>2. s \ {m} \in SUBSET (1 .. m - 1)
        BY <2>1
      <4>3. g[s \ {m}] = f[s \ {m}]
        BY <4>2, <2>4
      <4>4. g[s] = Apply(f[s \ {m}], l[m])
        BY <3>1
      <4> HIDE DEF g
      <4> QED BY <4>1, <4>3, <4>4
    <3>2. CASE m \notin s
      <4>1. s \in SUBSET (1 .. m - 1)
        BY <3>2, <2>1
      <4>2. s # {} => s \ {Max(s)} \in SUBSET (1 .. m - 1)
        BY <4>1
      <4> HIDE DEF g, T
      <4> QED BY <4>1, <4>2, <2>3, <2>4
    <3> QED BY <3>1, <3>2
  <2>6. Sets_(g, b, l, m)
    <3>1. g = [s \in SUBSET (1 .. m) |-> g[s]]
      OBVIOUS
    <3> HIDE DEF g
    <3> QED BY <2>5, <3>1 DEF Sets_
  <2> QED BY <1>2, <2>6
<1> QED BY <1>3, <1>4

LEMMA LoadsExist ==
  ASSUME NEW st, NEW l, NEW n \in Nat
  PROVE  \E f : Loads_(f, st, l, n)
<1> DEFINE T == {m \in Nat : ~\E f : Loads_(f, st, l, m)}
<1>1. SUFFICES ASSUME T # {} PROVE FALSE
  OBVIOUS
<1>2. PICK m \in T : \A k \in T : m <= k
  <2>1. T \in SUBSET Nat
    OBVIOUS
  <2> HIDE DEF T
  <2> QED BY <1>1, <2>1, LeastNumber
<1>3. CASE m = 0
  <2> DEFINE g == [s \in SUBSET (1 .. 0) |-> Nothing]
  <2>1. \A s \in SUBSET (1 .. 0) : s = {}
    OBVIOUS
  <2>2. g = [s \in SUBSET (1 .. 0) |-> IF s = {} THEN Nothing ELSE LoadOf(st, g[s \ {Max(s)}], l[Max(s)])]
    BY <2>1
  <2>3. Loads_(g, st, l, 0)
    <3> HIDE DEF g
    <3> QED BY <2>2 DEF Loads_
  <2> QED BY <1>2, <1>3, <2>3
<1>4. CASE m # 0
  <2>1. m \in Nat /\ m - 1 \in Nat /\ m - 1 \notin T
    BY <1>2, <1>4
  <2>2. PICK f : Loads_(f, st, l, m - 1)
    BY <2>1
  <2> DEFINE g == [s \in SUBSET (1 .. m) |-> IF m \in s THEN LoadOf(st, f[s \ {m}], l[m]) ELSE f[s]]
  <2>3. ASSUME NEW s \in SUBSET (1 .. m - 1)
        PROVE  f[s] = IF s = {} THEN Nothing ELSE LoadOf(st, f[s \ {Max(s)}], l[Max(s)])
    <3> HIDE DEF T
    <3> QED BY <2>2 DEF Loads_
  <2>4. ASSUME NEW s \in SUBSET (1 .. m - 1) PROVE s \in SUBSET (1 .. m) /\ g[s] = f[s]
    <3>1. s \in SUBSET (1 .. m) /\ m \notin s
      BY <2>1
    <3> QED BY <3>1
  <2>5. ASSUME NEW s \in SUBSET (1 .. m)
        PROVE  g[s] = IF s = {} THEN Nothing ELSE LoadOf(st, g[s \ {Max(s)}], l[Max(s)])
    <3>1. CASE m \in s
      <4>1. Max(s) = m /\ s # {}
        BY <3>1, <2>1, MaxTop
      <4>2. s \ {m} \in SUBSET (1 .. m - 1)
        BY <2>1
      <4>3. g[s \ {m}] = f[s \ {m}]
        BY <4>2, <2>4
      <4>4. g[s] = LoadOf(st, f[s \ {m}], l[m])
        BY <3>1
      <4> HIDE DEF g
      <4> QED BY <4>1, <4>3, <4>4
    <3>2. CASE m \notin s
      <4>1. s \in SUBSET (1 .. m - 1)
        BY <3>2, <2>1
      <4>2. s # {} => s \ {Max(s)} \in SUBSET (1 .. m - 1)
        BY <4>1
      <4> HIDE DEF g, T
      <4> QED BY <4>1, <4>2, <2>3, <2>4
    <3> QED BY <3>1, <3>2
  <2>6. Loads_(g, st, l, m)
    <3>1. g = [s \in SUBSET (1 .. m) |-> g[s]]
      OBVIOUS
    <3> HIDE DEF g
    <3> QED BY <2>5, <3>1 DEF Loads_
  <2> QED BY <1>2, <2>6
<1> QED BY <1>3, <1>4

\* s goes over what the fold has after each element.
SetSteps(s, m, l) == /\ s[0] = m
                     /\ \A k \in 1 .. Len(l) : s[k] = Apply(s[k - 1], l[k])
                     /\ FoldLeft(Apply, m, l) = s[Len(l)]

LoadSteps(s, st, l) == /\ s[0] = Nothing
                       /\ \A k \in 1 .. Len(l) : s[k] = LoadOf(st, s[k - 1], l[k])
                       /\ LoadAll(st, l) = s[Len(l)]

LEMMA SetsGo ==
  ASSUME NEW S, NEW l \in Seq(S), NEW m
  PROVE  \E s : SetSteps(s, m, l)
<1> DEFINE n == Len(l)
           f == CHOOSE f : f = [s \in SUBSET (1 .. n) |->
                  IF s = {} THEN m ELSE Apply(f[s \ {Max(s)}], l[Max(s)])]
           r == [k \in 0 .. n |-> f[1 .. k]]
<1>0. n \in Nat /\ DOMAIN l = 1 .. n
  OBVIOUS
<1>1. FoldLeft(Apply, m, l) = f[1 .. n]
  <2>1. 1 .. n = DOMAIN l
    BY <1>0
  <2> HIDE DEF n
  <2> QED BY <2>1 DEF FoldLeft, MapThenFoldSet
<1>2. f = [s \in SUBSET (1 .. n) |-> IF s = {} THEN m ELSE Apply(f[s \ {Max(s)}], l[Max(s)])]
  <2>1. \E g : Sets_(g, m, l, n)
    BY <1>0, SetsExist
  <2> HIDE DEF n
  <2> QED BY <2>1 DEF Sets_
<1>3. ASSUME NEW s \in SUBSET (1 .. n)
      PROVE  f[s] = IF s = {} THEN m ELSE Apply(f[s \ {Max(s)}], l[Max(s)])
  <2> HIDE DEF f, n
  <2> QED BY <1>2
<1> HIDE DEF f, n
<1>4. r[0] = m
  <2>1. 1 .. 0 = {} /\ 0 \in 0 .. n
    BY <1>0
  <2> QED BY <1>3, <2>1
<1>5. ASSUME NEW k \in 1 .. n PROVE r[k] = Apply(r[k - 1], l[k])
  <2>1. k \in Nat /\ k \in 1 .. k /\ 1 .. k \in SUBSET (1 .. n) /\ k - 1 \in 0 .. n /\ k \in 0 .. n
    BY <1>0
  <2>2. Max(1 .. k) = k
    BY <2>1, MaxTop
  <2>3. (1 .. k) \ {k} = 1 .. k - 1
    BY <2>1
  <2>4. 1 .. k # {}
    BY <2>1
  <2>5. f[1 .. k] = Apply(f[1 .. k - 1], l[k])
    BY <1>3, <2>1, <2>2, <2>3, <2>4
  <2> QED BY <2>1, <2>5
<1>6. FoldLeft(Apply, m, l) = r[n]
  BY <1>0, <1>1
<1> HIDE DEF r
<1>7. SetSteps(r, m, l)
  BY <1>4, <1>5, <1>6 DEF SetSteps, n
<1> QED BY <1>7

LEMMA LoadsGo ==
  ASSUME NEW S, NEW l \in Seq(S), NEW st
  PROVE  \E s : LoadSteps(s, st, l)
<1> DEFINE n == Len(l)
           f == CHOOSE f : f = [s \in SUBSET (1 .. n) |->
                  IF s = {} THEN Nothing ELSE LoadOf(st, f[s \ {Max(s)}], l[Max(s)])]
           r == [k \in 0 .. n |-> f[1 .. k]]
<1>0. n \in Nat /\ DOMAIN l = 1 .. n
  OBVIOUS
<1>1. LoadAll(st, l) = f[1 .. n]
  <2>1. 1 .. n = DOMAIN l
    BY <1>0
  <2> HIDE DEF n
  <2> QED BY <2>1 DEF LoadAll, FoldLeft, MapThenFoldSet
<1>2. f = [s \in SUBSET (1 .. n) |-> IF s = {} THEN Nothing ELSE LoadOf(st, f[s \ {Max(s)}], l[Max(s)])]
  <2>1. \E g : Loads_(g, st, l, n)
    BY <1>0, LoadsExist
  <2> HIDE DEF n
  <2> QED BY <2>1 DEF Loads_
<1>3. ASSUME NEW s \in SUBSET (1 .. n)
      PROVE  f[s] = IF s = {} THEN Nothing ELSE LoadOf(st, f[s \ {Max(s)}], l[Max(s)])
  <2> HIDE DEF f, n
  <2> QED BY <1>2
<1> HIDE DEF f, n
<1>4. r[0] = Nothing
  <2>1. 1 .. 0 = {} /\ 0 \in 0 .. n
    BY <1>0
  <2> QED BY <1>3, <2>1
<1>5. ASSUME NEW k \in 1 .. n PROVE r[k] = LoadOf(st, r[k - 1], l[k])
  <2>1. k \in Nat /\ k \in 1 .. k /\ 1 .. k \in SUBSET (1 .. n) /\ k - 1 \in 0 .. n /\ k \in 0 .. n
    BY <1>0
  <2>2. Max(1 .. k) = k
    BY <2>1, MaxTop
  <2>3. (1 .. k) \ {k} = 1 .. k - 1
    BY <2>1
  <2>4. 1 .. k # {}
    BY <2>1
  <2>5. f[1 .. k] = LoadOf(st, f[1 .. k - 1], l[k])
    BY <1>3, <2>1, <2>2, <2>3, <2>4
  <2> QED BY <2>1, <2>5
<1>6. LoadAll(st, l) = r[n]
  BY <1>0, <1>1
<1> HIDE DEF r
<1>7. LoadSteps(r, st, l)
  BY <1>4, <1>5, <1>6 DEF LoadSteps, n
<1> QED BY <1>7

-----------------------------------------------------------------------------
(* What a log and a snapshot make of a map.                                *)

Map_ == [Key -> Value]
Fold_(m, l) == FoldLeft(Apply, m, l)

LEMMA ApplyRight ==
  ASSUME NEW m \in Map_, NEW r \in Record
  PROVE  /\ Apply(m, r) \in Map_ /\ r.key \in Key /\ r.value \in Value
         /\ \A k \in Key : Apply(m, r)[k] = IF k = r.key THEN r.value ELSE m[k]
<1>1. r.key \in Key /\ r.value \in Value
  BY DEF Record
<1>2. Apply(m, r) = [m EXCEPT ![r.key] = r.value]
  BY DEF Apply
<1> QED BY <1>1, <1>2 DEF Map_

LEMMA FoldEmpty ==
  ASSUME NEW m
  PROVE  Fold_(m, <<>>) = m
<1>1. <<>> \in Seq(Nat) /\ Len(<<>>) = 0
  OBVIOUS
<1> DEFINE l == <<>>
<1>2. l \in Seq(Nat) /\ Len(l) = 0
  BY <1>1
<1> HIDE DEF l
<1>3. PICK s : SetSteps(s, m, l)
  BY <1>2, SetsGo
<1>4. Fold_(m, l) = m
  BY <1>2, <1>3 DEF SetSteps, Fold_
<1> QED BY <1>4 DEF l

LEMMA FoldAppend ==
  ASSUME NEW l \in Seq(Record), NEW r \in Record, NEW m
  PROVE  Fold_(m, Append(l, r)) = Apply(Fold_(m, l), r)
<1> DEFINE n == Len(l)
           a == Append(l, r)
<1>1. n \in Nat /\ a \in Seq(Record) /\ Len(a) = n + 1 /\ (\A k \in 1 .. n : a[k] = l[k]) /\ a[n + 1] = r
  OBVIOUS
<1> HIDE DEF n, a
<1>2. PICK s : SetSteps(s, m, l)
  BY SetsGo
<1>3. PICK t : SetSteps(t, m, a)
  BY <1>1, SetsGo
<1>4. /\ s[0] = m /\ t[0] = m /\ Fold_(m, l) = s[n] /\ Fold_(m, a) = t[n + 1]
      /\ \A k \in 1 .. n : s[k] = Apply(s[k - 1], l[k])
      /\ \A k \in 1 .. n + 1 : t[k] = Apply(t[k - 1], a[k])
  BY <1>1, <1>2, <1>3 DEF SetSteps, Fold_, n
<1>5. \A k \in 0 .. n : s[k] = t[k]
  <2> DEFINE T == {k \in 0 .. n : s[k] # t[k]}
  <2>1. SUFFICES ASSUME T # {} PROVE FALSE
    OBVIOUS
  <2>2. PICK k \in T : \A j \in T : k <= j
    <3>1. T \in SUBSET Nat
      BY <1>1
    <3> HIDE DEF T
    <3> QED BY <2>1, <3>1, LeastNumber
  <2>3. k \in 0 .. n /\ s[k] # t[k] /\ k # 0
    BY <1>4
  <2>4. k - 1 \in 0 .. n /\ k \in 1 .. n /\ k \in 1 .. n + 1 /\ ~(k <= k - 1)
    BY <1>1, <2>3
  <2>5. k - 1 \notin T
    <3> HIDE DEF T
    <3> QED BY <2>2, <2>4
  <2>6. s[k - 1] = t[k - 1]
    BY <2>4, <2>5
  <2> HIDE DEF T
  <2> QED BY <1>1, <1>4, <2>3, <2>4, <2>6
<1>6. t[n + 1] = Apply(t[n], r)
  <2>1. n + 1 \in 1 .. n + 1 /\ n + 1 - 1 = n
    BY <1>1
  <2> QED BY <1>1, <1>4, <2>1
<1>7. s[n] = t[n]
  BY <1>1, <1>5
<1> QED BY <1>4, <1>6, <1>7 DEF a

\* At a key a log either says nothing, or says what the value is.
PointOK(l, k) == \/ \A m \in Map_ : Fold_(m, l)[k] = m[k]
                 \/ \E v \in Value : \A m \in Map_ : Fold_(m, l)[k] = v

PointsOK(l) == /\ \A m \in Map_ : Fold_(m, l) \in Map_
               /\ \A k \in Key : PointOK(l, k)

LEMMA LogPoints ==
  ASSUME NEW l0 \in Seq(Record)
  PROVE  PointsOK(l0)
<1> DEFINE T == {n \in Nat : \E l \in Seq(Record) : Len(l) = n /\ ~PointsOK(l)}
<1>1. SUFFICES ASSUME T # {} PROVE FALSE
  <2>1. Len(l0) \in Nat
    OBVIOUS
  <2>2. Len(l0) \notin T
    BY <1>1
  <2> QED BY <2>1, <2>2
<1>2. PICK n \in T : \A j \in T : n <= j
  <2>1. T \in SUBSET Nat
    OBVIOUS
  <2> HIDE DEF T
  <2> QED BY <1>1, <2>1, LeastNumber
<1>3. PICK l \in Seq(Record) : Len(l) = n /\ ~PointsOK(l)
  OBVIOUS
<1>4. CASE l = <<>>
  <2>1. \A m \in Map_ : Fold_(m, l) = m
    BY <1>4, FoldEmpty
  <2> QED BY <1>3, <2>1 DEF PointsOK, PointOK
<1>5. CASE l # <<>>
  <2>1. PICK s \in Seq(Record), r \in Record : l = Append(s, r)
    BY <1>5, SequenceEmptyOrAppend
  <2>2. Len(s) \in Nat /\ n = Len(s) + 1
    BY <1>3, <2>1
  <2>3. Len(s) \notin T
    <3>1. ~(n <= Len(s))
      BY <2>2
    <3> HIDE DEF T
    <3> QED BY <1>2, <3>1
  <2>4. PointsOK(s)
    BY <2>2, <2>3
  <2>5. ASSUME NEW m \in Map_ PROVE Fold_(m, s) \in Map_ /\ Fold_(m, l) = Apply(Fold_(m, s), r)
    <3>1. Fold_(m, s) \in Map_
      BY <2>4 DEF PointsOK
    <3>2. Fold_(m, Append(s, r)) = Apply(Fold_(m, s), r)
      BY FoldAppend
    <3> QED BY <2>1, <3>1, <3>2
  <2>6. ASSUME NEW m \in Map_
        PROVE  /\ Fold_(m, l) \in Map_
               /\ \A k \in Key : Fold_(m, l)[k] = IF k = r.key THEN r.value ELSE Fold_(m, s)[k]
    <3> DEFINE x == Fold_(m, s)
    <3>1. x \in Map_ /\ Fold_(m, l) = Apply(x, r)
      BY <2>5
    <3> HIDE DEF x
    <3>2. Apply(x, r) \in Map_ /\ \A k \in Key : Apply(x, r)[k] = IF k = r.key THEN r.value ELSE x[k]
      BY <3>1, ApplyRight
    <3> QED BY <3>1, <3>2 DEF x
  <2>7. ASSUME NEW k \in Key PROVE PointOK(l, k)
    <3>1. CASE k = r.key
      <4>1. r.value \in Value
        BY DEF Record
      <4> QED BY <2>6, <3>1, <4>1 DEF PointOK
    <3>2. CASE k # r.key
      <4>1. \A m \in Map_ : Fold_(m, l)[k] = Fold_(m, s)[k]
        BY <2>6, <3>2
      <4>2. PointOK(s, k)
        BY <2>4 DEF PointsOK
      <4> QED BY <4>1, <4>2 DEF PointOK
    <3> QED BY <3>1, <3>2
  <2> QED BY <1>3, <2>6, <2>7 DEF PointsOK
<1> QED BY <1>4, <1>5

\* What generation n makes of a value x of k.
Hear(st, n, k, x) == LoadOf(st, [j \in Key |-> x], n)[k]
ReadOK(st, n) == DataOf(st, n) \in Map_ /\ LogOf(st, n) \in Seq(Record)

LEMMA OverRight ==
  ASSUME NEW st, NEW n, DataOf(st, n) \in Map_, NEW m \in Map_
  PROVE  /\ OverData(st, m, n) \in Map_
         /\ \A k \in Key : OverData(st, m, n)[k] = IF DataOf(st, n)[k] # 0 THEN DataOf(st, n)[k] ELSE m[k]
BY DEF OverData, Map_

LEMMA ConstMap ==
  ASSUME NEW x \in Value
  PROVE  [j \in Key |-> x] \in Map_ /\ \A k \in Key : [j \in Key |-> x][k] = x
BY DEF Map_

LEMMA LoadPoint ==
  ASSUME NEW st, NEW n, ReadOK(st, n), NEW m \in Map_, NEW k \in Key
  PROVE  /\ LoadOf(st, m, n) \in Map_ /\ LoadOf(st, m, n)[k] = Hear(st, n, k, m[k])
         /\ LoadOf(st, m, n)[k] \in Value
<1> DEFINE l == LogOf(st, n)
           d == DataOf(st, n)
           c == [j \in Key |-> m[k]]
           p == OverData(st, m, n)
           q == OverData(st, c, n)
<1>1. d \in Map_ /\ l \in Seq(Record) /\ m[k] \in Value
  BY DEF ReadOK, Map_
<1>2. c \in Map_ /\ c[k] = m[k]
  BY <1>1, ConstMap
<1> HIDE DEF c
<1>3. p \in Map_ /\ p[k] = (IF d[k] # 0 THEN d[k] ELSE m[k])
  BY <1>1, OverRight
<1>4. q \in Map_ /\ q[k] = (IF d[k] # 0 THEN d[k] ELSE c[k])
  BY <1>1, <1>2, OverRight
<1>5. LoadOf(st, m, n) = Fold_(p, l) /\ LoadOf(st, c, n) = Fold_(q, l)
  BY DEF LoadOf, Fold_
<1> HIDE DEF p, q, l
<1>6. PointsOK(l)
  BY <1>1, LogPoints
<1>7. Fold_(p, l) \in Map_ /\ Fold_(q, l) \in Map_ /\ PointOK(l, k)
  BY <1>3, <1>4, <1>6 DEF PointsOK
<1>8. Fold_(p, l)[k] = Fold_(q, l)[k]
  BY <1>2, <1>3, <1>4, <1>7 DEF PointOK
<1>9. Hear(st, n, k, m[k]) = LoadOf(st, c, n)[k]
  BY DEF Hear, c
<1> QED BY <1>5, <1>7, <1>8, <1>9 DEF Map_

LEMMA HearPoint ==
  ASSUME NEW st, NEW n, ReadOK(st, n), NEW k \in Key
  PROVE  /\ \A x \in Value : Hear(st, n, k, x) \in Value
         /\ \/ \A x \in Value : Hear(st, n, k, x) = x
            \/ \E v \in Value : \A x \in Value : Hear(st, n, k, x) = v
<1> DEFINE l == LogOf(st, n)
           d == DataOf(st, n)
           c(x) == [j \in Key |-> x]
           q(x) == OverData(st, c(x), n)
<1>1. d \in Map_ /\ l \in Seq(Record)
  BY DEF ReadOK
<1>2. ASSUME NEW x \in Value
      PROVE  /\ q(x) \in Map_ /\ q(x)[k] = (IF d[k] # 0 THEN d[k] ELSE x)
             /\ Hear(st, n, k, x) = Fold_(q(x), l)[k]
  <2> DEFINE cx == c(x)
  <2>1. cx \in Map_ /\ cx[k] = x
    BY ConstMap
  <2>2. Hear(st, n, k, x) = LoadOf(st, cx, n)[k]
    BY DEF Hear
  <2> HIDE DEF cx
  <2>3. OverData(st, cx, n) \in Map_ /\ OverData(st, cx, n)[k] = (IF d[k] # 0 THEN d[k] ELSE cx[k])
    BY <1>1, <2>1, OverRight
  <2>4. LoadOf(st, cx, n) = Fold_(OverData(st, cx, n), l)
    BY DEF LoadOf, Fold_
  <2> QED BY <2>1, <2>2, <2>3, <2>4 DEF cx
<1> HIDE DEF q, l
<1>3. PointsOK(l)
  BY <1>1, LogPoints
<1>4. \A x \in Value : Fold_(q(x), l) \in Map_
  BY <1>2, <1>3 DEF PointsOK
<1>5. PointOK(l, k) /\ d[k] \in Value
  BY <1>1, <1>3 DEF PointsOK, Map_
<1>6. \A x \in Value : Hear(st, n, k, x) \in Value
  BY <1>2, <1>4 DEF Map_
<1> HIDE DEF d
<1>7. CASE \A m \in Map_ : Fold_(m, l)[k] = m[k]
  <2>1. \A x \in Value : Hear(st, n, k, x) = IF d[k] # 0 THEN d[k] ELSE x
    BY <1>2, <1>7
  <2> QED BY <1>5, <1>6, <2>1
<1>8. CASE \E v \in Value : \A m \in Map_ : Fold_(m, l)[k] = v
  <2>1. \E v \in Value : \A x \in Value : Hear(st, n, k, x) = v
    BY <1>2, <1>8
  <2> QED BY <1>6, <2>1
<1> QED BY <1>5, <1>7, <1>8 DEF PointOK

LEMMA HearSame ==
  ASSUME NEW st, NEW su, NEW n, DataOf(st, n) = DataOf(su, n), LogOf(st, n) = LogOf(su, n)
  PROVE  \A k, x : Hear(st, n, k, x) = Hear(su, n, k, x)
BY DEF Hear, LoadOf, OverData

LEMMA HearSnapshot ==
  ASSUME NEW st, NEW n, DataOf(st, n) \in Map_, LogOf(st, n) = <<>>, NEW k \in Key, NEW x \in Value
  PROVE  Hear(st, n, k, x) = IF DataOf(st, n)[k] # 0 THEN DataOf(st, n)[k] ELSE x
<1> DEFINE c == [j \in Key |-> x]
<1>1. c \in Map_ /\ c[k] = x
  BY ConstMap
<1>2. Hear(st, n, k, x) = LoadOf(st, c, n)[k]
  BY DEF Hear
<1> HIDE DEF c
<1>3. LoadOf(st, c, n) = Fold_(OverData(st, c, n), <<>>)
  BY DEF LoadOf, Fold_
<1>4. LoadOf(st, c, n) = OverData(st, c, n)
  BY <1>3, FoldEmpty
<1> QED BY <1>1, <1>2, <1>4, OverRight

LEMMA HearAppend ==
  ASSUME NEW st, NEW su, NEW n, ReadOK(st, n), NEW r \in Record, NEW k \in Key, NEW x \in Value,
         DataOf(su, n) = DataOf(st, n), LogOf(su, n) = Append(LogOf(st, n), r)
  PROVE  Hear(su, n, k, x) = IF k = r.key THEN r.value ELSE Hear(st, n, k, x)
<1> DEFINE c == [j \in Key |-> x]
           l == LogOf(st, n)
           o == OverData(st, c, n)
<1>1. c \in Map_ /\ l \in Seq(Record) /\ DataOf(st, n) \in Map_
  BY ConstMap DEF ReadOK
<1>2. Hear(st, n, k, x) = LoadOf(st, c, n)[k] /\ Hear(su, n, k, x) = LoadOf(su, c, n)[k]
  BY DEF Hear
<1> HIDE DEF c
<1>3. o \in Map_ /\ OverData(su, c, n) = o
  <2>1. o \in Map_
    BY <1>1, OverRight
  <2> QED BY <2>1 DEF OverData
<1>4. LoadOf(st, c, n) = Fold_(o, l) /\ LoadOf(su, c, n) = Fold_(o, Append(l, r))
  BY <1>3 DEF LoadOf, Fold_
<1> HIDE DEF o, l
<1>5. Fold_(o, Append(l, r)) = Apply(Fold_(o, l), r)
  BY <1>1, FoldAppend
<1> DEFINE y == Fold_(o, l)
<1>6. y \in Map_
  BY <1>1, <1>3, LogPoints DEF PointsOK
<1> HIDE DEF y
<1>7. Apply(y, r)[k] = IF k = r.key THEN r.value ELSE y[k]
  BY <1>6, ApplyRight
<1> QED BY <1>2, <1>4, <1>5, <1>7 DEF y

-----------------------------------------------------------------------------
(* The order in which generations are loaded.                              *)

\* t goes over F, the highest name first.
Descends(t, F) == /\ t \in [1 .. Cardinality(F) -> F]
                  /\ \A i, j \in DOMAIN t : i < j => Rank(t[i]) > Rank(t[j])

LEMMA OrderThere ==
  ASSUME NEW F, NEW t, Descends(t, F)
  PROVE  Descends(OrderOf(F), F)
BY DEF Descends, OrderOf

LEMMA ListIsSeq ==
  ASSUME NEW S, NEW n \in Nat, NEW o \in [1 .. n -> S]
  PROVE  o \in Seq(S) /\ Len(o) = n
<1>1. o \in Seq(S)
  BY SeqDef
<1>2. DOMAIN o = 1 .. n /\ DOMAIN o = 1 .. Len(o) /\ Len(o) \in Nat
  BY <1>1
<1> QED BY <1>1, <1>2

LEMMA OrderNone ==
  OrderOf({}) \in Seq(Nat) /\ Len(OrderOf({})) = 0
<1> DEFINE F == {}
           t == [i \in 1 .. 0 |-> 0]
<1>1. Cardinality(F) = 0
  BY FS_EmptySet
<1>2. Descends(t, F)
  BY <1>1 DEF Descends
<1>3. Descends(OrderOf(F), F)
  <2> HIDE DEF t, F
  <2> QED BY <1>2, OrderThere
<1> DEFINE o == OrderOf(F)
<1>4. o \in [1 .. 0 -> F]
  <2> HIDE DEF F
  <2> QED BY <1>1, <1>3 DEF Descends
<1> HIDE DEF o
<1>5. o \in Seq(Nat) /\ Len(o) = 0
  BY <1>4
<1> QED BY <1>5 DEF o

LEMMA OrderOne ==
  ASSUME NEW a \in Nat
  PROVE  OrderOf({a}) \in Seq(Nat) /\ Len(OrderOf({a})) = 1 /\ OrderOf({a})[1] = a
<1> DEFINE F == {a}
           t == [i \in 1 .. 1 |-> a]
<1>1. Cardinality(F) = 1
  BY FS_Singleton
<1>2. Descends(t, F)
  BY <1>1 DEF Descends
<1>3. Descends(OrderOf(F), F)
  <2> HIDE DEF t, F
  <2> QED BY <1>2, OrderThere
<1> DEFINE o == OrderOf(F)
<1>4. o \in [1 .. 1 -> F]
  <2> HIDE DEF F
  <2> QED BY <1>1, <1>3 DEF Descends
<1> HIDE DEF o
<1>5. o \in Seq(Nat) /\ Len(o) = 1 /\ o[1] = a
  <2>1. o \in [1 .. 1 -> Nat] /\ o[1] \in {a}
    BY <1>4
  <2>2. o \in Seq(Nat) /\ Len(o) = 1
    BY <2>1, ListIsSeq
  <2> QED BY <2>1, <2>2
<1> QED BY <1>5 DEF o

LEMMA OrderTwo ==
  ASSUME NEW a \in Nat, NEW b \in Nat, Rank(a) \in Nat, Rank(b) \in Nat, Rank(a) > Rank(b)
  PROVE  OrderOf({a, b}) \in Seq(Nat) /\ Len(OrderOf({a, b})) = 2
         /\ OrderOf({a, b})[1] = a /\ OrderOf({a, b})[2] = b
<1> DEFINE F == {a, b}
           t == [i \in 1 .. 2 |-> IF i = 1 THEN a ELSE b]
<1>0. a # b
  OBVIOUS
<1>1. Cardinality(F) = 2
  <2>1. IsFiniteSet({b}) /\ Cardinality({b}) = 1
    BY FS_Singleton
  <2>2. Cardinality({b} \cup {a}) = 1 + 1
    BY <1>0, <2>1, FS_AddElement
  <2>3. {b} \cup {a} = F
    OBVIOUS
  <2> QED BY <2>2, <2>3
<1>2. Descends(t, F)
  <2>1. t \in [1 .. 2 -> F]
    OBVIOUS
  <2>2. \A i, j \in 1 .. 2 : i < j => t[i] = a /\ t[j] = b
    OBVIOUS
  <2>3. DOMAIN t = 1 .. 2
    OBVIOUS
  <2> HIDE DEF t, F
  <2> QED BY <1>1, <2>1, <2>2, <2>3 DEF Descends
<1>3. Descends(OrderOf(F), F)
  <2> HIDE DEF t, F
  <2> QED BY <1>2, OrderThere
<1> DEFINE o == OrderOf(F)
<1>4. o \in [1 .. 2 -> F] /\ Rank(o[1]) > Rank(o[2])
  <2> HIDE DEF F
  <2>1. o \in [1 .. 2 -> F] /\ DOMAIN o = 1 .. 2
    BY <1>1, <1>3 DEF Descends
  <2> QED BY <1>1, <1>3, <2>1 DEF Descends
<1> HIDE DEF o
<1>5. o \in Seq(Nat) /\ Len(o) = 2 /\ o[1] \in {a, b} /\ o[2] \in {a, b}
  <2>1. o \in [1 .. 2 -> Nat] /\ 1 \in 1 .. 2 /\ 2 \in 1 .. 2 /\ 2 \in 1 .. 2
    BY <1>4
  <2>2. o[1] \in {a, b} /\ o[2] \in {a, b}
    BY <1>4, <2>1
  <2>3. o \in Seq(Nat) /\ Len(o) = 2
    BY <2>1, ListIsSeq
  <2> QED BY <2>2, <2>3
<1>6. o[1] = a /\ o[2] = b
  BY <1>4, <1>5
<1> QED BY <1>5, <1>6 DEF o

LEMMA OrderThree ==
  ASSUME NEW a \in Nat, NEW b \in Nat, NEW c \in Nat,
         Rank(a) \in Nat, Rank(b) \in Nat, Rank(c) \in Nat, Rank(a) > Rank(b), Rank(b) > Rank(c)
  PROVE  OrderOf({a, b, c}) \in Seq(Nat) /\ Len(OrderOf({a, b, c})) = 3
         /\ OrderOf({a, b, c})[1] = a /\ OrderOf({a, b, c})[2] = b /\ OrderOf({a, b, c})[3] = c
<1> DEFINE F == {a, b, c}
           t == [i \in 1 .. 3 |-> IF i = 1 THEN a ELSE IF i = 2 THEN b ELSE c]
<1>0. a # b /\ b # c /\ a # c
  OBVIOUS
<1>1. Cardinality(F) = 3
  <2>1. IsFiniteSet({b}) /\ Cardinality({b}) = 1
    BY FS_Singleton
  <2>2. IsFiniteSet({b} \cup {a}) /\ Cardinality({b} \cup {a}) = 1 + 1 /\ c \notin {b} \cup {a}
    BY <1>0, <2>1, FS_AddElement
  <2>3. Cardinality(({b} \cup {a}) \cup {c}) = 2 + 1
    BY <2>2, FS_AddElement
  <2>4. ({b} \cup {a}) \cup {c} = F
    OBVIOUS
  <2> QED BY <2>3, <2>4
<1>2. Descends(t, F)
  <2>1. t \in [1 .. 3 -> F]
    OBVIOUS
  <2>2. \A i, j \in 1 .. 3 : i < j => \/ t[i] = a /\ t[j] = b
                                      \/ t[i] = a /\ t[j] = c
                                      \/ t[i] = b /\ t[j] = c
    OBVIOUS
  <2>3. DOMAIN t = 1 .. 3
    OBVIOUS
  <2> HIDE DEF t, F
  <2> QED BY <1>1, <2>1, <2>2, <2>3 DEF Descends
<1>3. Descends(OrderOf(F), F)
  <2> HIDE DEF t, F
  <2> QED BY <1>2, OrderThere
<1> DEFINE o == OrderOf(F)
<1>4. o \in [1 .. 3 -> F] /\ Rank(o[1]) > Rank(o[2]) /\ Rank(o[2]) > Rank(o[3])
  <2> HIDE DEF F
  <2>1. o \in [1 .. 3 -> F] /\ DOMAIN o = 1 .. 3
    BY <1>1, <1>3 DEF Descends
  <2> QED BY <1>1, <1>3, <2>1 DEF Descends
<1> HIDE DEF o
<1>5. o \in Seq(Nat) /\ Len(o) = 3 /\ o[1] \in {a, b, c} /\ o[2] \in {a, b, c} /\ o[3] \in {a, b, c}
  <2>1. o \in [1 .. 3 -> Nat] /\ 1 \in 1 .. 3 /\ 2 \in 1 .. 3 /\ 3 \in 1 .. 3
    BY <1>4
  <2>2. o[1] \in {a, b, c} /\ o[2] \in {a, b, c} /\ o[3] \in {a, b, c}
    BY <1>4, <2>1
  <2>3. o \in Seq(Nat) /\ Len(o) = 3
    BY <2>1, ListIsSeq
  <2> QED BY <2>2, <2>3
<1>6. o[1] = a /\ o[2] = b /\ o[3] = c
  BY <1>4, <1>5
<1> QED BY <1>5, <1>6 DEF o

-----------------------------------------------------------------------------
(* The value of a key that is read back.                                   *)

\* F are the generations found, of which c is the one that is loaded last.
Near(F, c) == /\ c \in F /\ F \subseteq {c, c + 1, 9}
              /\ 9 \in F => c >= 8
              /\ c = 9 => 10 \notin F

Base(st, k, c) == IF 9 \in GenOf(st) \ {c, c + 1} THEN Hear(st, 9, k, 0) ELSE 0
Under(st, k, c) == IF c + 1 \in GenOf(st) THEN Hear(st, c + 1, k, Base(st, k, c)) ELSE Base(st, k, c)
RecAt(st, k, c) == Hear(st, c, k, Under(st, k, c))
Readable(st) == \A n \in GenOf(st) : ReadOK(st, n)

LEMMA NoneRead ==
  ASSUME NEW st, GenOf(st) = {}
  PROVE  RecOf(st) = Nothing
<1> DEFINE o == OrderOf(GenOf(st))
<1>1. o \in Seq(Nat) /\ Len(o) = 0
  BY OrderNone
<1> HIDE DEF o
<1>2. PICK s : LoadSteps(s, st, o)
  BY <1>1, LoadsGo
<1>3. LoadAll(st, o) = Nothing
  BY <1>1, <1>2 DEF LoadSteps
<1> QED BY <1>3 DEF RecOf, o

LEMMA NothingRight ==
  Nothing \in Map_ /\ \A k \in Key : Nothing[k] = 0
<1>1. 0 \in Value
  BY MetadataAssumption DEF Value
<1> QED BY <1>1 DEF Nothing, Map_

LEMMA LoadRight ==
  ASSUME NEW st, NEW n, ReadOK(st, n), NEW m \in Map_
  PROVE  LoadOf(st, m, n) \in Map_
<1>1. OverData(st, m, n) \in Map_ /\ LogOf(st, n) \in Seq(Record)
  BY OverRight DEF ReadOK
<1>2. Fold_(OverData(st, m, n), LogOf(st, n)) \in Map_
  BY <1>1, LogPoints DEF PointsOK
<1> QED BY <1>2 DEF LoadOf, Fold_

\* l names the generations in the order in which they are loaded.
LEMMA OneRead ==
  ASSUME NEW st, NEW l \in Seq(Nat), Len(l) = 1, ReadOK(st, l[1])
  PROVE  /\ LoadAll(st, l) \in Map_
         /\ \A k \in Key : LoadAll(st, l)[k] = Hear(st, l[1], k, 0)
<1>1. PICK s : LoadSteps(s, st, l)
  BY LoadsGo
<1>2. s[0] = Nothing /\ s[1] = LoadOf(st, s[0], l[1]) /\ LoadAll(st, l) = s[1]
  BY <1>1 DEF LoadSteps
<1>3. s[1] \in Map_
  BY <1>2, NothingRight, LoadRight
<1>4. ASSUME NEW k \in Key PROVE s[1][k] = Hear(st, l[1], k, 0)
  BY <1>2, NothingRight, LoadPoint
<1> QED BY <1>2, <1>3, <1>4

LEMMA TwoRead ==
  ASSUME NEW st, NEW l \in Seq(Nat), Len(l) = 2, ReadOK(st, l[1]), ReadOK(st, l[2])
  PROVE  /\ LoadAll(st, l) \in Map_
         /\ \A k \in Key : LoadAll(st, l)[k] = Hear(st, l[2], k, Hear(st, l[1], k, 0))
<1>1. PICK s : LoadSteps(s, st, l)
  BY LoadsGo
<1>2. /\ s[0] = Nothing /\ s[1] = LoadOf(st, s[0], l[1]) /\ s[2] = LoadOf(st, s[1], l[2])
      /\ LoadAll(st, l) = s[2]
  BY <1>1 DEF LoadSteps
<1>3. s[1] \in Map_
  BY <1>2, NothingRight, LoadRight
<1>4. s[2] \in Map_
  BY <1>2, <1>3, LoadRight
<1>5. ASSUME NEW k \in Key PROVE s[2][k] = Hear(st, l[2], k, Hear(st, l[1], k, 0))
  <2>1. s[1][k] = Hear(st, l[1], k, 0)
    BY <1>2, NothingRight, LoadPoint
  <2>2. s[2][k] = Hear(st, l[2], k, s[1][k])
    BY <1>2, <1>3, LoadPoint
  <2> QED BY <2>1, <2>2
<1> QED BY <1>2, <1>4, <1>5

LEMMA ThreeRead ==
  ASSUME NEW st, NEW l \in Seq(Nat), Len(l) = 3, ReadOK(st, l[1]), ReadOK(st, l[2]), ReadOK(st, l[3])
  PROVE  /\ LoadAll(st, l) \in Map_
         /\ \A k \in Key :
              LoadAll(st, l)[k] = Hear(st, l[3], k, Hear(st, l[2], k, Hear(st, l[1], k, 0)))
<1>1. PICK s : LoadSteps(s, st, l)
  BY LoadsGo
<1>2. /\ s[0] = Nothing /\ s[1] = LoadOf(st, s[0], l[1]) /\ s[2] = LoadOf(st, s[1], l[2])
      /\ s[3] = LoadOf(st, s[2], l[3]) /\ LoadAll(st, l) = s[3]
  BY <1>1 DEF LoadSteps
<1>3. s[1] \in Map_
  BY <1>2, NothingRight, LoadRight
<1>4. s[2] \in Map_
  BY <1>2, <1>3, LoadRight
<1>5. s[3] \in Map_
  BY <1>2, <1>4, LoadRight
<1>6. ASSUME NEW k \in Key PROVE s[3][k] = Hear(st, l[3], k, Hear(st, l[2], k, Hear(st, l[1], k, 0)))
  <2>1. s[1][k] = Hear(st, l[1], k, 0)
    BY <1>2, NothingRight, LoadPoint
  <2>2. s[2][k] = Hear(st, l[2], k, s[1][k])
    BY <1>2, <1>3, LoadPoint
  <2>3. s[3][k] = Hear(st, l[3], k, s[2][k])
    BY <1>2, <1>4, LoadPoint
  <2> QED BY <2>1, <2>2, <2>3
<1> QED BY <1>2, <1>5, <1>6

\* The generation loaded last, and what is read.
ReadAs(st, c) == /\ RecOf(st) \in Map_ /\ Last(OrderOf(GenOf(st))) = c
                 /\ \A k \in Key : RecOf(st)[k] = RecAt(st, k, c)

LEMMA RankRight ==
  \A n \in 1 .. 89 : /\ Rank(n) \in Nat
                     /\ \A m \in 1 .. 8 : n < m => Rank(m) > Rank(n)
                     /\ n >= 10 => /\ Rank(9) > Rank(n)
                                   /\ \A m \in 10 .. 89 : n < m => Rank(9) > Rank(m) /\ Rank(m) > Rank(n)
                     /\ n <= 8 => Rank(9) > Rank(n)
BY DEF Rank

LEMMA RecKey ==
  ASSUME NEW st, NEW c \in 1 .. MaxGeneration + 1, Near(GenOf(st), c), Readable(st)
  PROVE  ReadAs(st, c)
<1> DEFINE F == GenOf(st)
           o == OrderOf(F)
<1>0. F \subseteq 1 .. 89 /\ c \in 1 .. 89 /\ c \in Nat /\ c \in F
  BY MetadataAssumption DEF GenOf, Near
<1>1. \A n \in F : ReadOK(st, n)
  BY DEF Readable
<1>2. Near(F, c)
  OBVIOUS
<1>3. RecOf(st) = LoadAll(st, o)
  BY DEF RecOf
<1>5. /\ \A k : RecAt(st, k, c) = Hear(st, c, k, Under(st, k, c))
      /\ \A k : Under(st, k, c) = IF c + 1 \in F THEN Hear(st, c + 1, k, Base(st, k, c)) ELSE Base(st, k, c)
      /\ \A k : Base(st, k, c) = IF 9 \in F \ {c, c + 1} THEN Hear(st, 9, k, 0) ELSE 0
  BY DEF RecAt, Under, Base
<1> DEFINE R == ReadAs(st, c)
<1>6. LoadAll(st, o) \in Map_ /\ Last(o) = c /\ (\A k \in Key : LoadAll(st, o)[k] = RecAt(st, k, c)) => R
  BY <1>3 DEF ReadAs
<1> HIDE DEF F, o, R
<1>7. CASE F = {c}
  <2>1. o \in Seq(Nat) /\ Len(o) = 1 /\ o[1] = c
    BY <1>0, <1>7, OrderOne DEF o
  <2>2. LoadAll(st, o) \in Map_ /\ \A k \in Key : LoadAll(st, o)[k] = Hear(st, c, k, 0)
    BY <1>0, <1>1, <2>1, OneRead
  <2>3. c + 1 \notin F /\ 9 \notin F \ {c, c + 1}
    BY <1>0, <1>7
  <2>4. Last(o) = c
    BY <2>1 DEF Last
  <2>5. \A k : RecAt(st, k, c) = Hear(st, c, k, 0)
    BY <1>5, <2>3
  <2>6. R
    BY <1>6, <2>2, <2>4, <2>5
  <2> QED BY <2>6 DEF R
<1>8. ASSUME NEW a \in Nat, F = {a, c}, a # c, Rank(a) > Rank(c), a = 9 \/ a = c + 1
      PROVE  R
  <2>0. Rank(a) \in Nat /\ Rank(c) \in Nat /\ a \in F /\ a \in 1 .. 89
    BY <1>0, <1>8, RankRight
  <2>1. o \in Seq(Nat) /\ Len(o) = 2 /\ o[1] = a /\ o[2] = c
    BY <1>0, <1>8, <2>0, OrderTwo DEF o
  <2>2. LoadAll(st, o) \in Map_ /\ \A k \in Key : LoadAll(st, o)[k] = Hear(st, c, k, Hear(st, a, k, 0))
    BY <1>0, <1>1, <2>0, <2>1, TwoRead
  <2>3. Last(o) = c
    BY <2>1 DEF Last
  <2>4. ASSUME NEW k PROVE RecAt(st, k, c) = Hear(st, c, k, Hear(st, a, k, 0))
    <3>1. CASE a = c + 1
      <4>1. c + 1 \in F /\ 9 \notin F \ {c, c + 1}
        BY <1>0, <1>8, <3>1
      <4>2. Base(st, k, c) = 0
        BY <1>5, <4>1
      <4>3. Under(st, k, c) = Hear(st, c + 1, k, 0)
        BY <1>5, <4>1, <4>2
      <4> QED BY <1>5, <3>1, <4>3
    <3>2. CASE a = 9 /\ a # c + 1
      <4>1. c + 1 \notin F /\ 9 \in F \ {c, c + 1}
        BY <1>0, <1>8, <3>2
      <4>2. Base(st, k, c) = Hear(st, 9, k, 0)
        BY <1>5, <4>1
      <4>3. Under(st, k, c) = Hear(st, 9, k, 0)
        BY <1>5, <4>1, <4>2
      <4> QED BY <1>5, <3>2, <4>3
    <3> QED BY <1>8, <3>1, <3>2
  <2> QED BY <1>6, <2>2, <2>3, <2>4
<1>9. CASE F = {9, c + 1, c} /\ c # 9 /\ c + 1 # 9
  <2>0. c >= 10 /\ c + 1 \in F /\ 9 \in F /\ c + 1 \in 1 .. 89 /\ c + 1 \in Nat
    BY <1>0, <1>2, <1>9 DEF Near
  <2>1. /\ Rank(9) \in Nat /\ Rank(c) \in Nat /\ Rank(c + 1) \in Nat
        /\ Rank(9) > Rank(c + 1) /\ Rank(c + 1) > Rank(c)
    BY <1>0, <2>0, RankRight
  <2>2. o \in Seq(Nat) /\ Len(o) = 3 /\ o[1] = 9 /\ o[2] = c + 1 /\ o[3] = c
    BY <1>0, <1>9, <2>0, <2>1, OrderThree DEF o
  <2>3. /\ LoadAll(st, o) \in Map_
        /\ \A k \in Key : LoadAll(st, o)[k] = Hear(st, c, k, Hear(st, c + 1, k, Hear(st, 9, k, 0)))
    BY <1>0, <1>1, <2>0, <2>2, ThreeRead
  <2>4. Last(o) = c
    BY <2>2 DEF Last
  <2>5. ASSUME NEW k PROVE RecAt(st, k, c) = Hear(st, c, k, Hear(st, c + 1, k, Hear(st, 9, k, 0)))
    <3>1. c + 1 \in F /\ 9 \in F \ {c, c + 1}
      BY <1>9, <2>0
    <3>2. Base(st, k, c) = Hear(st, 9, k, 0)
      BY <1>5, <3>1
    <3>3. Under(st, k, c) = Hear(st, c + 1, k, Hear(st, 9, k, 0))
      BY <1>5, <3>1, <3>2
    <3> QED BY <1>5, <3>3
  <2>6. R
    BY <1>6, <2>3, <2>4, <2>5
  <2> QED BY <2>6 DEF R
<1>10. \/ F = {c}
       \/ F = {c + 1, c} /\ (c <= 7 \/ c = 8 \/ c >= 10)
       \/ F = {9, c} /\ c >= 10
       \/ F = {9, c + 1, c} /\ c # 9 /\ c + 1 # 9
  <2>1. F \subseteq {c, c + 1, 9} /\ (9 \in F => c >= 8) /\ (c = 9 => 10 \notin F)
    BY <1>2 DEF Near
  <2>2. CASE 9 \in F /\ c # 9 /\ c + 1 # 9
    <3>1. c >= 10
      BY <1>0, <2>1, <2>2
    <3>2. CASE c + 1 \in F
      BY <1>0, <2>1, <2>2, <3>2
    <3>3. CASE c + 1 \notin F
      <4>1. F = {9, c}
        BY <1>0, <2>1, <2>2, <3>3
      <4> QED BY <3>1, <4>1
    <3> QED BY <3>2, <3>3
  <2>3. CASE ~(9 \in F /\ c # 9 /\ c + 1 # 9)
    <3>1. F \subseteq {c, c + 1} /\ c \in F
      BY <1>0, <2>1, <2>3
    <3>2. CASE c + 1 \in F
      <4>1. F = {c + 1, c} /\ c # 9
        <5>1. c # 9
          BY <2>1, <3>2
        <5>2. F = {c + 1, c}
          BY <3>1, <3>2
        <5> QED BY <5>1, <5>2
      <4>2. c <= 7 \/ c = 8 \/ c >= 10
        BY <1>0, <4>1
      <4> QED BY <4>1, <4>2
    <3>3. CASE c + 1 \notin F
      <4>1. F = {c}
        BY <3>1, <3>3
      <4> QED BY <4>1
    <3> QED BY <3>2, <3>3
  <2> QED BY <2>2, <2>3
<1>11. CASE F = {c + 1, c} /\ (c <= 7 \/ c = 8 \/ c >= 10)
  <2>1. c + 1 \in 1 .. 89 /\ c + 1 \in Nat /\ c + 1 # c
    BY <1>0, <1>11
  <2>2. Rank(c + 1) > Rank(c)
    BY <1>0, <1>11, <2>1 DEF Rank
  <2>3. R
    BY <1>8, <1>11, <2>1, <2>2
  <2> QED BY <2>3 DEF R
<1>12. CASE F = {9, c} /\ c >= 10
  <2>1. Rank(9) > Rank(c) /\ 9 # c
    BY <1>0, <1>12, RankRight
  <2>2. R
    BY <1>8, <1>12, <2>1
  <2> QED BY <2>2 DEF R
<1> QED BY <1>7, <1>9, <1>10, <1>11, <1>12

LEMMA UnderRight ==
  ASSUME NEW st, NEW c, Readable(st), NEW k \in Key
  PROVE  Base(st, k, c) \in Value /\ Under(st, k, c) \in Value
<1>1. 0 \in Value
  BY MetadataAssumption DEF Value
<1>2. Base(st, k, c) \in Value
  BY <1>1, HearPoint DEF Base, Readable
<1> DEFINE b == Base(st, k, c)
<1>3. Under(st, k, c) = IF c + 1 \in GenOf(st) THEN Hear(st, c + 1, k, b) ELSE b
  BY DEF Under
<1>4. b \in Value
  BY <1>2
<1> HIDE DEF b
<1>5. c + 1 \in GenOf(st) => Hear(st, c + 1, k, b) \in Value
  BY <1>4, HearPoint DEF Readable
<1>6. Under(st, k, c) \in Value
  BY <1>3, <1>4, <1>5
<1> QED BY <1>2, <1>6

\* The same generations with the same files are read alike.
LEMMA SameRead ==
  ASSUME NEW st, NEW su, NEW c, c \in GenOf(st), GenOf(su) = GenOf(st),
         \A n \in GenOf(st) : DataOf(su, n) = DataOf(st, n) /\ LogOf(su, n) = LogOf(st, n)
  PROVE  \A k : RecAt(su, k, c) = RecAt(st, k, c)
<1>1. \A n \in GenOf(st) : \A k, x : Hear(su, n, k, x) = Hear(st, n, k, x)
  BY HearSame
<1>2. \A k : Base(su, k, c) = Base(st, k, c)
  BY <1>1 DEF Base
<1>3. \A k : Under(su, k, c) = Under(st, k, c)
  BY <1>1, <1>2 DEF Under
<1> QED BY <1>1, <1>3 DEF RecAt

\* A record at the end of the log of the generation loaded last.
LEMMA AppendedRead ==
  ASSUME NEW st, NEW su, NEW c \in Nat, c \in GenOf(st), GenOf(su) = GenOf(st), Readable(st), NEW r \in Record,
         \A n \in GenOf(st) : DataOf(su, n) = DataOf(st, n) /\ (n # c => LogOf(su, n) = LogOf(st, n)),
         LogOf(su, c) = Append(LogOf(st, c), r), NEW k \in Key
  PROVE  RecAt(su, k, c) = IF k = r.key THEN r.value ELSE RecAt(st, k, c)
<1>1. \A n \in GenOf(st) \ {c} : \A x : Hear(su, n, k, x) = Hear(st, n, k, x)
  BY HearSame
<1>2. Base(su, k, c) = Base(st, k, c)
  BY <1>1 DEF Base
<1>3. Under(su, k, c) = Under(st, k, c)
  BY <1>1, <1>2 DEF Under
<1> DEFINE x == Under(st, k, c)
<1>4. x \in Value
  BY UnderRight
<1>5. RecAt(su, k, c) = Hear(su, c, k, x) /\ RecAt(st, k, c) = Hear(st, c, k, x)
  BY <1>3 DEF RecAt
<1> HIDE DEF x
<1>6. ReadOK(st, c) /\ DataOf(su, c) = DataOf(st, c)
  BY DEF Readable
<1>7. Hear(su, c, k, x) = IF k = r.key THEN r.value ELSE Hear(st, c, k, x)
  BY <1>4, <1>6, HearAppend
<1> QED BY <1>5, <1>7

\* What a snapshot m in front of the generation loaded last leaves of it.
Overlaid(st, su, c, m, k) ==
  \/ RecAt(su, k, c) = RecAt(st, k, c)
  \/ RecAt(su, k, c) = m[k]
  \/ m[k] = 0 /\ RecAt(su, k, c) = Base(st, k, c)

LEMMA OverlaidRead ==
  ASSUME NEW st, NEW su, NEW c \in Nat, c \in GenOf(st), GenOf(su) = GenOf(st) \cup {c + 1},
         Readable(st), NEW m \in Map_, DataOf(su, c + 1) = m, LogOf(su, c + 1) = <<>>,
         \A n \in GenOf(st) \ {c + 1} : DataOf(su, n) = DataOf(st, n) /\ LogOf(su, n) = LogOf(st, n),
         NEW k \in Key
  PROVE  Overlaid(st, su, c, m, k)
<1>1. \A n \in GenOf(st) \ {c + 1} : \A x : Hear(su, n, k, x) = Hear(st, n, k, x)
  BY HearSame
<1> DEFINE b == Base(st, k, c)
           x == Under(st, k, c)
<1>2. Base(su, k, c) = b
  BY <1>1 DEF Base
<1>3. b \in Value /\ x \in Value
  BY UnderRight
<1>4. RecAt(st, k, c) = Hear(st, c, k, x)
  BY DEF RecAt
<1>5. Under(su, k, c) = Hear(su, c + 1, k, b)
  BY <1>2 DEF Under
<1> HIDE DEF b, x
<1>6. Hear(su, c + 1, k, b) = IF m[k] # 0 THEN m[k] ELSE b
  BY <1>3, HearSnapshot
<1> DEFINE y == IF m[k] # 0 THEN m[k] ELSE b
<1>7. y \in Value /\ Under(su, k, c) = y
  BY <1>3, <1>5, <1>6 DEF Map_
<1>8. RecAt(su, k, c) = Hear(st, c, k, y)
  <2>1. RecAt(su, k, c) = Hear(su, c, k, y)
    BY <1>7 DEF RecAt
  <2>2. c \in GenOf(st) \ {c + 1}
    OBVIOUS
  <2> HIDE DEF y
  <2> QED BY <1>1, <2>1, <2>2
<1>9. \/ \A z \in Value : Hear(st, c, k, z) = z
      \/ \E v \in Value : \A z \in Value : Hear(st, c, k, z) = v
  BY HearPoint DEF Readable
<1>10. RecAt(su, k, c) = y \/ RecAt(su, k, c) = RecAt(st, k, c)
  <2> HIDE DEF y
  <2> QED BY <1>3, <1>4, <1>7, <1>8, <1>9
<1> QED BY <1>10 DEF Overlaid, b

\* A new generation, once it is the one loaded last.
LEMMA RaisedRead ==
  ASSUME NEW st, NEW c \in Nat, c \in GenOf(st), c + 1 \notin GenOf(st), Readable(st),
         LogOf(st, c) = <<>>, NEW k \in Key
  PROVE  RecAt(st, k, c) = IF DataOf(st, c)[k] # 0 THEN DataOf(st, c)[k] ELSE Base(st, k, c)
<1> DEFINE b == Base(st, k, c)
<1>1. Under(st, k, c) = b
  BY DEF Under
<1>2. b \in Value
  BY UnderRight
<1>3. RecAt(st, k, c) = Hear(st, c, k, b)
  BY <1>1 DEF RecAt
<1>4. DataOf(st, c) \in Map_
  BY DEF Readable, ReadOK
<1> HIDE DEF b
<1>5. Hear(st, c, k, b) = IF DataOf(st, c)[k] # 0 THEN DataOf(st, c)[k] ELSE b
  BY <1>2, <1>4, HearSnapshot
<1> QED BY <1>3, <1>5 DEF b

LEMMA BaseOf ==
  ASSUME NEW st, NEW c, NEW k, Base(st, k, c) # 0
  PROVE  9 \in GenOf(st) \ {c, c + 1}
BY DEF Base

-----------------------------------------------------------------------------
(* The files, and what an operation on one of them leaves of the others.   *)

HasLog(st, n) == <<n, "log">> \in DOMAIN st
EmptyLog(st, n) == HasLog(st, n) /\ LogOf(st, n) = <<>>
WholeLog(st, n) == HasLog(st, n) /\ LogOf(st, n) \in Seq(Record)
FilesTyped(st) == \A f \in DOMAIN st : /\ f \in (1 .. MaxGeneration + 1) \X Kind
                                       /\ f[2] = "data" => st[f] \in [Key -> Value]
                                       /\ f[2] = "log" => st[f] \in Seq(Record \cup {Torn})

\* A snapshot, a log and the mark of a generation are put there.
DataPut(st, su, n, m) ==
  /\ GenOf(su) = GenOf(st)
  /\ \A j : DataOf(su, j) = IF j = n THEN m ELSE DataOf(st, j)
  /\ \A j : HasLog(su, j) = HasLog(st, j)
  /\ \A j : HasLog(st, j) => LogOf(su, j) = LogOf(st, j)

LogPut(st, su, n, l) ==
  /\ GenOf(su) = GenOf(st)
  /\ \A j : DataOf(su, j) = DataOf(st, j)
  /\ \A j : HasLog(su, j) = (HasLog(st, j) \/ j = n)
  /\ LogOf(su, n) = l
  /\ \A j : j # n /\ HasLog(st, j) => LogOf(su, j) = LogOf(st, j)

MetaPut(st, su, n) ==
  /\ GenOf(su) = GenOf(st) \cup {n}
  /\ \A j : DataOf(su, j) = DataOf(st, j)
  /\ \A j : HasLog(su, j) = HasLog(st, j)
  /\ \A j : HasLog(st, j) => LogOf(su, j) = LogOf(st, j)

\* And go.
LogGone(st, su, n) ==
  /\ GenOf(su) = GenOf(st)
  /\ \A j : DataOf(su, j) = DataOf(st, j)
  /\ \A j : j # n => HasLog(su, j) = HasLog(st, j)
  /\ \A j : j # n /\ HasLog(st, j) => LogOf(su, j) = LogOf(st, j)

DataGone(st, su, n) ==
  /\ GenOf(su) = GenOf(st)
  /\ \A j : j # n => DataOf(su, j) = DataOf(st, j)
  /\ \A j : HasLog(su, j) = HasLog(st, j)
  /\ \A j : HasLog(st, j) => LogOf(su, j) = LogOf(st, j)

MetaGone(st, su, n) ==
  /\ GenOf(su) = GenOf(st) \ {n}
  /\ \A j : DataOf(su, j) = DataOf(st, j)
  /\ \A j : HasLog(su, j) = HasLog(st, j)
  /\ \A j : HasLog(st, j) => LogOf(su, j) = LogOf(st, j)

\* PutFile, of any files.
PutOn(st, f, content) == [g \in DOMAIN st \cup {f} |-> IF g = f THEN content ELSE st[g]]

LEMMA PutTyped ==
  ASSUME NEW st, FilesTyped(st), NEW n \in 1 .. MaxGeneration + 1, NEW kind \in Kind, NEW content,
         kind = "data" => content \in Map_, kind = "log" => content \in Seq(Record \cup {Torn})
  PROVE  FilesTyped(PutOn(st, <<n, kind>>, content))
<1> DEFINE f == <<n, kind>>
           su == PutOn(st, f, content)
<1>1. DOMAIN su = DOMAIN st \cup {f} /\ su[f] = content /\ \A g \in DOMAIN st : g # f => su[g] = st[g]
  <2> HIDE DEF f
  <2> QED BY DEF PutOn
<1>2. f \in (1 .. MaxGeneration + 1) \X Kind /\ f[2] = kind
  OBVIOUS
<1> HIDE DEF f, su
<1>3. FilesTyped(su)
  BY <1>1, <1>2 DEF FilesTyped, Map_
<1> QED BY <1>3 DEF su, f

LEMMA PutData ==
  ASSUME NEW st, NEW n, NEW m
  PROVE  DataPut(st, PutOn(st, <<n, "data">>, m), n, m)
<1> DEFINE f == <<n, "data">>
           su == PutOn(st, f, m)
<1>1. DOMAIN su = DOMAIN st \cup {f} /\ su[f] = m /\ \A g \in DOMAIN st : g # f => su[g] = st[g]
  <2> HIDE DEF f
  <2> QED BY DEF PutOn
<1>2. \A j : <<j, "log">> # f /\ <<j, "meta">> # f /\ (<<j, "data">> = f <=> j = n)
  OBVIOUS
<1> HIDE DEF f, su
<1>3. GenOf(su) = GenOf(st)
  BY <1>1, <1>2 DEF GenOf
<1>4. \A j : HasLog(su, j) = HasLog(st, j)
  BY <1>1, <1>2 DEF HasLog
<1>5. \A j : HasLog(st, j) => LogOf(su, j) = LogOf(st, j)
  BY <1>1, <1>2 DEF HasLog, LogOf
<1>6. ASSUME NEW j PROVE DataOf(su, j) = IF j = n THEN m ELSE DataOf(st, j)
  <2>1. CASE j = n
    BY <1>1, <1>2, <2>1 DEF DataOf
  <2>2. CASE j # n
    BY <1>1, <1>2, <2>2 DEF DataOf
  <2> QED BY <2>1, <2>2
<1>7. DataPut(st, su, n, m)
  BY <1>3, <1>4, <1>5, <1>6 DEF DataPut
<1> QED BY <1>7 DEF su, f

LEMMA PutLog ==
  ASSUME NEW st, NEW n, NEW l
  PROVE  LogPut(st, PutOn(st, <<n, "log">>, l), n, l)
<1> DEFINE f == <<n, "log">>
           su == PutOn(st, f, l)
<1>1. DOMAIN su = DOMAIN st \cup {f} /\ su[f] = l /\ \A g \in DOMAIN st : g # f => su[g] = st[g]
  <2> HIDE DEF f
  <2> QED BY DEF PutOn
<1>2. \A j : <<j, "data">> # f /\ <<j, "meta">> # f /\ (<<j, "log">> = f <=> j = n)
  OBVIOUS
<1> HIDE DEF f, su
<1>3. GenOf(su) = GenOf(st)
  BY <1>1, <1>2 DEF GenOf
<1>4. \A j : HasLog(su, j) = (HasLog(st, j) \/ j = n)
  BY <1>1, <1>2 DEF HasLog
<1>5. LogOf(su, n) = l /\ \A j : j # n /\ HasLog(st, j) => LogOf(su, j) = LogOf(st, j)
  BY <1>1, <1>2 DEF HasLog, LogOf
<1>6. \A j : DataOf(su, j) = DataOf(st, j)
  BY <1>1, <1>2 DEF DataOf
<1>7. LogPut(st, su, n, l)
  BY <1>3, <1>4, <1>5, <1>6 DEF LogPut
<1> QED BY <1>7 DEF su, f

LEMMA PutMeta ==
  ASSUME NEW st, NEW n \in 1 .. MaxGeneration + 1, NEW x
  PROVE  MetaPut(st, PutOn(st, <<n, "meta">>, x), n)
<1> DEFINE f == <<n, "meta">>
           su == PutOn(st, f, x)
<1>1. DOMAIN su = DOMAIN st \cup {f} /\ \A g \in DOMAIN st : g # f => su[g] = st[g]
  <2> HIDE DEF f
  <2> QED BY DEF PutOn
<1>2. \A j : <<j, "data">> # f /\ <<j, "log">> # f /\ (<<j, "meta">> = f <=> j = n)
  OBVIOUS
<1> HIDE DEF f, su
<1>3. GenOf(su) = GenOf(st) \cup {n}
  BY <1>1, <1>2 DEF GenOf
<1>4. \A j : HasLog(su, j) = HasLog(st, j)
  BY <1>1, <1>2 DEF HasLog
<1>5. \A j : HasLog(st, j) => LogOf(su, j) = LogOf(st, j)
  BY <1>1, <1>2 DEF HasLog, LogOf
<1>6. \A j : DataOf(su, j) = DataOf(st, j)
  BY <1>1, <1>2 DEF DataOf
<1>7. MetaPut(st, su, n)
  BY <1>3, <1>4, <1>5, <1>6 DEF MetaPut
<1> QED BY <1>7 DEF su, f

\* Files are removed.
Only(st, S) == [f \in DOMAIN st \cap S |-> st[f]]

LEMMA OnlyTyped ==
  ASSUME NEW st, FilesTyped(st), NEW S
  PROVE  FilesTyped(Only(st, S))
BY DEF FilesTyped, Only

LEMMA OnlyRight ==
  ASSUME NEW st, NEW S
  PROVE  /\ GenOf(Only(st, S)) \subseteq GenOf(st)
         /\ \A n : HasLog(Only(st, S), n) => HasLog(st, n) /\ LogOf(Only(st, S), n) = LogOf(st, n)
<1> DEFINE su == Only(st, S)
<1>1. DOMAIN su = DOMAIN st \cap S /\ \A g \in DOMAIN su : su[g] = st[g]
  BY DEF Only
<1> HIDE DEF su
<1>2. GenOf(su) \subseteq GenOf(st)
  BY <1>1 DEF GenOf
<1>3. \A n : HasLog(su, n) => HasLog(st, n) /\ LogOf(su, n) = LogOf(st, n)
  BY <1>1 DEF HasLog, LogOf
<1> QED BY <1>2, <1>3 DEF su

Drop(st, f) == [g \in DOMAIN st \ {f} |-> st[g]]

LEMMA DropTyped ==
  ASSUME NEW st, FilesTyped(st), NEW f
  PROVE  FilesTyped(Drop(st, f))
BY DEF FilesTyped, Drop

LEMMA DropRight ==
  ASSUME NEW st, NEW f
  PROVE  DOMAIN Drop(st, f) = DOMAIN st \ {f} /\ \A g \in DOMAIN st : g # f => Drop(st, f)[g] = st[g]
BY DEF Drop

LEMMA DropLog ==
  ASSUME NEW st, NEW n
  PROVE  LogGone(st, Drop(st, <<n, "log">>), n)
<1> DEFINE f == <<n, "log">>
           su == Drop(st, f)
<1>1. DOMAIN su = DOMAIN st \ {f} /\ \A g \in DOMAIN st : g # f => su[g] = st[g]
  BY DropRight
<1>2. \A j : <<j, "data">> # f /\ <<j, "meta">> # f /\ (<<j, "log">> = f <=> j = n)
  OBVIOUS
<1> HIDE DEF f, su
<1>3. GenOf(su) = GenOf(st)
  BY <1>1, <1>2 DEF GenOf
<1>4. \A j : j # n => HasLog(su, j) = HasLog(st, j)
  BY <1>1, <1>2 DEF HasLog
<1>5. \A j : j # n /\ HasLog(st, j) => LogOf(su, j) = LogOf(st, j)
  BY <1>1, <1>2 DEF HasLog, LogOf
<1>6. \A j : DataOf(su, j) = DataOf(st, j)
  BY <1>1, <1>2 DEF DataOf
<1>7. LogGone(st, su, n)
  BY <1>3, <1>4, <1>5, <1>6 DEF LogGone
<1> QED BY <1>7 DEF su, f

LEMMA DropData ==
  ASSUME NEW st, NEW n
  PROVE  DataGone(st, Drop(st, <<n, "data">>), n)
<1> DEFINE f == <<n, "data">>
           su == Drop(st, f)
<1>1. DOMAIN su = DOMAIN st \ {f} /\ \A g \in DOMAIN st : g # f => su[g] = st[g]
  BY DropRight
<1>2. \A j : <<j, "log">> # f /\ <<j, "meta">> # f /\ (<<j, "data">> = f <=> j = n)
  OBVIOUS
<1> HIDE DEF f, su
<1>3. GenOf(su) = GenOf(st)
  BY <1>1, <1>2 DEF GenOf
<1>4. \A j : HasLog(su, j) = HasLog(st, j)
  BY <1>1, <1>2 DEF HasLog
<1>5. \A j : HasLog(st, j) => LogOf(su, j) = LogOf(st, j)
  BY <1>1, <1>2 DEF HasLog, LogOf
<1>6. \A j : j # n => DataOf(su, j) = DataOf(st, j)
  BY <1>1, <1>2 DEF DataOf
<1>7. DataGone(st, su, n)
  BY <1>3, <1>4, <1>5, <1>6 DEF DataGone
<1> QED BY <1>7 DEF su, f

LEMMA DropMeta ==
  ASSUME NEW st, NEW n
  PROVE  MetaGone(st, Drop(st, <<n, "meta">>), n)
<1> DEFINE f == <<n, "meta">>
           su == Drop(st, f)
<1>1. DOMAIN su = DOMAIN st \ {f} /\ \A g \in DOMAIN st : g # f => su[g] = st[g]
  BY DropRight
<1>2. \A j : <<j, "data">> # f /\ <<j, "log">> # f /\ (<<j, "meta">> = f <=> j = n)
  OBVIOUS
<1> HIDE DEF f, su
<1>3. GenOf(su) = GenOf(st) \ {n}
  BY <1>1, <1>2 DEF GenOf
<1>4. \A j : HasLog(su, j) = HasLog(st, j)
  BY <1>1, <1>2 DEF HasLog
<1>5. \A j : HasLog(st, j) => LogOf(su, j) = LogOf(st, j)
  BY <1>1, <1>2 DEF HasLog, LogOf
<1>6. \A j : DataOf(su, j) = DataOf(st, j)
  BY <1>1, <1>2 DEF DataOf
<1>7. MetaGone(st, su, n)
  BY <1>3, <1>4, <1>5, <1>6 DEF MetaGone
<1> QED BY <1>7 DEF su, f

-----------------------------------------------------------------------------
(* The invariant, of the files st, the generation i, the step s, the map m *)
(* in memory, the map a the callers know and the records t to write.       *)

Made == {"rmlog", "rmdata", "rmmeta"}
Making == {"data", "log", "touch"} \cup Made

DownIn(st) ==
  \/ GenOf(st) = {}
  \/ \E c \in GenOf(st) : /\ Near(GenOf(st), c)
                          /\ c + 1 \in GenOf(st) /\ HasLog(st, c + 1) => EmptyLog(st, c + 1)

FilesIn(st, i, s, m) ==
  /\ s \in {"ready", "write"} => Near(GenOf(st), i) /\ (i + 1 \in GenOf(st) => EmptyLog(st, i + 1))
  /\ s \in {"data", "log", "touch"} => Near(GenOf(st), i - 1) /\ (i \in GenOf(st) => EmptyLog(st, i))
  /\ s \in Made => /\ i - 1 \in GenOf(st) /\ i \in GenOf(st) /\ GenOf(st) \subseteq {i - 1, i, 9}
                   /\ 9 \in GenOf(st) => i >= 9
  /\ s \in Made \cup {"touch"} => EmptyLog(st, i)
  /\ s \in Made \cup {"log", "touch"} => DataOf(st, i) = m
  /\ s \notin {"down", "failed"} =>
       \A n \in GenOf(st) : WholeLog(st, n) \/ (s \in {"rmdata", "rmmeta"} /\ n = i - 1)
  /\ s = "open" => st = <<>>
  /\ s = "opened" => DOMAIN st = {<<i, "log">>} /\ EmptyLog(st, i)
  /\ s = "down" => DownIn(st)

\* What is under way: nothing, a set or a del.
Zero(k) == [key |-> k, value |-> 0]
CallIn(s, t, m, a) ==
  /\ s \in {"ready", "open", "opened", "down"} => t = <<>>
  /\ s \in {"ready", "open", "opened"} => m = a
  /\ s \in {"open", "opened"} => m = Nothing
  /\ s = "write" => t # <<>>
  /\ s \in Making \cup {"write"} =>
       \/ t = <<>> /\ m = a
       \/ m = a /\ \E k \in Key, v \in Value : t = <<[key |-> k, value |-> v]>>
       \/ \E k \in Key : /\ m = [a EXCEPT ![k] = 0]
                         /\ t = <<Zero(k)>> \/ t = <<Zero(k), Zero(k)>>

LoadsIn(st) == \A n \in GenOf(st) : WholeLog(st, n)
EndIn(st, s, e) ==
  /\ s = "down" /\ e # "bad" => LoadsIn(st) /\ (GenOf(st) # {} \/ st = <<>>)
  /\ s = "failed" => e = "bad"

Values(t, k) == {r.value : r \in {x \in Range(t) : x.key = k}}
BehindIn(F, i, s) == {n \in F : n < i /\ (n = i - 1 => s \in {"ready", "write", "down"})}
Stale(F, i, s) == BehindIn(F, i, s) # {}
KeptIn(v, a, t, m, g, k) == \/ v = a[k] \/ v \in Values(t, k)
                            \/ v \in Value /\ g /\ 0 \in {a[k], m[k]}

Gone == {"rmdata", "rmmeta", "opened", "down", "failed"}
SurvivesIn(st, i, s, m, a, t, u) ==
  s \notin Gone =>
    \A k \in Key \ u : KeptIn(RecOf(st)[k], a, t, m, Stale(GenOf(st), i, s), k)
CleanIn(st, i, s, m, a, t) ==
  \A k \in Key : KeptIn(RecOf(st)[k], a, t, m, Stale(GenOf(st), i, s), k)

MetaInv ==
  /\ MetaTypeOK
  /\ FilesIn(store, index, step, map)
  /\ CallIn(step, todo, map, asked)
  /\ EndIn(store, step, ended)
  /\ ~overwritten => SurvivesIn(store, index, step, map, asked, todo, unsaved)
  /\ step = "down" /\ ended = "clean" => CleanIn(store, index, step, map, asked, todo)

LEMMA LogWhole ==
  ASSUME NEW l \in Seq(Record \cup {Torn})
  PROVE  Torn \notin Range(l) <=> l \in Seq(Record)
<1>1. \A r \in Record : r # Torn
  BY MetadataAssumption DEF Record, Torn
<1>2. Range(l) = {l[i] : i \in DOMAIN l}
  BY DEF Range
<1>3. ASSUME l \in Seq(Record) PROVE Torn \notin Range(l)
  BY <1>1, <1>2, <1>3
<1>4. ASSUME Torn \notin Range(l) PROVE l \in Seq(Record)
  <2>1. Len(l) \in Nat /\ l \in [1 .. Len(l) -> Record \cup {Torn}]
    OBVIOUS
  <2>2. l \in [1 .. Len(l) -> Record]
    BY <1>2, <1>4, <2>1
  <2> QED BY <2>1, <2>2, ListIsSeq
<1> QED BY <1>3, <1>4

LEMMA LoadsIs ==
  ASSUME FilesTyped(store)
  PROVE  Loads <=> LoadsIn(store)
<1>1. Found = GenOf(store)
  BY DEF Found, GenOf
<1>2. ASSUME NEW n \in GenOf(store), HasLog(store, n)
      PROVE  Torn \notin Range(store[<<n, "log">>]) <=> LogOf(store, n) \in Seq(Record)
  <2>1. store[<<n, "log">>] \in Seq(Record \cup {Torn})
    BY <1>2 DEF FilesTyped, HasLog
  <2> QED BY <2>1, LogWhole DEF LogOf
<1> QED BY <1>1, <1>2 DEF Loads, LoadsIn, WholeLog, HasLog

LEMMA AllowedIs ==
  \A k \in Key : \A v : v \in Allowed(k) <=> KeptIn(v, asked, todo, map, Stale(GenOf(store), index, step), k)
<1>1. Found = GenOf(store)
  BY DEF Found, GenOf
<1>2. Behind = BehindIn(GenOf(store), index, step)
  BY <1>1 DEF Behind, BehindIn
<1> QED BY <1>2 DEF Allowed, KeptIn, Stale, Values

LEMMA TypedFiles ==
  ASSUME MetaTypeOK
  PROVE  FilesTyped(store)
BY DEF MetaTypeOK, FilesTyped

LEMMA MapKeptHolds ==
  ASSUME MetaInv
  PROVE  MapKept
<1>1. FilesTyped(store) /\ MetaTypeOK
  BY TypedFiles DEF MetaInv
<1>2. Loads <=> LoadsIn(store)
  BY <1>1, LoadsIs
<1>3. Recovered = RecOf(store)
  BY RecNow DEF Rec_
<1>4. Survives
  BY <1>3, AllowedIs DEF MetaInv, Survives, SurvivesIn, Gap, Gone
<1>5. step \notin Gap \cup {"down", "failed"} => LoadsIn(store)
  BY DEF MetaInv, FilesIn, LoadsIn, Gap
<1>6. StartsAgain
  BY <1>2, <1>5 DEF MetaInv, StartsAgain, EndIn
<1>7. CleanKeeps
  BY <1>2, <1>3, AllowedIs DEF MetaInv, CleanKeeps, CleanIn, EndIn
<1> QED BY <1>1, <1>4, <1>6, <1>7 DEF MapKept

-----------------------------------------------------------------------------
(* What is read, at each step.                                             *)

LEMMA WholeReadable ==
  ASSUME NEW st, FilesTyped(st), LoadsIn(st)
  PROVE  Readable(st)
<1>1. \A n : DataOf(st, n) \in Map_
  BY NothingRight DEF DataOf, FilesTyped, Map_
<1> QED BY <1>1 DEF Readable, ReadOK, LoadsIn, WholeLog

\* The generation that is loaded last.
Top(i, s) == IF s \in {"ready", "write"} THEN i
             ELSE IF s = "rmlog" /\ i = 10 THEN i ELSE i - 1

LEMMA TopRead ==
  ASSUME NEW st, FilesTyped(st), NEW i \in 1 .. MaxGeneration + 1, NEW m,
         NEW s \in {"ready", "write", "data", "log", "touch", "rmlog"}, FilesIn(st, i, s, m)
  PROVE  /\ Top(i, s) \in 1 .. MaxGeneration + 1 /\ Near(GenOf(st), Top(i, s))
         /\ Readable(st) /\ ReadAs(st, Top(i, s))
<1>0. MaxGeneration + 1 \in Nat
  BY MetadataAssumption
<1>1. LoadsIn(st)
  BY DEF FilesIn, LoadsIn
<1>2. Readable(st)
  BY <1>1, WholeReadable
<1> DEFINE c == Top(i, s)
<1>3. Near(GenOf(st), c)
  <2>1. CASE s \in {"ready", "write"}
    BY <2>1 DEF FilesIn, Top
  <2>2. CASE s \in {"data", "log", "touch"}
    BY <2>2 DEF FilesIn, Top
  <2>3. CASE s = "rmlog"
    <3>1. /\ i - 1 \in GenOf(st) /\ i \in GenOf(st) /\ GenOf(st) \subseteq {i - 1, i, 9}
          /\ 9 \in GenOf(st) => i >= 9
      BY <2>3 DEF FilesIn, Made
    <3>2. CASE i = 10
      BY <2>3, <3>1, <3>2 DEF Near, Top
    <3>3. CASE i # 10
      <4>1. c = i - 1 /\ c + 1 = i /\ c # 9
        BY <2>3, <3>3 DEF Top
      <4> HIDE DEF c
      <4> QED BY <3>1, <4>1 DEF Near
    <3> QED BY <3>2, <3>3
  <2> QED BY <2>1, <2>2, <2>3
<1>4. c \in GenOf(st)
  BY <1>3 DEF Near
<1>5. c \in 1 .. MaxGeneration + 1
  BY <1>4 DEF GenOf
<1> HIDE DEF c
<1>6. ReadAs(st, c)
  BY <1>2, <1>3, <1>5, RecKey
<1> QED BY <1>2, <1>3, <1>5, <1>6 DEF c

-----------------------------------------------------------------------------
(* The steps that leave the files.                                         *)

LEMMA ValuesRight ==
  /\ \A k : Values(<<>>, k) = {}
  /\ \A r, k : Values(<<r>>, k) = IF r.key = k THEN {r.value} ELSE {}
  /\ \A r, k : Values(<<r, r>>, k) = IF r.key = k THEN {r.value} ELSE {}
<1>1. Range(<<>>) = {} /\ (\A r : Range(<<r>>) = {r} /\ Range(<<r, r>>) = {r})
  <2>1. \A r : Range(<<r>>) = {r}
    BY DEF Range
  <2>2. \A r : Range(<<r, r>>) = {r}
    BY DEF Range
  <2>3. Range(<<>>) = {}
    BY DEF Range
  <2> QED BY <2>1, <2>2, <2>3
<1> QED BY <1>1 DEF Values

LEMMA IndexIs ==
  MaxGeneration \in Nat /\ \A i \in 1 .. MaxGeneration + 1 : i \in Nat
BY MetadataAssumption

LEMMA SetKeeps ==
  ASSUME MetaInv, NEW k \in Key, Set(k)
  PROVE  MetaInv'
<1> USE DEF MetaInv
<1>1. PICK v \in 1 .. MaxValue : todo' = <<[key |-> k, value |-> v]>>
  BY DEF Set
<1>2. /\ step = "ready" /\ step' = "write" /\ todo = <<>> /\ map = asked
      /\ UNCHANGED <<store, index, map, place, asked, unsaved, overwritten, ended, starts>>
  BY DEF Set, CallIn
<1>3. v \in Value
  BY MetadataAssumption DEF Value
<1>4. MetaTypeOK'
  <2>1. [key |-> k, value |-> v] \in Record
    BY <1>3 DEF Record
  <2>2. todo' \in Seq(Record)
    BY <1>1, <2>1
  <2> QED BY <1>2, <2>2 DEF MetaTypeOK, Steps
<1>5. FilesIn(store, index, "write", map)
  BY <1>2 DEF FilesIn, Made
<1>6. CallIn("write", todo', map, asked)
  BY <1>1, <1>2, <1>3 DEF CallIn, Making, Made
<1>7. ~overwritten => SurvivesIn(store, index, "write", map, asked, todo', unsaved)
  <2>1. Stale(GenOf(store), index, "write") = Stale(GenOf(store), index, "ready")
    BY DEF Stale, BehindIn
  <2> QED BY <1>2, <2>1, ValuesRight DEF SurvivesIn, KeptIn, Gone
<1>8. EndIn(store, "write", ended)
  BY DEF EndIn
<1> QED BY <1>2, <1>4, <1>5, <1>6, <1>7, <1>8

LEMMA DelKeeps ==
  ASSUME MetaInv, NEW k \in Key, Del(k)
  PROVE  MetaInv'
<1> USE DEF MetaInv
<1> DEFINE m == [asked EXCEPT ![k] = 0]
           t == <<Zero(k), Zero(k)>>
<1>2. /\ step = "ready" /\ step' = "write" /\ todo = <<>> /\ map = asked /\ map' = m /\ todo' = t
      /\ UNCHANGED <<store, index, place, asked, unsaved, overwritten, ended, starts>>
  BY DEF Del, CallIn, Zero
<1>3. 0 \in Value
  BY MetadataAssumption DEF Value
<1>4. MetaTypeOK'
  <2>1. Zero(k) \in Record
    BY <1>3 DEF Record, Zero
  <2>2. todo' \in Seq(Record)
    BY <1>2, <2>1
  <2>3. map' \in [Key -> Value]
    BY <1>2, <1>3 DEF MetaTypeOK
  <2> QED BY <1>2, <2>2, <2>3 DEF MetaTypeOK, Steps
<1>5. FilesIn(store, index, "write", m)
  BY <1>2 DEF FilesIn, Made
<1>6. CallIn("write", t, m, asked)
  BY <1>2 DEF CallIn, Making, Made
<1>7. ~overwritten => SurvivesIn(store, index, "write", m, asked, t, unsaved)
  <2>1. Stale(GenOf(store), index, "write") = Stale(GenOf(store), index, "ready")
    BY DEF Stale, BehindIn
  <2>2. \A j \in Key : 0 \in {asked[j], asked[j]} => 0 \in {asked[j], m[j]}
    OBVIOUS
  <2> HIDE DEF m, t
  <2> QED BY <1>2, <2>1, <2>2, ValuesRight DEF SurvivesIn, KeptIn, Gone
<1>8. EndIn(store, "write", ended)
  BY DEF EndIn
<1> QED BY <1>2, <1>4, <1>5, <1>6, <1>7, <1>8

LEMMA CloseKeeps ==
  ASSUME MetaInv, Close
  PROVE  MetaInv'
<1> USE DEF MetaInv
<1>2. /\ step = "ready" /\ step' = "data" /\ todo = <<>> /\ map = asked /\ index <= MaxGeneration
      /\ index' = index + 1
      /\ UNCHANGED <<store, map, place, todo, asked, unsaved, overwritten, ended, starts>>
  BY DEF Close, CallIn
<1>3. index \in Nat /\ index + 1 \in 1 .. MaxGeneration + 1 /\ index + 1 - 1 = index
  BY <1>2, IndexIs DEF MetaTypeOK
<1>4. MetaTypeOK'
  BY <1>2, <1>3 DEF MetaTypeOK, Steps
<1> DEFINE i == index + 1
<1>5. FilesIn(store, i, "data", map)
  BY <1>2, <1>3 DEF FilesIn, Made
<1>6. CallIn("data", todo, map, asked)
  BY <1>2 DEF CallIn, Making, Made
<1>7. ~overwritten => SurvivesIn(store, i, "data", map, asked, todo, unsaved)
  <2>1. Stale(GenOf(store), i, "data") = Stale(GenOf(store), index, "ready")
    <3>1. \A n \in GenOf(store) : n \in Nat
      BY DEF GenOf
    <3> QED BY <1>3, <3>1 DEF Stale, BehindIn
  <2> HIDE DEF i
  <2> QED BY <1>2, <2>1 DEF SurvivesIn, KeptIn, Gone
<1>8. EndIn(store, "data", ended)
  BY DEF EndIn
<1> QED BY <1>2, <1>4, <1>5, <1>6, <1>7, <1>8

-----------------------------------------------------------------------------
(* The start, and the end, of the process.                                 *)

LEMMA InitMeta ==
  ASSUME MetaInit
  PROVE  MetaInv
<1> USE DEF MetaInit
<1>1. FilesTyped(store) /\ LoadsIn(store) /\ (GenOf(store) # {} \/ store = <<>>) /\ DownIn(store)
      /\ RecOf(store) = Nothing
  <2>1. CASE First = 1
    <3>1. store = <<>> /\ DOMAIN store = {}
      BY <2>1
    <3>2. GenOf(store) = {}
      BY <3>1 DEF GenOf
    <3> QED BY <3>1, <3>2, NoneRead DEF FilesTyped, LoadsIn, DownIn
  <2>2. CASE First # 1
    <3> DEFINE st == [f \in {First} \X Kind |-> IF f[2] = "data" THEN Nothing ELSE <<>>]
    <3>1. store = st
      BY <2>2
    <3>2. First \in 1 .. MaxGeneration + 1 /\ First \in Nat
      BY MetadataAssumption
    <3>3. /\ DOMAIN st = {First} \X Kind /\ st[<<First, "data">>] = Nothing /\ st[<<First, "log">>] = <<>>
          /\ \A f \in DOMAIN st : f[2] = "data" => st[f] = Nothing
          /\ \A f \in DOMAIN st : f[2] = "log" => st[f] = <<>>
      BY DEF Kind
    <3> HIDE DEF st
    <3>4. FilesTyped(st)
      <4>1. \A f \in DOMAIN st : f \in (1 .. MaxGeneration + 1) \X Kind
        BY <3>2, <3>3
      <4>2. \A f \in DOMAIN st : f[2] = "data" => st[f] \in [Key -> Value]
        BY <3>3, NothingRight DEF Map_
      <4>3. \A f \in DOMAIN st : f[2] = "log" => st[f] \in Seq(Record \cup {Torn})
        <5>1. <<>> \in Seq(Record \cup {Torn})
          BY EmptySeq
        <5> QED BY <3>3, <5>1
      <4> QED BY <4>1, <4>2, <4>3 DEF FilesTyped
    <3>5. GenOf(st) = {First}
      BY <3>2, <3>3 DEF GenOf, Kind
    <3>6. WholeLog(st, First)
      BY <3>3 DEF WholeLog, HasLog, LogOf, Kind
    <3>7. Near(GenOf(st), First)
      BY <3>2, <3>5 DEF Near
    <3>8. LoadsIn(st) /\ DownIn(st)
      BY <3>2, <3>5, <3>6, <3>7 DEF LoadsIn, DownIn
    <3>9. Readable(st)
      BY <3>4, <3>8, WholeReadable
    <3>10. ReadAs(st, First)
      BY <3>2, <3>7, <3>9, RecKey
    <3>11. ASSUME NEW k \in Key PROVE RecOf(st)[k] = 0
      <4>1. First + 1 \notin GenOf(st) /\ First \in GenOf(st) /\ 9 \notin GenOf(st) \ {First, First + 1}
        BY <3>2, <3>5
      <4>2. LogOf(st, First) = <<>> /\ DataOf(st, First) = Nothing
        BY <3>3 DEF LogOf, DataOf
      <4>3. RecAt(st, k, First) = IF DataOf(st, First)[k] # 0 THEN DataOf(st, First)[k] ELSE Base(st, k, First)
        BY <3>2, <3>9, <4>1, <4>2, RaisedRead
      <4>4. Base(st, k, First) = 0
        BY <4>1, BaseOf
      <4> QED BY <3>10, <4>2, <4>3, <4>4, NothingRight DEF ReadAs
    <3>12. RecOf(st) = Nothing
      <4>1. RecOf(st) \in Map_
        BY <3>10 DEF ReadAs
      <4> DEFINE r == RecOf(st)
      <4>2. r \in [Key -> Value] /\ \A k \in Key : r[k] = 0
        BY <3>11, <4>1 DEF Map_
      <4> HIDE DEF r
      <4>3. r = [k \in Key |-> r[k]]
        BY <4>2
      <4>4. r = Nothing
        BY <4>2, <4>3 DEF Nothing
      <4> QED BY <4>4 DEF r
    <3> QED BY <3>1, <3>4, <3>5, <3>8, <3>12
  <2> QED BY <2>1, <2>2
<1>2. MetaTypeOK
  <2>1. 1 \in 1 .. MaxGeneration + 1 /\ 0 \in 0 .. MaxStart
    BY MetadataAssumption
  <2>2. map \in [Key -> Value] /\ asked \in [Key -> Value]
    BY NothingRight DEF Map_
  <2>3. \A f \in DOMAIN store : /\ f \in (1 .. MaxGeneration + 1) \X Kind
                                /\ f[2] = "data" => store[f] \in [Key -> Value]
                                /\ f[2] = "log" => store[f] \in Seq(Record \cup {Torn})
    BY <1>1 DEF FilesTyped
  <2>4. todo \in Seq(Record) /\ unsaved \subseteq Key /\ step \in Steps /\ place \in Nat
        /\ overwritten \in BOOLEAN /\ ended \in {"clean", "crash", "bad"}
    <3>1. <<>> \in Seq(Record)
      BY EmptySeq
    <3> QED BY <3>1 DEF Steps
  <2>5. index \in 1 .. MaxGeneration + 1 /\ starts \in 0 .. MaxStart
    BY <2>1
  <2> HIDE DEF MetaInit
  <2> QED BY <2>2, <2>3, <2>4, <2>5 DEF MetaTypeOK
<1>3. FilesIn(store, index, step, map)
  BY <1>1 DEF FilesIn, Made
<1>4. CallIn(step, todo, map, asked)
  BY DEF CallIn, Making, Made
<1>5. EndIn(store, step, ended)
  BY <1>1 DEF EndIn
<1>6. SurvivesIn(store, index, step, map, asked, todo, unsaved)
  BY DEF SurvivesIn, Gone
<1>7. CleanIn(store, index, step, map, asked, todo)
  BY <1>1 DEF CleanIn, KeptIn
<1> QED BY <1>2, <1>3, <1>4, <1>5, <1>6, <1>7 DEF MetaInv

LEMMA StartKeeps ==
  ASSUME MetaInv, Start
  PROVE  MetaInv'
<1> USE DEF MetaInv
<1>1. /\ step = "down" /\ todo = <<>> /\ starts < MaxStart /\ starts' = starts + 1
      /\ place' = 0 /\ unsaved' = {} /\ UNCHANGED <<store, todo, overwritten, ended>>
  BY DEF Start, CallIn
<1>2. Found = GenOf(store) /\ FilesTyped(store) /\ (Loads <=> LoadsIn(store)) /\ DownIn(store)
  <2>1. FilesTyped(store)
    BY TypedFiles
  <2>2. Found = GenOf(store)
    BY DEF Found, GenOf
  <2> QED BY <1>1, <2>1, <2>2, LoadsIs DEF FilesIn
<1>3. starts' \in 0 .. MaxStart
  <2>1. starts \in 0 .. MaxStart /\ MaxStart \in Nat
    BY MetadataAssumption DEF MetaTypeOK
  <2> QED BY <1>1, <2>1
<1>4. InOrder = OrderOf(GenOf(store)) /\ Recovered = RecOf(store)
  BY <1>2, RecNow DEF InOrder, OrderOf, Rec_
<1>5. CASE ~(LoadsIn(store) /\ (GenOf(store) # {} \/ store = <<>>))
  <2>1. step' = "failed" /\ UNCHANGED <<map, asked, index>> /\ ended = "bad"
    BY <1>1, <1>2, <1>5 DEF Start, EndIn
  <2>2. MetaTypeOK'
    BY <1>1, <1>3, <2>1 DEF MetaTypeOK, Steps
  <2>3. FilesIn(store, index, "failed", map)
    BY DEF FilesIn, Made
  <2>4. CallIn("failed", todo, map, asked)
    BY DEF CallIn, Making, Made
  <2>5. EndIn(store, "failed", ended)
    BY <2>1 DEF EndIn
  <2>6. SurvivesIn(store, index, "failed", map, asked, todo, {})
    BY DEF SurvivesIn, Gone
  <2> QED BY <1>1, <2>1, <2>2, <2>3, <2>4, <2>5, <2>6
<1>6. CASE LoadsIn(store) /\ store = <<>> /\ GenOf(store) = {}
  <2>1. RecOf(store) = Nothing
    BY <1>6, NoneRead
  <2>2. map' = Nothing /\ asked' = Nothing /\ index' = 1 /\ step' = "open"
    BY <1>2, <1>4, <1>6, <2>1 DEF Start
  <2>3. MetaTypeOK'
    <3>1. 1 \in 1 .. MaxGeneration + 1
      BY MetadataAssumption
    <3> QED BY <1>1, <1>3, <2>2, <3>1, NothingRight DEF MetaTypeOK, Steps, Map_
  <2>4. FilesIn(store, 1, "open", Nothing)
    BY <1>6 DEF FilesIn, Made
  <2>5. CallIn("open", todo, Nothing, Nothing)
    BY <1>1 DEF CallIn, Making, Made
  <2>6. EndIn(store, "open", ended)
    BY DEF EndIn
  <2>7. SurvivesIn(store, 1, "open", Nothing, Nothing, todo, {})
    BY <2>1 DEF SurvivesIn, KeptIn
  <2> QED BY <1>1, <2>2, <2>3, <2>4, <2>5, <2>6, <2>7
<1>7. CASE LoadsIn(store) /\ GenOf(store) # {}
  <2>1. PICK c \in GenOf(store) : /\ Near(GenOf(store), c)
                                  /\ c + 1 \in GenOf(store) /\ HasLog(store, c + 1) => EmptyLog(store, c + 1)
    BY <1>2, <1>7 DEF DownIn
  <2>2. c \in 1 .. MaxGeneration + 1 /\ Readable(store)
    BY <1>2, <1>7, WholeReadable DEF GenOf
  <2>3. ReadAs(store, c)
    BY <2>1, <2>2, RecKey
  <2> DEFINE r == RecOf(store)
  <2>4. map' = r /\ asked' = r /\ index' = c /\ step' = "ready" /\ r \in Map_
    BY <1>2, <1>4, <1>7, <2>3 DEF Start, ReadAs
  <2> HIDE DEF r
  <2>5. MetaTypeOK'
    BY <1>1, <1>3, <2>2, <2>4 DEF MetaTypeOK, Steps, Map_
  <2>6. FilesIn(store, c, "ready", r)
    BY <1>7, <2>1 DEF FilesIn, Made, LoadsIn, WholeLog
  <2>7. CallIn("ready", todo, r, r)
    BY <1>1 DEF CallIn, Making, Made
  <2>8. EndIn(store, "ready", ended)
    BY DEF EndIn
  <2>9. SurvivesIn(store, c, "ready", r, r, todo, {})
    BY DEF SurvivesIn, KeptIn, r
  <2> QED BY <1>1, <2>4, <2>5, <2>6, <2>7, <2>8, <2>9
<1> QED BY <1>5, <1>6, <1>7

LEMMA DownFiles ==
  ASSUME NEW st, NEW i \in 1 .. MaxGeneration + 1, NEW m, NEW s \in Steps \ {"down", "failed"},
         FilesIn(st, i, s, m)
  PROVE  /\ DownIn(st)
         /\ s \notin Gap => LoadsIn(st) /\ (GenOf(st) # {} \/ st = <<>>)
<1>0. i \in Nat
  BY IndexIs
<1>1. s \notin Gap => LoadsIn(st)
  BY DEF FilesIn, LoadsIn, Gap
<1>2. CASE s = "open"
  <2>1. st = <<>> /\ DOMAIN st = {}
    BY <1>2 DEF FilesIn
  <2>2. GenOf(st) = {}
    BY <2>1 DEF GenOf
  <2> QED BY <1>1, <2>1, <2>2 DEF DownIn
<1>3. CASE s = "opened"
  <2>1. DOMAIN st = {<<i, "log">>}
    BY <1>3 DEF FilesIn
  <2>2. GenOf(st) = {}
    BY <2>1 DEF GenOf
  <2> QED BY <1>3, <2>2 DEF DownIn, Gap
<1>4. CASE s \in {"ready", "write"}
  <2>1. Near(GenOf(st), i) /\ (i + 1 \in GenOf(st) => EmptyLog(st, i + 1)) /\ i \in GenOf(st)
    BY <1>4 DEF FilesIn, Near
  <2>2. DownIn(st)
    BY <2>1 DEF DownIn
  <2> QED BY <1>1, <2>1, <2>2
<1>5. CASE s \in {"data", "log", "touch"}
  <2>1. Near(GenOf(st), i - 1) /\ (i \in GenOf(st) => EmptyLog(st, i)) /\ i - 1 \in GenOf(st)
        /\ i - 1 + 1 = i
    BY <1>0, <1>5 DEF FilesIn, Near
  <2>2. DownIn(st)
    BY <2>1 DEF DownIn
  <2> QED BY <1>1, <2>1, <2>2
<1>6. CASE s \in Made
  <2>1. /\ i - 1 \in GenOf(st) /\ i \in GenOf(st) /\ GenOf(st) \subseteq {i - 1, i, 9}
        /\ 9 \in GenOf(st) => i >= 9
        /\ EmptyLog(st, i)
    BY <1>6 DEF FilesIn
  <2>2. CASE i = 10
    <3>1. Near(GenOf(st), 10) /\ 10 + 1 \notin GenOf(st) /\ 10 \in GenOf(st)
      BY <2>1, <2>2 DEF Near
    <3>2. DownIn(st)
      BY <3>1 DEF DownIn
    <3> QED BY <1>1, <2>1, <3>2
  <2>3. CASE i # 10
    <3> DEFINE c == i - 1
    <3>1. c + 1 = i /\ c # 9 /\ c \in GenOf(st) /\ GenOf(st) \subseteq {c, c + 1, 9}
          /\ (9 \in GenOf(st) => c >= 8)
      BY <1>0, <2>1, <2>3
    <3> HIDE DEF c
    <3>2. Near(GenOf(st), c)
      BY <3>1 DEF Near
    <3>3. DownIn(st)
      BY <2>1, <3>1, <3>2 DEF DownIn
    <3> QED BY <1>1, <2>1, <3>3
  <2> QED BY <2>2, <2>3
<1>7. s \in {"open", "opened", "ready", "write", "data", "log", "touch"} \cup Made
  BY DEF Steps, Made
<1> QED BY <1>2, <1>3, <1>4, <1>5, <1>6, <1>7

\* The end of a process whose files are then st.
LEMMA DownKeeps ==
  ASSUME MetaInv, NEW how \in {"bad", "crash"}, Down(how), FilesTyped(store'), DownIn(store'),
         how # "bad" => LoadsIn(store') /\ (GenOf(store') # {} \/ store' = <<>>)
  PROVE  MetaInv'
<1> USE DEF MetaInv
<1>1. /\ step' = "down" /\ ended' = how /\ todo' = <<>> /\ map' = Nothing /\ unsaved' = {}
      /\ UNCHANGED <<index, place, asked, overwritten, starts>>
  BY DEF Down
<1>2. MetaTypeOK'
  <2>1. todo' \in Seq(Record)
    BY <1>1, EmptySeq
  <2>2. map' \in [Key -> Value]
    BY <1>1, NothingRight DEF Map_
  <2> QED BY <1>1, <2>1, <2>2 DEF MetaTypeOK, FilesTyped, Steps
<1>3. FilesIn(store', index, "down", Nothing)
  BY DEF FilesIn, Made
<1>4. CallIn("down", <<>>, Nothing, asked)
  BY DEF CallIn, Making, Made
<1>5. EndIn(store', "down", how)
  BY DEF EndIn
<1>6. SurvivesIn(store', index, "down", Nothing, asked, <<>>, {})
  BY DEF SurvivesIn, Gone
<1>7. how # "clean"
  OBVIOUS
<1> QED BY <1>1, <1>2, <1>3, <1>4, <1>5, <1>6, <1>7

LEMMA CrashKeeps ==
  ASSUME MetaInv, Crash
  PROVE  MetaInv'
<1> DEFINE how == IF step \in Gap THEN "bad" ELSE "crash"
<1>1. Down(how) /\ store' = store /\ step \in Steps \ {"down", "failed"}
  BY DEF Crash, Down, MetaInv, MetaTypeOK
<1>2. FilesTyped(store)
  BY TypedFiles DEF MetaInv
<1>3. index \in 1 .. MaxGeneration + 1 /\ FilesIn(store, index, step, map)
  BY DEF MetaInv, MetaTypeOK
<1>4. /\ DownIn(store)
      /\ step \notin Gap => LoadsIn(store) /\ (GenOf(store) # {} \/ store = <<>>)
  BY <1>1, <1>3, DownFiles
<1>5. how \in {"bad", "crash"} /\ (how # "bad" => step \notin Gap)
  OBVIOUS
<1> HIDE DEF how
<1>6. /\ FilesTyped(store') /\ DownIn(store')
      /\ how # "bad" => LoadsIn(store') /\ (GenOf(store') # {} \/ store' = <<>>)
  BY <1>1, <1>2, <1>4, <1>5
<1> QED BY <1>1, <1>5, <1>6, DownKeeps

\* A log whose records are changed: every other file stays.
LEMMA EqualPut ==
  ASSUME NEW st, NEW f \in DOMAIN st, NEW content
  PROVE  [st EXCEPT ![f] = content] = PutOn(st, f, content)
BY DEF PutOn

LEMMA CrashInWriteKeeps ==
  ASSUME MetaInv, CrashInWrite
  PROVE  MetaInv'
<1> USE DEF MetaInv
<1> DEFINE f == <<index, "log">>
           l == store[f]
           l2 == Append(l, Torn)
<1>1. step = "write" /\ Down("bad") /\ store' = [store EXCEPT ![f] = l2]
  BY DEF CrashInWrite
<1>2. FilesTyped(store) /\ index \in 1 .. MaxGeneration + 1 /\ FilesIn(store, index, "write", map)
  BY <1>1, TypedFiles DEF MetaTypeOK
<1>3. Near(GenOf(store), index) /\ WholeLog(store, index) /\ index \in GenOf(store)
      /\ (index + 1 \in GenOf(store) => EmptyLog(store, index + 1))
  BY <1>2 DEF FilesIn, Near
<1>4. f \in DOMAIN store /\ l \in Seq(Record \cup {Torn})
  BY <1>2, <1>3 DEF FilesTyped, WholeLog, HasLog
<1>5. l2 \in Seq(Record \cup {Torn})
  <2> DEFINE S == Record \cup {Torn}
  <2>1. Torn \in S /\ l \in Seq(S)
    BY <1>4
  <2> HIDE DEF S, l
  <2>2. Append(l, Torn) \in Seq(S)
    BY <2>1
  <2> QED BY <2>2 DEF S
<1> HIDE DEF l2
<1>6. store' = PutOn(store, f, l2)
  <2> HIDE DEF f
  <2> QED BY <1>1, <1>4, EqualPut
<1>7. LogPut(store, store', index, l2)
  BY <1>6, PutLog
<1>8. FilesTyped(store')
  <2>1. "log" \in Kind
    BY DEF Kind
  <2> QED BY <1>2, <1>5, <1>6, <2>1, PutTyped
<1>9. DownIn(store')
  <2>1. /\ GenOf(store') = GenOf(store)
        /\ index + 1 \in GenOf(store) => EmptyLog(store', index + 1)
    <3>1. index + 1 # index
      BY <1>2, IndexIs
    <3> QED BY <1>3, <1>7, <3>1 DEF LogPut, EmptyLog
  <2> QED BY <1>3, <2>1 DEF DownIn
<1> QED BY <1>1, <1>8, <1>9, DownKeeps

LEMMA CrashInClearKeeps ==
  ASSUME MetaInv, CrashInClear
  PROVE  MetaInv'
<1> USE DEF MetaInv
<1>1. PICK rest \in SUBSET DOMAIN store : store' = Restrict(store, rest)
  BY DEF CrashInClear
<1>2. step = "ready" /\ Down("bad")
  BY DEF CrashInClear
<1>3. store' = Only(store, rest)
  <2>1. DOMAIN store \cap rest = rest
    OBVIOUS
  <2> QED BY <1>1, <2>1 DEF Restrict, Only
<1>4. FilesTyped(store) /\ index \in 1 .. MaxGeneration + 1 /\ FilesIn(store, index, "ready", map)
  BY <1>2, TypedFiles DEF MetaTypeOK
<1>5. FilesTyped(store')
  BY <1>3, <1>4, OnlyTyped
<1> DEFINE F == GenOf(store)
           G == GenOf(store')
           c == index
<1>6. /\ G \subseteq F
      /\ \A n : HasLog(store', n) => HasLog(store, n) /\ LogOf(store', n) = LogOf(store, n)
  BY <1>3, OnlyRight
<1>7. Near(F, c) /\ (c + 1 \in F => EmptyLog(store, c + 1)) /\ c \in Nat
  BY <1>4, IndexIs DEF FilesIn
<1>8. c + 1 \in G /\ HasLog(store', c + 1) => EmptyLog(store', c + 1)
  BY <1>6, <1>7 DEF EmptyLog
<1> DEFINE R == DownIn(store')
<1>9. /\ G = {} => R
      /\ \A n \in G : Near(G, n) /\ (n + 1 \in G /\ HasLog(store', n + 1) => EmptyLog(store', n + 1)) => R
  BY DEF DownIn
<1> HIDE DEF F, G, c, R
<1>10. ASSUME c \in G PROVE R
  <2>1. Near(G, c)
    BY <1>6, <1>7, <1>10 DEF Near
  <2> QED BY <1>8, <1>9, <1>10, <2>1
<1>11. ASSUME c \notin G, c + 1 \in G PROVE R
  <2> DEFINE d == c + 1
  <2>1. G \subseteq {d, 9} /\ d \in G /\ (9 \in G => d >= 9) /\ d \in Nat
    BY <1>6, <1>7, <1>11 DEF Near
  <2> HIDE DEF d
  <2>2. Near(G, d)
    BY <2>1 DEF Near
  <2>3. d + 1 \notin G
    BY <2>1
  <2> QED BY <1>9, <2>1, <2>2, <2>3
<1>12. ASSUME c \notin G, c + 1 \notin G, G # {} PROVE R
  <2>1. G = {9}
    BY <1>6, <1>7, <1>12 DEF Near
  <2>2. Near(G, 9) /\ 9 + 1 \notin G /\ 9 \in G
    BY <2>1 DEF Near
  <2> QED BY <1>9, <2>2
<1>13. R
  BY <1>9, <1>10, <1>11, <1>12
<1>14. DownIn(store')
  BY <1>13 DEF R
<1> QED BY <1>2, <1>5, <1>14, DownKeeps

-----------------------------------------------------------------------------
(* Clear, and the first log of a directory.                                *)

LEMMA ClearKeeps ==
  ASSUME MetaInv, Clear
  PROVE  MetaInv'
<1> USE DEF MetaInv
<1> DEFINE st == <<>>
<1>1. /\ store' = st /\ map' = Nothing /\ asked' = Nothing /\ step' = "open" /\ todo = <<>>
      /\ unsaved' = {} /\ overwritten' = FALSE /\ UNCHANGED <<index, place, todo, ended, starts>>
  BY DEF Clear, CallIn
<1>2. DOMAIN st = {}
  OBVIOUS
<1>3. GenOf(st) = {}
  BY <1>2 DEF GenOf
<1>4. RecOf(st) = Nothing
  BY <1>3, NoneRead
<1>5. MetaTypeOK'
  BY <1>1, <1>2, NothingRight DEF MetaTypeOK, Map_, Steps
<1>6. FilesIn(st, index, "open", Nothing)
  BY <1>3 DEF FilesIn, Made
<1>7. CallIn("open", <<>>, Nothing, Nothing)
  BY DEF CallIn, Making, Made
<1>8. EndIn(st, "open", ended)
  BY DEF EndIn
<1>9. SurvivesIn(st, index, "open", Nothing, Nothing, <<>>, {})
  BY <1>4 DEF SurvivesIn, KeptIn
<1> HIDE DEF st
<1> QED BY <1>1, <1>5, <1>6, <1>7, <1>8, <1>9

LEMMA PutFileIs ==
  ASSUME NEW f, NEW content
  PROVE  PutFile(f, content) = PutOn(store, f, content)
BY DEF PutFile, PutOn

LEMMA OpenKeeps ==
  ASSUME MetaInv, Open
  PROVE  MetaInv'
<1> USE DEF MetaInv
<1> DEFINE f == <<index, "log">>
<1>1. /\ step = "open" /\ step' = "opened" /\ place' = 0 /\ todo = <<>> /\ map = asked /\ map = Nothing
      /\ UNCHANGED <<index, map, todo, asked, unsaved, overwritten, ended, starts>>
  BY DEF Open, CreateLog, CallIn
<1>2. store' = PutOn(store, f, <<>>)
  BY PutFileIs DEF Open, CreateLog
<1>3. FilesTyped(store) /\ store = <<>> /\ DOMAIN store = {} /\ index \in 1 .. MaxGeneration + 1
  BY <1>1, TypedFiles DEF FilesIn, MetaTypeOK
<1>4. DOMAIN store' = {f}
  <2> HIDE DEF f
  <2> QED BY <1>2, <1>3 DEF PutOn
<1>5. LogPut(store, store', index, <<>>)
  BY <1>2, PutLog
<1>6. EmptyLog(store', index) /\ GenOf(store') = {}
  BY <1>3, <1>5 DEF LogPut, EmptyLog, GenOf
<1>7. FilesTyped(store')
  <2>1. <<>> \in Seq(Record \cup {Torn}) /\ "log" \in Kind
    BY EmptySeq DEF Kind
  <2> QED BY <1>2, <1>3, <2>1, PutTyped
<1>8. MetaTypeOK'
  BY <1>1, <1>7 DEF MetaTypeOK, FilesTyped, Steps
<1>9. FilesIn(store', index, "opened", map)
  BY <1>4, <1>6 DEF FilesIn, Made
<1>10. CallIn("opened", todo, map, asked)
  BY <1>1 DEF CallIn, Making, Made
<1>11. EndIn(store', "opened", ended)
  BY DEF EndIn
<1>12. SurvivesIn(store', index, "opened", map, asked, todo, unsaved)
  BY DEF SurvivesIn, Gone
<1> QED BY <1>1, <1>8, <1>9, <1>10, <1>11, <1>12

LEMMA OpenedKeeps ==
  ASSUME MetaInv, Opened
  PROVE  MetaInv'
<1> USE DEF MetaInv
<1>1. /\ step = "opened" /\ step' = "ready" /\ todo = <<>> /\ map = asked /\ map = Nothing
      /\ UNCHANGED <<index, map, place, todo, asked, unsaved, overwritten, ended, starts>>
  BY DEF Opened, CallIn
<1>2. store' = PutOn(store, <<index, "meta">>, <<>>)
  BY PutFileIs DEF Opened, Touch
<1>3. FilesTyped(store) /\ DOMAIN store = {<<index, "log">>} /\ EmptyLog(store, index)
      /\ index \in 1 .. MaxGeneration + 1 /\ index \in Nat
  BY <1>1, TypedFiles, IndexIs DEF FilesIn, MetaTypeOK
<1>4. MetaPut(store, store', index)
  BY <1>2, <1>3, PutMeta
<1>5. GenOf(store') = {index} /\ EmptyLog(store', index) /\ DataOf(store', index) = Nothing
  <2>1. GenOf(store) = {} /\ DataOf(store, index) = Nothing
    BY <1>3 DEF GenOf, DataOf
  <2> QED BY <1>3, <1>4, <2>1 DEF MetaPut, EmptyLog
<1>6. FilesTyped(store')
  <2>1. "meta" \in Kind
    BY DEF Kind
  <2> QED BY <1>2, <1>3, <2>1, PutTyped
<1>7. WholeLog(store', index)
  BY <1>5, EmptySeq DEF EmptyLog, WholeLog
<1>8. Near(GenOf(store'), index) /\ index + 1 \notin GenOf(store')
  BY <1>3, <1>5 DEF Near
<1>9. MetaTypeOK'
  BY <1>1, <1>6 DEF MetaTypeOK, FilesTyped, Steps
<1>10. FilesIn(store', index, "ready", map)
  BY <1>5, <1>7, <1>8 DEF FilesIn, Made
<1>11. CallIn("ready", todo, map, asked)
  BY <1>1 DEF CallIn, Making, Made
<1>12. EndIn(store', "ready", ended)
  BY DEF EndIn
<1>13. SurvivesIn(store', index, "ready", map, asked, todo, unsaved)
  <2>1. Readable(store') /\ ReadAs(store', index)
    <3>1. Top(index, "ready") = index
      BY DEF Top
    <3> QED BY <1>3, <1>6, <1>10, <3>1, TopRead
  <2>2. ASSUME NEW k \in Key PROVE RecOf(store')[k] = asked[k]
    <3>1. RecAt(store', k, index) = IF DataOf(store', index)[k] # 0 THEN DataOf(store', index)[k]
                                   ELSE Base(store', k, index)
      BY <1>3, <1>5, <1>8, <2>1, RaisedRead DEF EmptyLog
    <3>2. Base(store', k, index) = 0
      BY <1>5, BaseOf
    <3> QED BY <1>1, <1>5, <2>1, <3>1, <3>2, NothingRight DEF ReadAs
  <2> QED BY <2>2 DEF SurvivesIn, KeptIn
<1> QED BY <1>1, <1>9, <1>10, <1>11, <1>12, <1>13

-----------------------------------------------------------------------------
(* A record that is written.                                               *)

\* The call under way has yet to write the value v for k, once or twice.
Pending(t, m, a, k, v) ==
  \/ t = <<[key |-> k, value |-> v]>> /\ (m = a \/ (v = 0 /\ m = [a EXCEPT ![k] = 0]))
  \/ v = 0 /\ t = <<Zero(k), Zero(k)>> /\ m = [a EXCEPT ![k] = 0]

\* The same after the record.
After(s2, t2, m2, a2, a, k, v) ==
  \/ s2 = "ready" /\ t2 = <<>> /\ a2 = [a EXCEPT ![k] = v] /\ m2 = a2
  \/ s2 = "write" /\ v = 0 /\ t2 = <<Zero(k)>> /\ a2 = a /\ m2 = [a EXCEPT ![k] = 0]

LEMMA PendingRight ==
  ASSUME NEW s \in Making \cup {"write"}, NEW t, t # <<>>, NEW m, NEW a, CallIn(s, t, m, a)
  PROVE  \E k \in Key : \E v \in Value : Pending(t, m, a, k, v) /\ Head(t) = [key |-> k, value |-> v]
<1>0. 0 \in Value
  BY MetadataAssumption DEF Value
<1>1. ASSUME m = a, NEW k \in Key, NEW v \in Value, t = <<[key |-> k, value |-> v]>>
      PROVE  Pending(t, m, a, k, v) /\ Head(t) = [key |-> k, value |-> v]
  <2> DEFINE r == [key |-> k, value |-> v]
  <2>1. Head(t) = r
    <3> HIDE DEF r
    <3>1. t = <<r>>
      BY <1>1 DEF r
    <3> QED BY <3>1
  <2>2. Pending(t, m, a, k, v)
    BY <1>1, Zenon DEF Pending
  <2> QED BY <2>1, <2>2
<1>2. ASSUME NEW k \in Key, m = [a EXCEPT ![k] = 0], t = <<Zero(k)>> \/ t = <<Zero(k), Zero(k)>>
      PROVE  Pending(t, m, a, k, 0) /\ Head(t) = [key |-> k, value |-> 0]
  <2>1. Head(t) = Zero(k)
    BY <1>2
  <2> QED BY <1>2, <2>1 DEF Pending, Zero
<1>3. \/ m = a /\ \E k \in Key, v \in Value : t = <<[key |-> k, value |-> v]>>
      \/ \E k \in Key : /\ m = [a EXCEPT ![k] = 0]
                        /\ t = <<Zero(k)>> \/ t = <<Zero(k), Zero(k)>>
  BY DEF CallIn
<1>4. CASE m = a /\ \E k \in Key, v \in Value : t = <<[key |-> k, value |-> v]>>
  BY <1>1, <1>4
<1>5. CASE \E k \in Key : /\ m = [a EXCEPT ![k] = 0]
                          /\ t = <<Zero(k)>> \/ t = <<Zero(k), Zero(k)>>
  <2>1. PICK k \in Key : /\ m = [a EXCEPT ![k] = 0]
                         /\ t = <<Zero(k)>> \/ t = <<Zero(k), Zero(k)>>
    BY <1>5
  <2>2. Pending(t, m, a, k, 0) /\ Head(t) = [key |-> k, value |-> 0]
    BY <1>2, <2>1
  <2> QED BY <1>0, <2>2
<1> QED BY <1>3, <1>4, <1>5

LEMMA WrittenRight ==
  ASSUME NEW lost, Written(lost), map \in Map_, asked \in Map_, NEW k \in Key, NEW v \in Value,
         Pending(todo, map, asked, k, v)
  PROVE  /\ unsaved' = lost /\ map' \in Map_ /\ asked' \in Map_
         /\ After(step', todo', map', asked', asked, k, v)
<1> DEFINE r == [key |-> k, value |-> v]
<1>1. r.key = k /\ r.value = v
  OBVIOUS
<1>2. CASE todo = <<r>> /\ (map = asked \/ (v = 0 /\ map = [asked EXCEPT ![k] = 0]))
  <2>1. Head(todo) = r /\ Tail(todo) = <<>> /\ Len(todo) = 1
    BY <1>2
  <2>2. /\ todo' = <<>> /\ map' = [map EXCEPT ![k] = v] /\ asked' = [asked EXCEPT ![k] = v]
        /\ step' = "ready" /\ unsaved' = lost
    <3> HIDE DEF r
    <3>1. /\ todo' = Tail(todo) /\ map' = Apply(map, r) /\ asked' = Apply(asked, r)
          /\ step' = "ready" /\ unsaved' = lost
      BY <2>1 DEF Written
    <3> QED BY <1>1, <2>1, <3>1 DEF Apply
  <2>3. [map EXCEPT ![k] = v] = [asked EXCEPT ![k] = v]
    BY <1>2 DEF Map_
  <2> QED BY <2>2, <2>3 DEF After, Map_
<1>3. CASE v = 0 /\ todo = <<Zero(k), Zero(k)>> /\ map = [asked EXCEPT ![k] = 0]
  <2>1. Head(todo) = r /\ Tail(todo) = <<Zero(k)>> /\ Len(todo) = 2
    BY <1>3 DEF Zero
  <2>2. /\ todo' = <<Zero(k)>> /\ map' = [map EXCEPT ![k] = 0] /\ asked' = asked
        /\ step' = "write" /\ unsaved' = lost
    <3> HIDE DEF r
    <3>1. /\ todo' = Tail(todo) /\ map' = Apply(map, r) /\ asked' = asked
          /\ step' = "write" /\ unsaved' = lost
      BY <2>1 DEF Written
    <3> QED BY <1>1, <1>3, <2>1, <3>1 DEF Apply
  <2>3. [map EXCEPT ![k] = 0] = [asked EXCEPT ![k] = 0]
    BY <1>3 DEF Map_
  <2> QED BY <1>3, <2>2, <2>3 DEF After, Map_
<1> QED BY <1>2, <1>3 DEF Pending

LEMMA AfterRight ==
  ASSUME NEW a \in Map_, NEW k \in Key, NEW v \in Value, NEW t, NEW m, Pending(t, m, a, k, v),
         NEW s2, NEW t2, NEW m2, NEW a2, After(s2, t2, m2, a2, a, k, v)
  PROVE  /\ s2 \in {"ready", "write"} /\ t2 \in Seq(Record) /\ CallIn(s2, t2, m2, a2)
         /\ \A j \in Key \ {k} : m[j] = a[j]
         /\ \A g : KeptIn(v, a2, t2, m2, g, k)
         /\ \A g, x : \A j \in Key \ {k} : KeptIn(x, a, t, m, g, j) => KeptIn(x, a2, t2, m2, g, j)
<1>1. Zero(k) \in Record /\ Zero(k).key = k /\ Zero(k).value = 0
  BY MetadataAssumption DEF Zero, Record, Value
<1>2. \A j \in Key \ {k} : m[j] = a[j] /\ Values(t, j) = {}
  <2>1. CASE t = <<[key |-> k, value |-> v]>> /\ (m = a \/ (v = 0 /\ m = [a EXCEPT ![k] = 0]))
    BY <2>1, ValuesRight DEF Map_
  <2>2. CASE v = 0 /\ t = <<Zero(k), Zero(k)>> /\ m = [a EXCEPT ![k] = 0]
    BY <1>1, <2>2, ValuesRight DEF Map_
  <2> QED BY <2>1, <2>2 DEF Pending
<1>3. CASE s2 = "ready" /\ t2 = <<>> /\ a2 = [a EXCEPT ![k] = v] /\ m2 = a2
  <2>1. a2[k] = v /\ \A j \in Key \ {k} : a2[j] = a[j] /\ m2[j] = m[j]
    BY <1>2, <1>3 DEF Map_
  <2>2. CallIn(s2, t2, m2, a2)
    BY <1>3 DEF CallIn, Making, Made
  <2>3. t2 \in Seq(Record)
    BY <1>3, EmptySeq
  <2> QED BY <1>2, <1>3, <2>1, <2>2, <2>3 DEF KeptIn
<1>4. CASE s2 = "write" /\ v = 0 /\ t2 = <<Zero(k)>> /\ a2 = a /\ m2 = [a EXCEPT ![k] = 0]
  <2>1. v \in Values(t2, k) /\ \A j \in Key \ {k} : a2[j] = a[j] /\ m2[j] = m[j]
    BY <1>1, <1>2, <1>4, ValuesRight DEF Map_
  <2>2. CallIn(s2, t2, m2, a2)
    BY <1>4 DEF CallIn, Making, Made
  <2>3. t2 \in Seq(Record)
    BY <1>1, <1>4
  <2> QED BY <1>2, <1>4, <2>1, <2>2, <2>3 DEF KeptIn
<1> QED BY <1>3, <1>4 DEF After

LEMMA StaleSame ==
  ASSUME NEW st, NEW i \in Nat
  PROVE  /\ Stale(GenOf(st), i, "write") = Stale(GenOf(st), i, "ready")
         /\ Stale(GenOf(st), i + 1, "data") = Stale(GenOf(st), i, "ready")
         /\ \A s \in {"data", "log", "touch", "rmlog"} : Stale(GenOf(st), i, s) = Stale(GenOf(st), i, "data")
<1>1. \A n \in GenOf(st) : n \in Nat
  BY DEF GenOf
<1>2. i + 1 - 1 = i
  OBVIOUS
<1> QED BY <1>1, <1>2 DEF Stale, BehindIn

LEMMA WriteLogKeeps ==
  ASSUME MetaInv, WriteLog
  PROVE  MetaInv'
<1> USE DEF MetaInv
<1> DEFINE f == <<index, "log">>
           l == store[f]
           r == Head(todo)
           l2 == IF place < Len(l) THEN [l EXCEPT ![place + 1] = r] ELSE Append(l, r)
           F == GenOf(store)
<1>1. /\ step = "write" /\ todo # <<>> /\ place' = place + 1 /\ place \in Nat
      /\ overwritten' = (overwritten \/ place < Len(l))
      /\ UNCHANGED <<ended, starts>>
  BY DEF WriteLog, CallIn, MetaTypeOK
<1>2. store' = [store EXCEPT ![f] = l2]
  BY DEF WriteLog
<1>3. /\ FilesTyped(store) /\ index \in 1 .. MaxGeneration + 1 /\ index \in Nat
      /\ FilesIn(store, index, "write", map) /\ map \in Map_ /\ asked \in Map_
  BY <1>1, TypedFiles, IndexIs DEF MetaTypeOK, Map_
<1>4. Near(F, index) /\ WholeLog(store, index) /\ index \in F
      /\ (index + 1 \in F => EmptyLog(store, index + 1)) /\ LoadsIn(store)
  BY <1>3 DEF FilesIn, Near, LoadsIn
<1>5. f \in DOMAIN store /\ l \in Seq(Record)
  BY <1>3, <1>4 DEF WholeLog, HasLog, LogOf
<1>6. PICK k \in Key, v \in Value : Pending(todo, map, asked, k, v) /\ r = [key |-> k, value |-> v]
  <2>1. CallIn("write", todo, map, asked)
    BY <1>1
  <2> HIDE DEF r
  <2>2. "write" \in Making \cup {"write"}
    OBVIOUS
  <2> QED BY <1>1, <2>1, <2>2, PendingRight DEF r
<1>7. r \in Record /\ r.key = k /\ r.value = v
  BY <1>6 DEF Record
<1> HIDE DEF r
<1>8. l2 \in Seq(Record)
  <2> HIDE DEF l
  <2>1. place + 1 \in Nat /\ place + 1 >= 1
    BY <1>1
  <2>2. Append(l, r) \in Seq(Record) /\ (place < Len(l) => [l EXCEPT ![place + 1] = r] \in Seq(Record))
    <3>1. Append(l, r) \in Seq(Record)
      BY <1>5, <1>7
    <3>2. CASE place < Len(l)
      <4>1. place + 1 \in 1 .. Len(l)
        BY <1>1, <1>5, <3>2
      <4>2. [l EXCEPT ![place + 1] = r] \in Seq(Record)
        BY <1>5, <1>7, <4>1, ExceptSeq
      <4> QED BY <3>1, <4>2
    <3> QED BY <3>1, <3>2
  <2> QED BY <2>2
<1> HIDE DEF l2
<1>9. store' = PutOn(store, f, l2)
  <2> HIDE DEF f, l
  <2> QED BY <1>2, <1>5, EqualPut
<1>10. LogPut(store, store', index, l2)
  BY <1>9, PutLog
<1>11. FilesTyped(store')
  <2>1. "log" \in Kind
    BY DEF Kind
  <2>2. l2 \in Seq(Record \cup {Torn})
    BY <1>8
  <2> QED BY <1>3, <1>9, <2>1, <2>2, PutTyped
<1>12. index + 1 # index
  BY <1>3
<1>13. FilesIn(store', index, "write", map)
  BY <1>3, <1>4, <1>8, <1>10, <1>12 DEF FilesIn, Made, LogPut, EmptyLog, WholeLog
<1>14. GenOf(store') = F
  BY <1>10 DEF LogPut
<1> DEFINE g == Stale(F, index, "ready")
<1>15. ASSUME ~overwritten'
       PROVE  /\ RecOf(store')[k] = v
              /\ \A j \in Key \ {k} : RecOf(store')[j] = RecOf(store)[j]
  <2>1. ~overwritten /\ ~(place < Len(l))
    BY <1>1, <1>15
  <2>2. l2 = Append(l, r)
    BY <2>1 DEF l2
  <2>3. Top(index, "write") = index
    BY DEF Top
  <2>4. Readable(store) /\ ReadAs(store, index)
    BY <1>3, <2>3, TopRead
  <2>5. ReadAs(store', index)
    BY <1>3, <1>11, <1>13, <2>3, TopRead
  <2>6. ASSUME NEW j \in Key
        PROVE  RecAt(store', j, index) = IF j = k THEN v ELSE RecAt(store, j, index)
    <3>1. LogOf(store', index) = Append(LogOf(store, index), r)
      BY <1>10, <2>2 DEF LogPut, LogOf
    <3>2. \A n \in GenOf(store) :
            /\ DataOf(store', n) = DataOf(store, n)
            /\ n # index => LogOf(store', n) = LogOf(store, n)
      BY <1>4, <1>10 DEF LogPut, LoadsIn, WholeLog
    <3>3. RecAt(store', j, index) = IF j = r.key THEN r.value ELSE RecAt(store, j, index)
      BY <1>3, <1>4, <1>7, <1>14, <2>4, <3>1, <3>2, AppendedRead
    <3> QED BY <1>7, <3>3
  <2> QED BY <2>4, <2>5, <2>6 DEF ReadAs
<1>16. ~overwritten' => SurvivesIn(store, index, "write", map, asked, todo, unsaved)
  BY <1>1
<1>17. place + 1 \in Nat /\ overwritten' \in BOOLEAN
  BY <1>1 DEF MetaTypeOK
<1> HIDE DEF l
<1>18. CASE place + 1 < MaxLog
  <2>1. Written(unsaved \ {k}) /\ index' = index
    BY <1>7, <1>18 DEF WriteLog, r
  <2>2. /\ unsaved' = unsaved \ {k} /\ map' \in Map_ /\ asked' \in Map_
        /\ After(step', todo', map', asked', asked, k, v)
    BY <1>3, <1>6, <2>1, WrittenRight
  <2>3. /\ step' \in {"ready", "write"} /\ todo' \in Seq(Record) /\ CallIn(step', todo', map', asked')
        /\ \A b : KeptIn(v, asked', todo', map', b, k)
        /\ \A b, x : \A j \in Key \ {k} : KeptIn(x, asked, todo, map, b, j) => KeptIn(x, asked', todo', map', b, j)
    BY <1>3, <1>6, <2>2, AfterRight
  <2>4. MetaTypeOK'
    BY <1>1, <1>11, <1>17, <2>1, <2>2, <2>3 DEF MetaTypeOK, FilesTyped, Map_, Steps
  <2>5. FilesIn(store', index, step', map')
    BY <1>13, <2>3 DEF FilesIn, Made
  <2>6. EndIn(store', step', ended)
    BY <2>3 DEF EndIn
  <2>7. ASSUME ~overwritten'
        PROVE  SurvivesIn(store', index, step', map', asked', todo', unsaved')
    <3>1. Stale(GenOf(store'), index, step') = g /\ Stale(F, index, "write") = g
      BY <1>3, <1>14, <2>3, StaleSame
    <3>2. \A j \in Key \ unsaved : KeptIn(RecOf(store)[j], asked, todo, map, g, j)
      BY <1>16, <2>7, <3>1 DEF SurvivesIn, Gone
    <3>3. \A j \in Key \ unsaved' : KeptIn(RecOf(store')[j], asked', todo', map', g, j)
      BY <1>15, <2>2, <2>3, <2>7, <3>2
    <3> QED BY <3>1, <3>3 DEF SurvivesIn
  <2>8. step' # "down"
    BY <2>3
  <2> QED BY <1>1, <2>1, <2>3, <2>4, <2>5, <2>6, <2>7, <2>8
<1>19. CASE ~(place + 1 < MaxLog)
  <2>1. /\ index <= MaxGeneration /\ index' = index + 1 /\ step' = "data"
        /\ UNCHANGED <<map, todo, asked, unsaved>>
    BY <1>19 DEF WriteLog
  <2> DEFINE i == index + 1
  <2>2. i \in 1 .. MaxGeneration + 1 /\ i - 1 = index
    BY <1>3, <2>1, IndexIs
  <2>3. MetaTypeOK'
    BY <1>1, <1>11, <1>17, <2>1, <2>2 DEF MetaTypeOK, FilesTyped, Steps
  <2>4. FilesIn(store', i, "data", map)
    BY <1>13, <2>2 DEF FilesIn, Made
  <2>5. CallIn("data", todo, map, asked)
    BY <1>1 DEF CallIn, Making, Made
  <2>6. EndIn(store', "data", ended)
    BY DEF EndIn
  <2>7. ASSUME ~overwritten'
        PROVE  SurvivesIn(store', i, "data", map, asked, todo, unsaved)
    <3>1. Stale(GenOf(store'), i, "data") = g /\ Stale(F, index, "write") = g
      BY <1>3, <1>14, StaleSame
    <3>2. \A j \in Key \ unsaved : KeptIn(RecOf(store)[j], asked, todo, map, g, j)
      BY <1>16, <2>7, <3>1 DEF SurvivesIn, Gone
    <3>3. KeptIn(v, asked, todo, map, g, k)
      <4>1. v \in Values(todo, k)
        <5>1. todo = <<[key |-> k, value |-> v]>> \/ (v = 0 /\ todo = <<Zero(k), Zero(k)>>)
          BY <1>6 DEF Pending
        <5> QED BY <5>1, ValuesRight DEF Zero
      <4> QED BY <4>1 DEF KeptIn
    <3>4. \A j \in Key \ unsaved : KeptIn(RecOf(store')[j], asked, todo, map, g, j)
      BY <1>15, <2>7, <3>2, <3>3
    <3> QED BY <3>1, <3>4 DEF SurvivesIn
  <2> HIDE DEF i
  <2>8. index' = i
    BY <2>1 DEF i
  <2> QED BY <1>1, <2>1, <2>3, <2>4, <2>5, <2>6, <2>7, <2>8
<1> QED BY <1>18, <1>19

-----------------------------------------------------------------------------
(* The next generation is made.                                            *)

\* The map in memory is one that may be read.
LEMMA MapKeptIn ==
  ASSUME NEW s \in Making, NEW t, NEW m \in Map_, NEW a \in Map_, CallIn(s, t, m, a), NEW k \in Key
  PROVE  \A g : KeptIn(m[k], a, t, m, g, k)
<1>1. m[k] = a[k] \/ m[k] \in Values(t, k)
  <2>1. CASE t = <<>> /\ m = a
    BY <2>1
  <2>2. CASE t # <<>>
    <3>1. s \in Making \cup {"write"}
      OBVIOUS
    <3>2. PICK j \in Key, v \in Value : Pending(t, m, a, j, v) /\ Head(t) = [key |-> j, value |-> v]
      BY <2>2, <3>1, PendingRight
    <3>3. CASE m = a
      BY <3>3
    <3>4. CASE v = 0 /\ m = [a EXCEPT ![j] = 0] /\ (t = <<Zero(j)>> \/ t = <<Zero(j), Zero(j)>>)
      <4>1. CASE k = j
        <5>1. 0 \in Values(t, k)
          <6>1. Zero(j).key = j /\ Zero(j).value = 0
            BY DEF Zero
          <6> QED BY <3>4, <4>1, <6>1, ValuesRight
        <5> QED BY <3>4, <4>1, <5>1 DEF Map_
      <4>2. CASE k # j
        BY <3>4, <4>2 DEF Map_
      <4> QED BY <4>1, <4>2
    <3> QED BY <3>2, <3>3, <3>4 DEF Pending, Zero
  <2> QED BY <2>1, <2>2 DEF CallIn, Making
<1> QED BY <1>1 DEF KeptIn

LEMMA SnapshotAhead ==
  ASSUME NEW st, NEW su, NEW i \in 1 .. MaxGeneration + 1, NEW m \in Map_, NEW a \in Map_, NEW t, NEW u,
         NEW s \in {"data", "touch"}, NEW s2 \in {"log", "rmlog"}, i # 10,
         FilesTyped(st), FilesIn(st, i, s, m), CallIn(s, t, m, a), SurvivesIn(st, i, s, m, a, t, u),
         FilesTyped(su), FilesIn(su, i, s2, m), GenOf(su) = GenOf(st) \cup {i},
         \A n \in GenOf(st) \ {i} : DataOf(su, n) = DataOf(st, n) /\ LogOf(su, n) = LogOf(st, n),
         DataOf(su, i) = m, LogOf(su, i) = <<>>
  PROVE  SurvivesIn(su, i, s2, m, a, t, u)
<1> DEFINE c == i - 1
           g == Stale(GenOf(st), i, "data")
<1>1. i \in Nat /\ c + 1 = i /\ i # 10
  BY IndexIs
<1>2. Top(i, s) = c /\ Top(i, s2) = c
  BY <1>1 DEF Top
<1>3. c \in 1 .. MaxGeneration + 1 /\ Near(GenOf(st), c) /\ Readable(st) /\ ReadAs(st, c)
  BY <1>2, TopRead
<1>4. ReadAs(su, c)
  BY <1>2, TopRead
<1>5. c \in Nat /\ c \in GenOf(st) /\ c # 9
  BY <1>1, <1>3 DEF Near
<1>6. Stale(GenOf(st), i, s) = g /\ Stale(GenOf(su), i, s2) = g
  <2>1. BehindIn(GenOf(su), i, s2) = BehindIn(GenOf(st), i, "data")
    <3>1. \A n \in GenOf(st) : n \in Nat
      BY DEF GenOf
    <3> QED BY <1>1, <3>1 DEF BehindIn
  <2> QED BY <1>1, <2>1, StaleSame DEF Stale
<1> HIDE DEF g
<1>7. ASSUME NEW k \in Key PROVE KeptIn(m[k], a, t, m, g, k)
  <2>1. s \in Making
    BY DEF Making
  <2> QED BY <2>1, MapKeptIn
<1>8. ASSUME NEW k \in Key \ u PROVE KeptIn(RecOf(su)[k], a, t, m, g, k)
  <2>1. Overlaid(st, su, c, m, k)
    <3> HIDE DEF c
    <3> QED BY <1>1, <1>3, <1>5, OverlaidRead
  <2>2. RecOf(su)[k] = RecAt(su, k, c) /\ RecOf(st)[k] = RecAt(st, k, c)
    BY <1>3, <1>4 DEF ReadAs
  <2>3. KeptIn(RecOf(st)[k], a, t, m, g, k)
    BY <1>6 DEF SurvivesIn, Gone
  <2>4. CASE m[k] = 0 /\ RecAt(su, k, c) = Base(st, k, c)
    <3>1. CASE Base(st, k, c) = 0
      BY <1>7, <2>2, <2>4, <3>1
    <3>2. CASE Base(st, k, c) # 0
      <4>1. 9 \in GenOf(st) \ {c, c + 1}
        BY <3>2, BaseOf
      <4>2. 9 < i
        BY <1>1, <1>3, <1>5, <4>1 DEF Near
      <4>3. 9 \in BehindIn(GenOf(st), i, "data")
        BY <1>5, <4>1, <4>2 DEF BehindIn
      <4>4. g
        BY <4>3 DEF g, Stale
      <4>5. Base(st, k, c) \in Value
        BY <1>3, UnderRight
      <4> QED BY <2>2, <2>4, <4>4, <4>5 DEF KeptIn
    <3> QED BY <3>1, <3>2
  <2> QED BY <1>7, <2>1, <2>2, <2>3, <2>4 DEF Overlaid
<1> QED BY <1>6, <1>8 DEF SurvivesIn

\* The same files, but for those of no generation that is there.
LEMMA NothingAhead ==
  ASSUME NEW st, NEW su, NEW i \in 1 .. MaxGeneration + 1, NEW m, NEW a, NEW t, NEW u,
         NEW s \in {"data", "log", "touch"}, NEW s2 \in {"data", "log", "touch"},
         FilesTyped(st), FilesIn(st, i, s, m), SurvivesIn(st, i, s, m, a, t, u),
         FilesTyped(su), FilesIn(su, i, s2, m), GenOf(su) = GenOf(st),
         \A n \in GenOf(st) : DataOf(su, n) = DataOf(st, n) /\ LogOf(su, n) = LogOf(st, n)
  PROVE  SurvivesIn(su, i, s2, m, a, t, u)
<1> DEFINE c == i - 1
<1>1. i \in Nat /\ Top(i, s) = c /\ Top(i, s2) = c
  BY IndexIs DEF Top
<1>2. Near(GenOf(st), c) /\ ReadAs(st, c)
  BY <1>1, TopRead
<1>3. ReadAs(su, c)
  BY <1>1, TopRead
<1>4. c \in GenOf(st)
  BY <1>2 DEF Near
<1>5. \A k : RecAt(su, k, c) = RecAt(st, k, c)
  <2> HIDE DEF c
  <2> QED BY <1>4, SameRead
<1>6. \A k \in Key : RecOf(su)[k] = RecOf(st)[k]
  BY <1>2, <1>3, <1>5 DEF ReadAs
<1>7. Stale(GenOf(su), i, s2) = Stale(GenOf(st), i, s)
  BY <1>1, StaleSame
<1> QED BY <1>6, <1>7 DEF SurvivesIn, Gone

\* At a step of make_snapshot.
Snapping(s) ==
  /\ FilesTyped(store) /\ index \in 1 .. MaxGeneration + 1 /\ index \in Nat
  /\ FilesIn(store, index, s, map) /\ map \in Map_ /\ asked \in Map_
  /\ CallIn(s, todo, map, asked)
  /\ ~overwritten => SurvivesIn(store, index, s, map, asked, todo, unsaved)

LEMMA SnappingHolds ==
  ASSUME MetaInv
  PROVE  Snapping(step)
BY TypedFiles, IndexIs DEF MetaInv, Snapping, MetaTypeOK, Map_

LEMMA WriteDataKeeps ==
  ASSUME MetaInv, WriteData
  PROVE  MetaInv'
<1> USE DEF MetaInv
<1> DEFINE F == GenOf(store)
<1>1. /\ step = "data" /\ step' = "log"
      /\ UNCHANGED <<index, map, place, todo, asked, unsaved, overwritten, ended, starts>>
  BY DEF WriteData
<1>2. store' = PutOn(store, <<index, "data">>, map)
  BY PutFileIs DEF WriteData, Snapshot
<1>3. /\ FilesTyped(store) /\ index \in 1 .. MaxGeneration + 1 /\ index \in Nat
      /\ FilesIn(store, index, "data", map) /\ map \in Map_ /\ asked \in Map_
      /\ CallIn("data", todo, map, asked)
      /\ ~overwritten => SurvivesIn(store, index, "data", map, asked, todo, unsaved)
  BY <1>1, SnappingHolds DEF Snapping
<1>4. DataPut(store, store', index, map)
  BY <1>2, PutData
<1>5. FilesTyped(store')
  <2>1. "data" \in Kind
    BY DEF Kind
  <2> QED BY <1>2, <1>3, <2>1, PutTyped
<1>6. Near(F, index - 1) /\ (index \in F => EmptyLog(store, index)) /\ \A n \in F : WholeLog(store, n)
  BY <1>3 DEF FilesIn
<1>7. FilesIn(store', index, "log", map)
  BY <1>4, <1>6 DEF FilesIn, Made, DataPut, EmptyLog, WholeLog
<1>8. CallIn("log", todo, map, asked)
  BY <1>3 DEF CallIn, Making
<1>9. EndIn(store', "log", ended)
  BY DEF EndIn
<1>10. MetaTypeOK'
  BY <1>1, <1>5 DEF MetaTypeOK, FilesTyped, Steps
<1>11. GenOf(store') = F /\ DataOf(store', index) = map
  BY <1>4 DEF DataPut
<1>12. \A n \in F : LogOf(store', n) = LogOf(store, n) /\ (n # index => DataOf(store', n) = DataOf(store, n))
  BY <1>4, <1>6 DEF DataPut, WholeLog
<1>13. ASSUME ~overwritten PROVE SurvivesIn(store', index, "log", map, asked, todo, unsaved)
  <2>1. CASE index \in F
    <3>1. index # 10
      BY <1>6, <2>1 DEF Near
    <3>2. LogOf(store', index) = <<>> /\ GenOf(store') = F \cup {index}
      BY <1>6, <1>11, <1>12, <2>1 DEF EmptyLog
    <3> QED BY <1>3, <1>5, <1>7, <1>11, <1>12, <1>13, <3>1, <3>2, SnapshotAhead
  <2>2. CASE index \notin F
    <3>1. \A n \in F : DataOf(store', n) = DataOf(store, n) /\ LogOf(store', n) = LogOf(store, n)
      BY <1>12, <2>2
    <3> QED BY <1>3, <1>5, <1>7, <1>11, <1>13, <3>1, NothingAhead
  <2> QED BY <2>1, <2>2
<1> QED BY <1>1, <1>7, <1>8, <1>9, <1>10, <1>13

LEMMA NewLogKeeps ==
  ASSUME MetaInv, NewLog
  PROVE  MetaInv'
<1> USE DEF MetaInv
<1> DEFINE F == GenOf(store)
<1>1. /\ step = "log" /\ step' = "touch" /\ place' = 0
      /\ UNCHANGED <<index, map, todo, asked, unsaved, overwritten, ended, starts>>
  BY DEF NewLog, CreateLog
<1>2. store' = PutOn(store, <<index, "log">>, <<>>)
  BY PutFileIs DEF NewLog, CreateLog
<1>3. /\ FilesTyped(store) /\ index \in 1 .. MaxGeneration + 1 /\ index \in Nat
      /\ FilesIn(store, index, "log", map) /\ map \in Map_ /\ asked \in Map_
      /\ CallIn("log", todo, map, asked)
      /\ ~overwritten => SurvivesIn(store, index, "log", map, asked, todo, unsaved)
  BY <1>1, SnappingHolds DEF Snapping
<1>4. LogPut(store, store', index, <<>>)
  BY <1>2, PutLog
<1>5. FilesTyped(store')
  <2>1. "log" \in Kind /\ <<>> \in Seq(Record \cup {Torn})
    BY EmptySeq DEF Kind
  <2> QED BY <1>2, <1>3, <2>1, PutTyped
<1>6. /\ Near(F, index - 1) /\ (index \in F => EmptyLog(store, index)) /\ \A n \in F : WholeLog(store, n)
      /\ DataOf(store, index) = map
  BY <1>3 DEF FilesIn
<1>7. GenOf(store') = F /\ DataOf(store', index) = map /\ EmptyLog(store', index)
  BY <1>4, <1>6 DEF LogPut, EmptyLog
<1>8. \A n \in F : LogOf(store', n) = LogOf(store, n) /\ DataOf(store', n) = DataOf(store, n)
                   /\ WholeLog(store', n)
  <2>1. \A n \in F : LogOf(store', n) = LogOf(store, n) /\ HasLog(store', n)
    BY <1>4, <1>6, <1>7 DEF LogPut, EmptyLog, WholeLog
  <2> QED BY <1>4, <1>6, <2>1 DEF LogPut, WholeLog
<1>9. FilesIn(store', index, "touch", map)
  BY <1>6, <1>7, <1>8 DEF FilesIn, Made
<1>10. CallIn("touch", todo, map, asked)
  BY <1>3 DEF CallIn, Making
<1>11. EndIn(store', "touch", ended)
  BY DEF EndIn
<1>12. MetaTypeOK'
  BY <1>1, <1>5 DEF MetaTypeOK, FilesTyped, Steps
<1>13. ~overwritten => SurvivesIn(store', index, "touch", map, asked, todo, unsaved)
  BY <1>3, <1>5, <1>7, <1>8, <1>9, NothingAhead
<1> QED BY <1>1, <1>9, <1>10, <1>11, <1>12, <1>13

LEMMA TouchNewKeeps ==
  ASSUME MetaInv, TouchNew
  PROVE  MetaInv'
<1> USE DEF MetaInv
<1> DEFINE F == GenOf(store)
           G == GenOf(store')
<1>1. /\ step = "touch" /\ step' = "rmlog"
      /\ UNCHANGED <<index, map, place, todo, asked, unsaved, overwritten, ended, starts>>
  BY DEF TouchNew
<1>2. store' = PutOn(store, <<index, "meta">>, <<>>)
  BY PutFileIs DEF TouchNew, Touch
<1>3. /\ FilesTyped(store) /\ index \in 1 .. MaxGeneration + 1 /\ index \in Nat
      /\ FilesIn(store, index, "touch", map) /\ map \in Map_ /\ asked \in Map_
      /\ CallIn("touch", todo, map, asked)
      /\ ~overwritten => SurvivesIn(store, index, "touch", map, asked, todo, unsaved)
  BY <1>1, SnappingHolds DEF Snapping
<1>4. MetaPut(store, store', index)
  BY <1>2, <1>3, PutMeta
<1>5. FilesTyped(store')
  <2>1. "meta" \in Kind
    BY DEF Kind
  <2> QED BY <1>2, <1>3, <2>1, PutTyped
<1>6. /\ Near(F, index - 1) /\ EmptyLog(store, index) /\ (\A n \in F : WholeLog(store, n))
      /\ DataOf(store, index) = map
  BY <1>3 DEF FilesIn
<1>7. G = F \cup {index} /\ DataOf(store', index) = map /\ EmptyLog(store', index)
  BY <1>4, <1>6 DEF MetaPut, EmptyLog
<1>8. /\ \A n \in F : LogOf(store', n) = LogOf(store, n) /\ DataOf(store', n) = DataOf(store, n)
      /\ \A n \in G : WholeLog(store', n)
  <2>1. \A n \in F : LogOf(store', n) = LogOf(store, n) /\ DataOf(store', n) = DataOf(store, n)
                     /\ WholeLog(store', n)
    BY <1>4, <1>6 DEF MetaPut, WholeLog
  <2>2. WholeLog(store', index)
    BY <1>7, EmptySeq DEF EmptyLog, WholeLog
  <2> QED BY <1>7, <2>1, <2>2
<1>9. /\ index - 1 \in G /\ index \in G /\ G \subseteq {index - 1, index, 9}
      /\ 9 \in G => index >= 9
  <2> DEFINE c == index - 1
  <2>1. c \in Nat \/ c = -1
    BY <1>3
  <2>2. index = c + 1 /\ c \in F /\ F \subseteq {c, c + 1, 9} /\ (9 \in F => c >= 8)
    BY <1>3, <1>6 DEF Near
  <2> HIDE DEF c, F, G
  <2>3. c \in G /\ index \in G /\ G \subseteq {c, index, 9} /\ (9 \in G => index >= 9)
    BY <1>3, <1>7, <2>1, <2>2
  <2> QED BY <2>3 DEF c
<1>10. FilesIn(store', index, "rmlog", map)
  BY <1>7, <1>8, <1>9 DEF FilesIn, Made
<1>11. CallIn("rmlog", todo, map, asked)
  BY <1>3 DEF CallIn, Making, Made
<1>12. EndIn(store', "rmlog", ended)
  BY DEF EndIn
<1>13. MetaTypeOK'
  BY <1>1, <1>5 DEF MetaTypeOK, FilesTyped, Steps
<1>14. ASSUME ~overwritten PROVE SurvivesIn(store', index, "rmlog", map, asked, todo, unsaved)
  <2>1. CASE index # 10
    <3>1. LogOf(store', index) = <<>>
      BY <1>7 DEF EmptyLog
    <3>2. \A n \in F \ {index} : DataOf(store', n) = DataOf(store, n) /\ LogOf(store', n) = LogOf(store, n)
      BY <1>8
    <3> QED BY <1>3, <1>5, <1>7, <1>10, <1>14, <2>1, <3>1, <3>2, SnapshotAhead
  <2>2. CASE index = 10
    <3>1. F = {9} /\ G = {9, 10}
      BY <1>6, <1>7, <2>2 DEF Near
    <3>2. Top(10, "touch") = 9 /\ Top(10, "rmlog") = 10
      BY DEF Top
    <3>3. Readable(store) /\ ReadAs(store, 9)
      BY <1>3, <2>2, <3>2, TopRead
    <3>4. Readable(store') /\ ReadAs(store', 10)
      BY <1>3, <1>5, <1>10, <2>2, <3>2, TopRead
    <3>5. Stale(G, 10, "rmlog") = Stale(F, 10, "touch")
      BY <3>1 DEF Stale, BehindIn
    <3>6. ASSUME NEW k \in Key \ unsaved
          PROVE  KeptIn(RecOf(store')[k], asked, todo, map, Stale(G, 10, "rmlog"), k)
      <4>1. KeptIn(RecOf(store)[k], asked, todo, map, Stale(F, 10, "touch"), k)
        BY <1>3, <1>14, <2>2 DEF SurvivesIn, Gone
      <4>2. RecAt(store', k, 10) = IF map[k] # 0 THEN map[k] ELSE Base(store', k, 10)
        <5>1. 10 \in G /\ 10 + 1 \notin G /\ LogOf(store', 10) = <<>> /\ DataOf(store', 10) = map
          BY <1>7, <2>2, <3>1 DEF EmptyLog
        <5> QED BY <3>4, <5>1, RaisedRead
      <4>3. Base(store', k, 10) = Hear(store', 9, k, 0)
        BY <3>1 DEF Base
      <4>4. RecAt(store, k, 9) = Hear(store, 9, k, 0)
        <5>1. Base(store, k, 9) = 0
          BY <3>1 DEF Base
        <5>2. Under(store, k, 9) = 0
          BY <3>1, <5>1 DEF Under
        <5> QED BY <5>2 DEF RecAt
      <4>5. Hear(store', 9, k, 0) = Hear(store, 9, k, 0)
        BY <1>8, <3>1, HearSame
      <4>6. KeptIn(map[k], asked, todo, map, Stale(G, 10, "rmlog"), k)
        <5>1. "touch" \in Making
          BY DEF Making
        <5> QED BY <1>3, <5>1, MapKeptIn
      <4>7. RecOf(store')[k] = map[k] \/ RecOf(store')[k] = RecOf(store)[k]
        BY <3>3, <3>4, <4>2, <4>3, <4>4, <4>5 DEF ReadAs
      <4> QED BY <3>5, <4>1, <4>6, <4>7
    <3> QED BY <2>2, <3>6 DEF SurvivesIn
  <2> QED BY <2>1, <2>2
<1> QED BY <1>1, <1>10, <1>11, <1>12, <1>13, <1>14

LEMMA UnlinkIs ==
  ASSUME NEW kind, Unlink(kind)
  PROVE  store' = Drop(store, <<index - 1, kind>>)
<1>1. \A f : Restrict(store, DOMAIN store \ {f}) = Drop(store, f)
  BY DEF Restrict, Drop
<1> QED BY <1>1 DEF Unlink, Old

LEMMA RemoveLogKeeps ==
  ASSUME MetaInv, RemoveLog
  PROVE  MetaInv'
<1> USE DEF MetaInv
<1> DEFINE c == index - 1
<1>1. /\ step = "rmlog" /\ step' = "rmdata" /\ overwritten' = FALSE
      /\ UNCHANGED <<index, map, place, todo, asked, unsaved, ended, starts>>
  BY DEF RemoveLog
<1>2. store' = Drop(store, <<c, "log">>)
  BY UnlinkIs DEF RemoveLog
<1>3. /\ FilesTyped(store) /\ index \in Nat
      /\ FilesIn(store, index, "rmlog", map) /\ CallIn("rmlog", todo, map, asked)
  BY <1>1, SnappingHolds DEF Snapping
<1>4. LogGone(store, store', c)
  BY <1>2, DropLog
<1>5. FilesTyped(store')
  BY <1>2, <1>3, DropTyped
<1>6. index # c
  BY <1>3
<1>7. FilesIn(store', index, "rmdata", map)
  BY <1>3, <1>4, <1>6 DEF FilesIn, Made, LogGone, EmptyLog, WholeLog
<1>8. CallIn("rmdata", todo, map, asked)
  BY <1>3 DEF CallIn, Making, Made
<1>9. EndIn(store', "rmdata", ended)
  BY DEF EndIn
<1>10. MetaTypeOK'
  BY <1>1, <1>5 DEF MetaTypeOK, FilesTyped, Steps
<1>11. SurvivesIn(store', index, "rmdata", map, asked, todo, unsaved)
  BY DEF SurvivesIn, Gone
<1> QED BY <1>1, <1>7, <1>8, <1>9, <1>10, <1>11

LEMMA RemoveDataKeeps ==
  ASSUME MetaInv, RemoveData
  PROVE  MetaInv'
<1> USE DEF MetaInv
<1> DEFINE c == index - 1
<1>1. /\ step = "rmdata" /\ step' = "rmmeta"
      /\ UNCHANGED <<index, map, place, todo, asked, unsaved, overwritten, ended, starts>>
  BY DEF RemoveData
<1>2. store' = Drop(store, <<c, "data">>)
  BY UnlinkIs DEF RemoveData
<1>3. /\ FilesTyped(store) /\ index \in Nat
      /\ FilesIn(store, index, "rmdata", map) /\ CallIn("rmdata", todo, map, asked)
  BY <1>1, SnappingHolds DEF Snapping
<1>4. DataGone(store, store', c)
  BY <1>2, DropData
<1>5. FilesTyped(store')
  BY <1>2, <1>3, DropTyped
<1>6. index # c
  BY <1>3
<1>7. FilesIn(store', index, "rmmeta", map)
  BY <1>3, <1>4, <1>6 DEF FilesIn, Made, DataGone, EmptyLog, WholeLog
<1>8. CallIn("rmmeta", todo, map, asked)
  BY <1>3 DEF CallIn, Making, Made
<1>9. EndIn(store', "rmmeta", ended)
  BY DEF EndIn
<1>10. MetaTypeOK'
  BY <1>1, <1>5 DEF MetaTypeOK, FilesTyped, Steps
<1>11. SurvivesIn(store', index, "rmmeta", map, asked, todo, unsaved)
  BY DEF SurvivesIn, Gone
<1> QED BY <1>1, <1>7, <1>8, <1>9, <1>10, <1>11

\* The new generation alone, in front of 9 at most.
LEMMA AloneRead ==
  ASSUME NEW st, NEW i \in 1 .. MaxGeneration + 1, i \in GenOf(st), GenOf(st) \subseteq {i, 9},
         9 \in GenOf(st) => i >= 9, FilesTyped(st), LoadsIn(st), LogOf(st, i) = <<>>,
         NEW m, DataOf(st, i) = m
  PROVE  /\ Near(GenOf(st), i) /\ i + 1 \notin GenOf(st)
         /\ \A k \in Key : \/ RecOf(st)[k] = m[k]
                           \/ /\ m[k] = 0 /\ RecOf(st)[k] \in Value
                              /\ \A s \in {"ready", "write", "down"} : Stale(GenOf(st), i, s)
<1>1. i \in Nat
  BY IndexIs
<1>2. Near(GenOf(st), i) /\ i + 1 \notin GenOf(st)
  BY <1>1 DEF Near
<1>3. Readable(st)
  BY WholeReadable
<1>4. ReadAs(st, i)
  BY <1>2, <1>3, RecKey
<1>5. ASSUME NEW k \in Key
      PROVE  \/ RecOf(st)[k] = m[k]
             \/ /\ m[k] = 0 /\ RecOf(st)[k] \in Value
                /\ \A s \in {"ready", "write", "down"} : Stale(GenOf(st), i, s)
  <2>1. RecOf(st)[k] = IF m[k] # 0 THEN m[k] ELSE Base(st, k, i)
    BY <1>1, <1>2, <1>3, <1>4, RaisedRead DEF ReadAs
  <2>2. Base(st, k, i) \in Value
    BY <1>3, UnderRight
  <2>3. ASSUME Base(st, k, i) # 0, NEW s \in {"ready", "write", "down"} PROVE Stale(GenOf(st), i, s)
    <3>1. 9 \in GenOf(st) \ {i, i + 1}
      BY <2>3, BaseOf
    <3>2. 9 \in BehindIn(GenOf(st), i, s)
      BY <1>1, <3>1 DEF BehindIn
    <3> QED BY <3>2 DEF Stale
  <2> QED BY <2>1, <2>2, <2>3
<1> QED BY <1>2, <1>5

LEMMA RemoveMetaKeeps ==
  ASSUME MetaInv, RemoveMeta
  PROVE  MetaInv'
<1> USE DEF MetaInv
<1> DEFINE c == index - 1
           F == GenOf(store)
           G == GenOf(store')
<1>1. step = "rmmeta" /\ UNCHANGED <<index, place, overwritten, starts>>
  BY DEF RemoveMeta
<1>2. store' = Drop(store, <<c, "meta">>)
  BY UnlinkIs DEF RemoveMeta
<1>3. /\ FilesTyped(store) /\ index \in 1 .. MaxGeneration + 1 /\ index \in Nat
      /\ FilesIn(store, index, "rmmeta", map) /\ map \in Map_ /\ asked \in Map_
      /\ CallIn("rmmeta", todo, map, asked)
  BY <1>1, SnappingHolds DEF Snapping
<1>4. MetaGone(store, store', c)
  BY <1>2, DropMeta
<1>5. FilesTyped(store')
  BY <1>2, <1>3, DropTyped
<1>6. /\ c \in F /\ index \in F /\ F \subseteq {c, index, 9}
      /\ 9 \in F => index >= 9
      /\ EmptyLog(store, index) /\ DataOf(store, index) = map
      /\ \A n \in F : WholeLog(store, n) \/ n = c
  BY <1>3 DEF FilesIn, Made
<1>7. G = F \ {c} /\ index # c
  BY <1>3, <1>4 DEF MetaGone
<1>8. /\ index \in G /\ G \subseteq {index, 9}
      /\ 9 \in G => index >= 9
      /\ EmptyLog(store', index) /\ DataOf(store', index) = map /\ LogOf(store', index) = <<>>
      /\ LoadsIn(store')
  <2>1. EmptyLog(store', index) /\ DataOf(store', index) = map
    BY <1>4, <1>6 DEF MetaGone, EmptyLog
  <2>2. LoadsIn(store')
    BY <1>4, <1>6, <1>7 DEF MetaGone, LoadsIn, WholeLog
  <2> HIDE DEF c, F, G
  <2> QED BY <1>6, <1>7, <2>1, <2>2 DEF EmptyLog
<1>9. /\ Near(G, index) /\ index + 1 \notin G
      /\ \A k \in Key : \/ RecOf(store')[k] = map[k]
                        \/ /\ map[k] = 0 /\ RecOf(store')[k] \in Value
                           /\ \A s \in {"ready", "write", "down"} : Stale(G, index, s)
  BY <1>3, <1>5, <1>8, AloneRead
<1> HIDE DEF c
<1>10. CASE todo = <<>>
  <2>1. step' = "down" /\ ended' = "clean" /\ UNCHANGED <<map, todo, asked, unsaved>> /\ map = asked
    BY <1>3, <1>10 DEF RemoveMeta, CallIn, Making, Made
  <2>2. MetaTypeOK'
    BY <1>1, <1>5, <2>1 DEF MetaTypeOK, FilesTyped, Steps
  <2>3. FilesIn(store', index, "down", map)
    <3>1. DownIn(store')
      BY <1>8, <1>9 DEF DownIn
    <3> QED BY <3>1 DEF FilesIn, Made
  <2>4. CallIn("down", todo, map, asked)
    BY <1>10 DEF CallIn, Making, Made
  <2>5. EndIn(store', "down", "clean")
    BY <1>8 DEF EndIn
  <2>6. SurvivesIn(store', index, "down", map, asked, todo, unsaved)
    BY DEF SurvivesIn, Gone
  <2>7. CleanIn(store', index, "down", map, asked, todo)
    BY <1>9, <2>1 DEF CleanIn, KeptIn
  <2> QED BY <1>1, <2>1, <2>2, <2>3, <2>4, <2>5, <2>6, <2>7
<1>11. CASE todo # <<>>
  <2> DEFINE r == Head(todo)
  <2>1. PICK k \in Key, v \in Value : Pending(todo, map, asked, k, v) /\ r = [key |-> k, value |-> v]
    <3>1. "rmmeta" \in Making \cup {"write"}
      BY DEF Making, Made
    <3> HIDE DEF r
    <3> QED BY <1>3, <1>11, <3>1, PendingRight DEF r
  <2>2. Written({r.key}) /\ ended' = ended
    BY <1>11 DEF RemoveMeta
  <2>3. r.key = k
    BY <2>1
  <2> HIDE DEF r
  <2>4. /\ unsaved' = {k} /\ map' \in Map_ /\ asked' \in Map_
        /\ After(step', todo', map', asked', asked, k, v)
    BY <1>3, <2>1, <2>2, <2>3, WrittenRight
  <2>5. /\ step' \in {"ready", "write"} /\ todo' \in Seq(Record) /\ CallIn(step', todo', map', asked')
        /\ \A j \in Key \ {k} : map[j] = asked[j]
        /\ \A b, x : \A j \in Key \ {k} : KeptIn(x, asked, todo, map, b, j) => KeptIn(x, asked', todo', map', b, j)
    BY <1>3, <2>1, <2>4, AfterRight
  <2>6. MetaTypeOK'
    BY <1>1, <1>5, <2>2, <2>4, <2>5 DEF MetaTypeOK, FilesTyped, Map_, Steps
  <2>7. FilesIn(store', index, step', map')
    <3>1. \A n \in G : WholeLog(store', n)
      BY <1>8 DEF LoadsIn
    <3> HIDE DEF G
    <3>2. G = GenOf(store')
      BY DEF G
    <3> QED BY <1>9, <2>5, <3>1, <3>2 DEF FilesIn, Made
  <2>8. EndIn(store', step', ended)
    BY <2>5 DEF EndIn
  <2>9. SurvivesIn(store', index, step', map', asked', todo', unsaved')
    <3> DEFINE b == Stale(G, index, step')
    <3>1. ASSUME NEW j \in Key \ {k} PROVE KeptIn(RecOf(store')[j], asked, todo, map, b, j)
      BY <1>9, <2>5 DEF KeptIn
    <3>2. ASSUME NEW j \in Key \ unsaved' PROVE KeptIn(RecOf(store')[j], asked', todo', map', b, j)
      BY <2>4, <2>5, <3>1
    <3> QED BY <3>2 DEF SurvivesIn
  <2>10. step' # "down"
    BY <2>5
  <2> QED BY <1>1, <2>2, <2>5, <2>6, <2>7, <2>8, <2>9, <2>10
<1> QED BY <1>10, <1>11

-----------------------------------------------------------------------------
(* The map on disk survives, loads again and keeps all over an orderly end. *)

LEMMA MetaStep ==
  ASSUME MetaInv, [MetaNext]_metaVars
  PROVE  MetaInv'
<1>1. ASSUME MetaNext PROVE MetaInv'
  <2>1. ASSUME NEW k \in Key, Set(k) \/ Del(k) PROVE MetaInv'
    BY <2>1, SetKeeps, DelKeeps
  <2> QED BY <1>1, <2>1, StartKeeps, OpenKeeps, OpenedKeeps, WriteLogKeeps, CloseKeeps, ClearKeeps,
             WriteDataKeeps, NewLogKeeps, TouchNewKeeps, RemoveLogKeeps, RemoveDataKeeps,
             RemoveMetaKeeps, CrashKeeps, CrashInWriteKeeps, CrashInClearKeeps DEF MetaNext
<1>2. ASSUME UNCHANGED metaVars PROVE MetaInv'
  <2>1. /\ store' = store /\ index' = index /\ map' = map /\ place' = place /\ step' = step
        /\ todo' = todo /\ asked' = asked /\ unsaved' = unsaved /\ overwritten' = overwritten
        /\ ended' = ended /\ starts' = starts
    BY <1>2 DEF metaVars
  <2> QED BY <2>1 DEF MetaInv, MetaTypeOK
<1> QED BY <1>1, <1>2

\* Whatever the process does and wherever it ends: the files hold what the
\* callers know, a directory loads again after every end but one in a gap, and
\* an orderly end keeps all of it (metadata.hpp).
THEOREM MapIsKept == MetaSpec => []MapKept
<1>1. MetaSpec => []MetaInv
  BY InitMeta, MetaStep, PTL DEF MetaSpec
<1>2. MetaInv => MapKept
  BY MapKeptHolds
<1> QED BY <1>1, <1>2, PTL

=============================================================================
