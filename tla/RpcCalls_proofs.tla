--------------------------- MODULE RpcCalls_proofs ---------------------------
(***************************************************************************)
(* Proofs about RpcCalls, for any number of calls and of time-outs: the    *)
(* type, CallsSafe, and every step as a step of Rpc.                       *)
(*                                                                         *)
(* Calls are numbered in the order in which they are made, and every list  *)
(* they go through keeps that order, so that each list holds a run of      *)
(* consecutive numbers.  The invariant says where each run begins: the     *)
(* calls that are answered, those the server has served, those the client  *)
(* has sent, those pushed and those refused follow one another.            *)
(***************************************************************************)
EXTENDS RpcCalls, Integers, TLAPS

-----------------------------------------------------------------------------
(* The inductive invariant.                                                *)

One(n) == IF n = None THEN 0 ELSE 1

\* With calls 1 .. p pushed: the last call sent by the client, the last one
\* whose answer has been received, the last one the server has answered, or
\* will, while the connection is up.
LastSent(p) == p - Len(session.reqs)
LastAnswered(p) == LastSent(p) - Len(session.waits)
Done(p) == LastAnswered(p) + Len(wire.answers)
LastServed(p) == Done(p) + One(server.sending) + Len(server.resps)

\* A list that holds the calls after n.
After(list, n) == \A i \in 1 .. Len(list) : list[i] = n + i

\* One message at a time, and answers wait only for another one.
SendsRight ==
  /\ session.sending # None => session.isSend
  /\ server.isSend <=> server.sending # None
  /\ server.sending = None => server.resps = <<>>

\* Calls 1 .. p have been pushed, those after them refused.
CallsMade(p) ==
  /\ p <= caller.call
  /\ caller.at \in {"connecting", "added"} => caller.call = 0
  /\ caller.at \in {"pushed", "waiting"} => caller.call = p /\ p > 0
  /\ p < caller.call => ~session.kept
  /\ \A n \in Call :
       /\ n <= p => got[n] # "refused"
       /\ p < n /\ n <= caller.call => got[n] = "refused"
       /\ got[n] = "nothing" <=>
            \/ n > caller.call
            \/ n = caller.call /\ caller.at \in {"pushed", "waiting"}

ClientLists(p) ==
  /\ LastAnswered(p) >= 0
  /\ After(session.reqs, LastSent(p)) /\ After(session.waits, LastAnswered(p))
  /\ session.sending # None => session.sending = LastSent(p)

ServerLists(p) ==
  /\ ~wire.up => wire.answers = <<>> /\ wire.requests = <<>>
  /\ wire.up =>
       /\ LastServed(p) <= LastSent(p)
       /\ After(wire.answers, LastAnswered(p))
       /\ server.sending # None => server.sending = Done(p) + 1
       /\ After(server.resps, Done(p) + 1)
       /\ \A n \in Call : n <= LastServed(p) => runs[n] = 1
  /\ wire.up /\ server.open =>
       /\ LastServed(p) + Len(wire.requests) + One(session.sending) = LastSent(p)
       /\ After(wire.requests, LastServed(p))
       /\ \A n \in Call : n > LastServed(p) => runs[n] = 0

\* What is known of each call.
Results(p) ==
  \A n \in Call :
    /\ n <= LastAnswered(p) => item[n].status # "null"
    /\ item[n].status = "ok" => item[n].of = n /\ runs[n] = 1
    /\ session.isClose /\ n <= p /\ n \notin late => item[n].status # "null"
    /\ got[n] = "ok" => item[n].of = n /\ runs[n] = 1

Numbered(p) == CallsMade(p) /\ ClientLists(p) /\ ServerLists(p) /\ Results(p)

CallsInv ==
  /\ CallsTypeOK /\ SendsRight /\ fault = {}
  /\ \E p \in 0 .. MaxCalls : Numbered(p)

-----------------------------------------------------------------------------
(* Lists of calls.                                                         *)

LEMMA AppendCall ==
  ASSUME NEW S, NEW s \in Seq(S), NEW e \in S
  PROVE  /\ Append(s, e) \in Seq(S) /\ Append(s, e) # <<>>
         /\ Len(s) \in Nat /\ Len(Append(s, e)) = Len(s) + 1
         /\ \A i \in 1 .. Len(s) : Append(s, e)[i] = s[i]
         /\ Append(s, e)[Len(s) + 1] = e
OBVIOUS

LEMMA TailCalls ==
  ASSUME NEW S, NEW s \in Seq(S), s # <<>>
  PROVE  /\ Head(s) = s[1] /\ Head(s) \in S /\ Len(s) \in Nat \ {0}
         /\ Tail(s) \in Seq(S) /\ Len(Tail(s)) = Len(s) - 1
         /\ \A i \in 1 .. Len(s) - 1 : Tail(s)[i] = s[i + 1]
OBVIOUS

LEMMA LenNat ==
  ASSUME NEW S, NEW s \in Seq(S)
  PROVE  Len(s) \in Nat /\ (s = <<>> <=> Len(s) = 0)
OBVIOUS

\* The next number goes to the end of a list, or the first one off it.
LEMMA AfterAppend ==
  ASSUME NEW s \in Seq(Call), NEW n \in Int, NEW e \in Call,
         After(s, n), e = n + Len(s) + 1
  PROVE  After(Append(s, e), n)
<1> SUFFICES ASSUME NEW i \in 1 .. Len(Append(s, e)) PROVE Append(s, e)[i] = n + i
  BY DEF After
<1>1. Len(s) \in Nat /\ i \in 1 .. Len(s) + 1
  BY AppendCall
<1>2. CASE i = Len(s) + 1
  BY <1>1, <1>2, AppendCall
<1>3. CASE i \in 1 .. Len(s)
  BY <1>3, AppendCall DEF After
<1> QED BY <1>1, <1>2, <1>3

LEMMA AfterTail ==
  ASSUME NEW s \in Seq(Call), NEW n \in Int, After(s, n), s # <<>>
  PROVE  After(Tail(s), n + 1) /\ Head(s) = n + 1
<1>1. Head(s) = n + 1
  BY TailCalls DEF After
<1>2. ASSUME NEW i \in 1 .. Len(Tail(s)) PROVE Tail(s)[i] = n + 1 + i
  <2>1. Len(s) \in Nat /\ i \in 1 .. Len(s) - 1 /\ i + 1 \in 1 .. Len(s)
    BY TailCalls
  <2> QED BY <2>1, TailCalls DEF After
<1> QED BY <1>1, <1>2 DEF After

-----------------------------------------------------------------------------
(* The session, field by field.                                            *)

LEMMA SessionFields ==
  ASSUME NEW s \in SessionType
  PROVE  /\ s.reqs \in Seq(Call) /\ s.waits \in Seq(Call) /\ s.isSend \in BOOLEAN
         /\ s.isClose \in BOOLEAN /\ s.kept \in BOOLEAN /\ s.onClose \in BOOLEAN
         /\ s.sending \in 0 .. MaxCalls /\ s.receiving \in BOOLEAN
BY DEF SessionType

\* What do_send_rpc makes of a session in which nothing is being sent.
LEMMA DoSendEffect ==
  ASSUME NEW s \in SessionType, s.sending # None => s.isSend, DoSend(s), fault = {}
  PROVE  /\ session' \in SessionType /\ fault' = {}
         /\ session'.isClose = s.isClose /\ session'.kept = s.kept
         /\ session'.sending # None => session'.isSend
         /\ \/ session' = s
            \/ /\ s.reqs # <<>> /\ s.sending = None /\ session'.sending = Head(s.reqs)
               /\ session'.reqs = Tail(s.reqs)
               /\ session'.waits = Append(s.waits, Head(s.reqs))
<1>1. CASE ~MaySend(s)
  BY <1>1 DEF DoSend
<1>2. CASE MaySend(s)
  <2>1. s.reqs # <<>> /\ s.sending = None
    BY <1>2 DEF MaySend
  <2>2. /\ Head(s.reqs) \in Call /\ Tail(s.reqs) \in Seq(Call)
        /\ Append(s.waits, Head(s.reqs)) \in Seq(Call)
    BY <2>1, SessionFields, TailCalls, AppendCall
  <2>3. Head(s.reqs) \in 0 .. MaxCalls
    BY <2>2, RpcAssumption DEF Call
  <2>4. session' = [s EXCEPT !.isSend = TRUE, !.reqs = Tail(s.reqs),
                             !.sending = Head(s.reqs),
                             !.waits = Append(s.waits, Head(s.reqs))]
    BY <1>2 DEF DoSend, Unsent
  <2>5. fault' = {}
    BY <1>2, <2>1 DEF DoSend
  <2> QED BY <2>1, <2>2, <2>3, <2>4, <2>5 DEF SessionType
<1> QED BY <1>1, <1>2

-----------------------------------------------------------------------------
(* The steps of the caller.                                                *)

\* What a step keeps that touches neither the lists nor what is known of calls.
LEMMA ListsKept ==
  ASSUME NEW p \in 0 .. MaxCalls, Numbered(p),
         session'.reqs = session.reqs, session'.waits = session.waits,
         session'.sending = session.sending, session'.isClose = session.isClose,
         UNCHANGED <<item, wire, server, runs>>
  PROVE  /\ ClientLists(p)' /\ ServerLists(p)'
         /\ late \subseteq late' /\ got' = got => Results(p)'
<1>1. ClientLists(p)'
  BY DEF Numbered, ClientLists, LastSent, LastAnswered, After
<1>2. ServerLists(p)'
  <2>1. /\ LastSent(p)' = LastSent(p) /\ LastAnswered(p)' = LastAnswered(p)
        /\ Done(p)' = Done(p) /\ LastServed(p)' = LastServed(p)
    BY DEF LastSent, LastAnswered, Done, LastServed, One
  <2>2. One(session.sending)' = One(session.sending)
    BY DEF One
  <2> QED BY <2>1, <2>2 DEF Numbered, ServerLists, After
<1>3. ASSUME late \subseteq late', got' = got PROVE Results(p)'
  BY <1>3 DEF Numbered, Results, LastSent, LastAnswered
<1> QED BY <1>1, <1>2, <1>3

LEMMA StepConnectAdd ==
  ASSUME CallsInv, ConnectAdd PROVE CallsInv'
<1>1. PICK p \in 0 .. MaxCalls : Numbered(p)
  BY DEF CallsInv
<1> USE DEF ConnectAdd
<1>2. session' \in SessionType /\ caller' \in CallerType
  BY DEF CallsInv, CallsTypeOK, SessionType, CallerType
<1>3. /\ session'.reqs = session.reqs /\ session'.waits = session.waits
      /\ session'.sending = session.sending /\ session'.isClose = session.isClose
      /\ session'.isSend = session.isSend
      /\ caller'.at = "added" /\ caller'.call = caller.call
  BY DEF CallsInv, CallsTypeOK, SessionType, CallerType
<1>4. CallsTypeOK'
  BY <1>2 DEF CallsInv, CallsTypeOK, serverSide
<1>5. SendsRight'
  BY <1>3 DEF CallsInv, SendsRight, serverSide
<1>6. CallsMade(p)'
  BY <1>1, <1>3 DEF Numbered, CallsMade
<1>7. ClientLists(p)' /\ ServerLists(p)' /\ Results(p)'
  BY <1>1, <1>3, ListsKept DEF serverSide
<1> QED BY <1>4, <1>5, <1>6, <1>7 DEF CallsInv, Numbered

LEMMA StepConnectDone ==
  ASSUME CallsInv, ConnectDone PROVE CallsInv'
<1>1. PICK p \in 0 .. MaxCalls : Numbered(p)
  BY DEF CallsInv
<1> USE DEF ConnectDone
<1>2. session' \in SessionType /\ caller' \in CallerType
  BY DEF CallsInv, CallsTypeOK, SessionType, CallerType
<1>3. /\ session'.reqs = session.reqs /\ session'.waits = session.waits
      /\ session'.sending = session.sending /\ session'.isClose = session.isClose
      /\ session'.isSend = session.isSend /\ session'.kept = session.kept
      /\ caller'.at = "idle" /\ caller'.call = caller.call
  BY DEF CallsInv, CallsTypeOK, SessionType, CallerType
<1>4. CallsTypeOK'
  BY <1>2 DEF CallsInv, CallsTypeOK, serverSide
<1>5. SendsRight'
  BY <1>3 DEF CallsInv, SendsRight, serverSide
<1>6. CallsMade(p)'
  BY <1>1, <1>3 DEF Numbered, CallsMade
<1>7. ClientLists(p)' /\ ServerLists(p)' /\ Results(p)'
  BY <1>1, <1>3, ListsKept DEF serverSide
<1> QED BY <1>4, <1>5, <1>6, <1>7 DEF CallsInv, Numbered

LEMMA StepCallPost ==
  ASSUME CallsInv, CallPost PROVE CallsInv'
<1>1. PICK p \in 0 .. MaxCalls : Numbered(p)
  BY DEF CallsInv
<1> USE DEF CallPost
<1>2. caller' \in CallerType /\ caller'.at = "waiting" /\ caller'.call = caller.call
  BY DEF CallsInv, CallsTypeOK, CallerType
<1>3. posted' \in Seq({"send", "delete"})
  BY AppendCall DEF CallsInv, CallsTypeOK
<1>4. CallsTypeOK'
  BY <1>2, <1>3 DEF CallsInv, CallsTypeOK, serverSide
<1>5. SendsRight'
  BY DEF CallsInv, SendsRight, serverSide
<1>6. CallsMade(p)'
  BY <1>1, <1>2 DEF Numbered, CallsMade
<1>7. ClientLists(p)' /\ ServerLists(p)' /\ Results(p)'
  BY <1>1, ListsKept DEF serverSide
<1> QED BY <1>4, <1>5, <1>6, <1>7 DEF CallsInv, Numbered

LEMMA StepDrop ==
  ASSUME CallsInv, Drop PROVE CallsInv'
<1>1. PICK p \in 0 .. MaxCalls : Numbered(p)
  BY DEF CallsInv
<1> USE DEF Drop
<1>2. caller' \in CallerType /\ caller'.at = "gone" /\ caller'.call = caller.call
  BY DEF CallsInv, CallsTypeOK, CallerType
<1>3. posted' \in Seq({"send", "delete"})
  BY AppendCall DEF CallsInv, CallsTypeOK
<1>4. CallsTypeOK'
  BY <1>2, <1>3 DEF CallsInv, CallsTypeOK, serverSide
<1>5. SendsRight'
  BY DEF CallsInv, SendsRight, serverSide
<1>6. CallsMade(p)'
  BY <1>1, <1>2 DEF Numbered, CallsMade
<1>7. ClientLists(p)' /\ ServerLists(p)' /\ Results(p)'
  BY <1>1, ListsKept DEF serverSide
<1> QED BY <1>4, <1>5, <1>6, <1>7 DEF CallsInv, Numbered

\* The wait is over, one way or the other.
LEMMA StepTold ==
  ASSUME CallsInv, CallReturn \/ CallTimeout PROVE CallsInv'
<1>1. PICK p \in 0 .. MaxCalls : Numbered(p)
  BY DEF CallsInv
<1> DEFINE n == caller.call
<1>2. caller.at = "waiting" /\ n = p /\ n \in Call /\ got[n] = "nothing"
  BY <1>1 DEF CallReturn, CallTimeout, CallsInv, CallsTypeOK, CallerType, Numbered, CallsMade, Call
<1>3. PICK s \in {"ok", "error", "timeout"} :
        Told(s) /\ (s = "ok" => item[n].status = "ok") /\ timeouts' \in 0 .. MaxTimeouts
  BY <1>2, RpcAssumption DEF CallReturn, CallTimeout, CallsInv, CallsTypeOK, ItemType
<1>4. caller' \in CallerType /\ caller'.at = "idle" /\ caller'.call = n
  BY <1>3 DEF Told, CallsInv, CallsTypeOK, CallerType
<1>5. /\ got' \in [Call -> {"nothing", "ok", "error", "timeout", "refused"}]
      /\ got'[n] = s /\ \A m \in Call \ {n} : got'[m] = got[m]
  BY <1>2, <1>3 DEF Told, CallsInv, CallsTypeOK
<1>6. UNCHANGED <<item, clientSide, wire, serverSide, late, fault>>
  BY <1>3 DEF Told
<1>7. CallsTypeOK'
  BY <1>3, <1>4, <1>5, <1>6 DEF CallsInv, CallsTypeOK, clientSide, serverSide
<1>8. SendsRight'
  BY <1>6 DEF CallsInv, SendsRight, clientSide, serverSide
<1>9. CallsMade(p)'
  BY <1>1, <1>2, <1>3, <1>4, <1>5, <1>6 DEF Numbered, CallsMade, clientSide, Call
<1>10. ClientLists(p)' /\ ServerLists(p)'
  BY <1>1, <1>6, ListsKept DEF clientSide, serverSide
<1>11. Results(p)'
  BY <1>1, <1>2, <1>3, <1>5, <1>6 DEF Numbered, Results, LastSent, LastAnswered, clientSide, serverSide
<1> QED BY <1>6, <1>7, <1>8, <1>9, <1>10, <1>11 DEF CallsInv, Numbered

\* A call takes the next number; when it is pushed, the pool has the session,
\* so that no call before it was refused.
LEMMA StepCallPush ==
  ASSUME CallsInv, CallPush PROVE CallsInv'
<1>1. PICK p \in 0 .. MaxCalls : Numbered(p)
  BY DEF CallsInv
<1> DEFINE n == caller.call + 1
<1> USE DEF CallPush
<1>2. /\ n \in Call /\ caller.call \in Nat /\ p <= caller.call
      /\ \A m \in Call : m <= caller.call => got[m] # "nothing"
      /\ got[n] = "nothing"
  BY <1>1, RpcAssumption DEF CallsInv, CallsTypeOK, CallerType, Numbered, CallsMade, Call
<1>3. UNCHANGED <<item, posted, io, wire, server, runs, fault, timeouts>>
  BY DEF serverSide
<1>4. CASE ~session.kept
  <2>1. caller' = [at |-> "idle", call |-> n] /\ got' = [got EXCEPT ![n] = "refused"]
        /\ UNCHANGED <<session, late>>
    BY <1>4
  <2>2. /\ got' \in [Call -> {"nothing", "ok", "error", "timeout", "refused"}]
        /\ got'[n] = "refused" /\ \A m \in Call \ {n} : got'[m] = got[m]
    BY <1>2, <2>1 DEF CallsInv, CallsTypeOK
  <2>3. CallsTypeOK'
    BY <1>2, <1>3, <2>1, <2>2 DEF CallsInv, CallsTypeOK, CallerType, Call
  <2>4. SendsRight'
    BY <1>3, <2>1 DEF CallsInv, SendsRight
  <2>5. CallsMade(p)'
    BY <1>1, <1>2, <1>4, <2>1, <2>2 DEF Numbered, CallsMade, Call
  <2>6. ClientLists(p)' /\ ServerLists(p)'
    BY <1>1, <1>3, <2>1, ListsKept
  <2>7. Results(p)'
    BY <1>1, <1>3, <2>1, <2>2 DEF Numbered, Results, LastSent, LastAnswered
  <2> QED BY <1>3, <2>3, <2>4, <2>5, <2>6, <2>7 DEF CallsInv, Numbered
<1>5. CASE session.kept
  <2>1. /\ caller' = [at |-> "pushed", call |-> n]
        /\ session' = [session EXCEPT !.reqs = Append(session.reqs, n)]
        /\ late' = IF session.isClose THEN late \cup {n} ELSE late
        /\ UNCHANGED got
    BY <1>5
  <2>2. /\ session \in SessionType /\ Append(session.reqs, n) \in Seq(Call)
        /\ Len(Append(session.reqs, n)) = Len(session.reqs) + 1
        /\ Len(session.reqs) \in Nat /\ Len(session.waits) \in Nat
    BY <1>2, AppendCall, LenNat, SessionFields DEF CallsInv, CallsTypeOK
  <2>3. /\ session' \in SessionType /\ session'.reqs = Append(session.reqs, n)
        /\ session'.waits = session.waits /\ session'.sending = session.sending
        /\ session'.isSend = session.isSend /\ session'.isClose = session.isClose
        /\ session'.kept = session.kept
    BY <2>1, <2>2 DEF SessionType
  <2>4. CallsTypeOK'
    BY <1>2, <1>3, <2>1, <2>3 DEF CallsInv, CallsTypeOK, CallerType, Call
  <2>5. SendsRight'
    BY <1>3, <2>3 DEF CallsInv, SendsRight
  <2>6. n = p + 1 /\ p + 1 \in 0 .. MaxCalls
    BY <1>1, <1>2, <1>5 DEF Numbered, CallsMade, Call
  <2>7. CallsMade(p + 1)'
    BY <1>1, <1>2, <1>5, <2>1, <2>3, <2>6 DEF Numbered, CallsMade, Call
  <2>8. LastSent(p + 1)' = LastSent(p) /\ LastAnswered(p + 1)' = LastAnswered(p)
    BY <2>2, <2>3, <2>6 DEF LastSent, LastAnswered
  <2>9. ClientLists(p + 1)'
    <3>1. After(session'.reqs, LastSent(p))
      <4>1. n = LastSent(p) + Len(session.reqs) + 1 /\ LastSent(p) \in Int
        BY <2>2, <2>6 DEF LastSent
      <4>2. session.reqs \in Seq(Call) /\ After(session.reqs, LastSent(p))
        BY <1>1, <2>2, SessionFields DEF Numbered, ClientLists
      <4> QED BY <1>2, <2>3, <4>1, <4>2, AfterAppend
    <3> QED BY <1>1, <2>3, <2>8, <3>1 DEF Numbered, ClientLists, After
  <2>10. ServerLists(p + 1)'
    <3>1. Done(p + 1)' = Done(p) /\ LastServed(p + 1)' = LastServed(p)
      BY <1>3, <2>8 DEF Done, LastServed, One
    <3>2. One(session.sending)' = One(session.sending)
      BY <2>3 DEF One
    <3> QED BY <1>1, <1>3, <2>8, <3>1, <3>2 DEF Numbered, ServerLists, After
  <2>11. Results(p + 1)'
    BY <1>1, <1>2, <1>3, <2>1, <2>3, <2>6, <2>8 DEF Numbered, Results, Call
  <2> QED BY <1>3, <2>4, <2>5, <2>6, <2>7, <2>9, <2>10, <2>11 DEF CallsInv, Numbered
<1> QED BY <1>4, <1>5

-----------------------------------------------------------------------------
(* The steps of the io thread.                                             *)

LEMMA StepCloseCallback ==
  ASSUME CallsInv, CloseCallback PROVE CallsInv'
<1>1. PICK p \in 0 .. MaxCalls : Numbered(p)
  BY DEF CallsInv
<1> USE DEF CloseCallback
<1>2. /\ session' \in SessionType
      /\ session'.reqs = session.reqs /\ session'.waits = session.waits
      /\ session'.sending = session.sending /\ session'.isClose = session.isClose
      /\ session'.isSend = session.isSend /\ session'.kept => session.kept
  BY DEF CallsInv, CallsTypeOK, SessionType
<1>3. CallsTypeOK'
  BY <1>2 DEF CallsInv, CallsTypeOK, serverSide
<1>4. SendsRight'
  BY <1>2 DEF CallsInv, SendsRight, serverSide
<1>5. CallsMade(p)'
  BY <1>1, <1>2 DEF Numbered, CallsMade
<1>6. ClientLists(p)' /\ ServerLists(p)' /\ Results(p)'
  BY <1>1, <1>2, ListsKept DEF serverSide
<1> QED BY <1>3, <1>4, <1>5, <1>6 DEF CallsInv, Numbered

LEMMA ConcatCalls ==
  ASSUME NEW S, NEW s \in Seq(S), NEW t \in Seq(S)
  PROVE  /\ s \o t \in Seq(S) /\ Len(s) \in Nat /\ Len(t) \in Nat
         /\ Len(s \o t) = Len(s) + Len(t) /\ DOMAIN (s \o t) = 1 .. Len(s) + Len(t)
         /\ \A i \in 1 .. Len(s) : (s \o t)[i] = s[i]
         /\ \A i \in 1 .. Len(t) : (s \o t)[Len(s) + i] = t[i]
OBVIOUS

\* The ends of the lists are numbers.
LEMMA Ends ==
  ASSUME CallsInv, NEW p \in 0 .. MaxCalls
  PROVE  /\ Len(session.reqs) \in Nat /\ Len(session.waits) \in Nat
         /\ Len(wire.answers) \in Nat /\ Len(wire.requests) \in Nat
         /\ Len(server.resps) \in Nat /\ p \in Nat
         /\ One(server.sending) \in {0, 1} /\ One(session.sending) \in {0, 1}
         /\ LastSent(p) \in Int /\ LastAnswered(p) \in Int /\ Done(p) \in Int
         /\ LastServed(p) \in Int
<1>1. /\ Len(session.reqs) \in Nat /\ Len(session.waits) \in Nat
      /\ Len(wire.answers) \in Nat /\ Len(wire.requests) \in Nat
      /\ Len(server.resps) \in Nat
  BY LenNat DEF CallsInv, CallsTypeOK, SessionType, WireType, ServerType
<1>2. One(server.sending) \in {0, 1} /\ One(session.sending) \in {0, 1}
  BY DEF One
<1>3. p \in Nat
  BY RpcAssumption
<1>4. LastSent(p) \in Int
  BY <1>1, <1>3 DEF LastSent
<1>5. LastAnswered(p) \in Int
  BY <1>1, <1>4 DEF LastAnswered
<1>6. Done(p) \in Int
  BY <1>1, <1>5 DEF Done
<1>7. LastServed(p) \in Int
  BY <1>1, <1>2, <1>6 DEF LastServed
<1> QED BY <1>1, <1>2, <1>3, <1>4, <1>5, <1>6, <1>7

\* Every call without an answer is in one of the two lists.
LEMMA PendingAll ==
  ASSUME CallsInv, NEW p \in 0 .. MaxCalls, ClientLists(p),
         NEW n \in Call, LastAnswered(p) < n, n <= p
  PROVE  \E i \in DOMAIN Pending(session) : Pending(session)[i] = n
<1> DEFINE a == Len(session.waits)
           b == Len(session.reqs)
<1>1. /\ session.waits \in Seq(Call) /\ session.reqs \in Seq(Call)
      /\ a \in Nat /\ b \in Nat /\ n \in Nat /\ p \in Nat
      /\ LastSent(p) = p - b /\ LastAnswered(p) = p - b - a
  BY SessionFields, LenNat DEF CallsInv, CallsTypeOK, LastSent, LastAnswered, Call
<1>2. /\ \A i \in 1 .. a : session.waits[i] = p - b - a + i
      /\ \A i \in 1 .. b : session.reqs[i] = p - b + i
  BY <1>1 DEF ClientLists, After
<1>3. /\ DOMAIN Pending(session) = 1 .. a + b
      /\ \A i \in 1 .. a : Pending(session)[i] = session.waits[i]
      /\ \A i \in 1 .. b : Pending(session)[a + i] = session.reqs[i]
  <2> DEFINE s == session.waits
             t == session.reqs
  <2>1. s \in Seq(Call) /\ t \in Seq(Call) /\ Pending(session) = s \o t
    BY <1>1 DEF Pending
  <2> HIDE DEF s, t
  <2>2. /\ DOMAIN (s \o t) = 1 .. Len(s) + Len(t)
        /\ \A i \in 1 .. Len(s) : (s \o t)[i] = s[i]
        /\ \A i \in 1 .. Len(t) : (s \o t)[Len(s) + i] = t[i]
    BY <2>1, ConcatCalls
  <2> QED BY <2>1, <2>2 DEF s, t
<1> HIDE DEF a, b
<1>4. CASE n <= p - b
  <2> DEFINE i == n - (p - b - a)
  <2>1. i \in 1 .. a /\ i \in 1 .. a + b /\ p - b - a + i = n
    BY <1>1, <1>4
  <2> HIDE DEF i
  <2> QED BY <1>2, <1>3, <2>1
<1>5. CASE n > p - b
  <2> DEFINE i == n - (p - b)
  <2>1. i \in 1 .. b /\ a + i \in 1 .. a + b /\ p - b + i = n
    BY <1>1, <1>5
  <2> HIDE DEF i
  <2> QED BY <1>2, <1>3, <2>1
<1> QED BY <1>1, <1>4, <1>5

\* MarkClosed tells every call that is not answered.
LEMMA ClosedSession ==
  ASSUME CallsInv, NEW s \in SessionType, MarkClosed(s),
         s.reqs = session.reqs, s.waits = session.waits, s.isSend = session.isSend,
         s.kept = session.kept,
         \/ s.sending = session.sending
         \/ s.sending = None /\ (~wire.up \/ ~server.open),
         UNCHANGED <<caller, got, posted, wire, server, runs, late, fault, timeouts>>
  PROVE  CallsInv'
<1>1. PICK p \in 0 .. MaxCalls : Numbered(p)
  BY DEF CallsInv
<1>2. /\ session' \in SessionType /\ session'.reqs = session.reqs
      /\ session'.waits = session.waits /\ session'.isSend = session.isSend
      /\ session'.kept = session.kept /\ session'.sending = s.sending
  BY DEF MarkClosed, SessionType
<1>3. Pending(s) = Pending(session)
  BY DEF Pending
<1>4. /\ item' \in [Call -> ItemType]
      /\ \A n \in Call :
           \/ item'[n] = item[n] /\ ~\E i \in DOMAIN Pending(s) : Pending(s)[i] = n
           \/ item'[n].status = "error" /\ item'[n].of = item[n].of
  <2>1. \A n \in Call : item[n] \in ItemType
    BY DEF CallsInv, CallsTypeOK
  <2>2. \A n \in Call : LET e == [item[n] EXCEPT !.status = "error"]
                        IN  e \in ItemType /\ e.status = "error" /\ e.of = item[n].of
    BY <2>1 DEF ItemType
  <2>3. item' = [n \in Call |-> IF \E i \in DOMAIN Pending(s) : Pending(s)[i] = n
                               THEN [item[n] EXCEPT !.status = "error"] ELSE item[n]]
    BY DEF MarkClosed
  <2> QED BY <2>1, <2>2, <2>3
<1>5. CallsTypeOK'
  BY <1>2, <1>4 DEF MarkClosed, CallsInv, CallsTypeOK
<1>6. SendsRight'
  BY <1>2 DEF CallsInv, SendsRight, None
<1>7. CallsMade(p)'
  BY <1>1, <1>2 DEF Numbered, CallsMade
<1>8. LastSent(p)' = LastSent(p) /\ LastAnswered(p)' = LastAnswered(p)
      /\ Done(p)' = Done(p) /\ LastServed(p)' = LastServed(p)
  BY <1>2 DEF LastSent, LastAnswered, Done, LastServed, One
<1>9. ClientLists(p)'
  BY <1>1, <1>2, <1>8 DEF Numbered, ClientLists, After
<1>10. ServerLists(p)'
  <2>1. s.sending = session.sending => One(session.sending)' = One(session.sending)
    BY <1>2 DEF One
  <2> QED BY <1>1, <1>8, <2>1 DEF Numbered, ServerLists, After
<1>11. Results(p)'
  <2> SUFFICES ASSUME NEW n \in Call
               PROVE  /\ n <= LastAnswered(p) => item'[n].status # "null"
                      /\ item'[n].status = "ok" => item'[n].of = n /\ runs[n] = 1
                      /\ session'.isClose /\ n <= p /\ n \notin late
                           => item'[n].status # "null"
                      /\ got[n] = "ok" => item'[n].of = n /\ runs[n] = 1
    BY <1>8 DEF Results
  <2>1. LastAnswered(p) < n /\ n <= p => item'[n].status = "error"
    BY <1>1, <1>3, <1>4, PendingAll DEF Numbered
  <2>2. LastAnswered(p) \in Int
    BY Ends
  <2>3. n <= LastAnswered(p) => item'[n].status # "null"
    BY <1>1, <1>4 DEF Numbered, Results
  <2> QED BY <1>1, <1>4, <2>1, <2>2, <2>3 DEF Numbered, Results, Call
<1> QED BY <1>5, <1>6, <1>7, <1>9, <1>10, <1>11 DEF CallsInv, Numbered

LEMMA StepSendFails ==
  ASSUME CallsInv, SendFails PROVE CallsInv'
<1> DEFINE s == [session EXCEPT !.sending = None]
<1>1. /\ s \in SessionType /\ s.reqs = session.reqs /\ s.waits = session.waits
      /\ s.isSend = session.isSend /\ s.kept = session.kept /\ s.sending = None
  <2>1. None \in 0 .. MaxCalls
    BY RpcAssumption DEF None
  <2> QED BY <2>1 DEF CallsInv, CallsTypeOK, SessionType
<1>2. MarkClosed(s) /\ (~wire.up \/ ~server.open)
  BY DEF SendFails, Lost
<1>3. UNCHANGED <<caller, got, posted, wire, server, runs, late, fault, timeouts>>
  BY DEF SendFails, serverSide
<1> HIDE DEF s
<1> QED BY <1>1, <1>2, <1>3, ClosedSession

LEMMA StepRecvFails ==
  ASSUME CallsInv, RecvFails PROVE CallsInv'
<1> DEFINE s == [session EXCEPT !.receiving = FALSE]
<1>1. /\ s \in SessionType /\ s.reqs = session.reqs /\ s.waits = session.waits
      /\ s.isSend = session.isSend /\ s.kept = session.kept /\ s.sending = session.sending
  BY DEF CallsInv, CallsTypeOK, SessionType
<1>2. MarkClosed(s)
  BY DEF RecvFails
<1>3. UNCHANGED <<caller, got, posted, wire, server, runs, late, fault, timeouts>>
  BY DEF RecvFails, serverSide
<1> HIDE DEF s
<1> QED BY <1>1, <1>2, <1>3, ClosedSession

\* What do_send_rpc does to the lists: the first call that was not sent is sent.
\* s is the session before it, in the place of session.
LEMMA SendKeeps ==
  ASSUME CallsInv, NEW p \in 0 .. MaxCalls, Numbered(p),
         NEW s \in SessionType, DoSend(s), s.sending # None => s.isSend,
         s.reqs = session.reqs, s.waits = session.waits, s.isClose = session.isClose,
         s.sending = session.sending \/ s.sending = None
  PROVE  /\ session' \in SessionType /\ fault' = {}
         /\ session'.sending # None => session'.isSend
         /\ session'.kept = s.kept /\ session'.isClose = session.isClose
         /\ LastAnswered(p)' = LastAnswered(p)
         /\ LastSent(p)' + One(s.sending) = LastSent(p) + One(session'.sending)
         /\ LastSent(p)' >= LastSent(p)
         /\ ClientLists(p)'
<1>0. fault = {}
  BY DEF CallsInv
<1>1. /\ session' \in SessionType /\ fault' = {}
      /\ session'.sending # None => session'.isSend
      /\ session'.kept = s.kept /\ session'.isClose = session.isClose
  BY <1>0, DoSendEffect
<1>2. CASE session' = s
  <2>1. LastAnswered(p)' = LastAnswered(p) /\ LastSent(p)' = LastSent(p)
    BY <1>2 DEF LastAnswered, LastSent
  <2>2. ClientLists(p)'
    BY <1>2, <2>1 DEF Numbered, ClientLists, After
  <2>3. session'.sending = s.sending /\ LastSent(p) \in Int /\ One(s.sending) \in Int
    BY <1>2, Ends DEF One
  <2> QED BY <1>1, <2>1, <2>2, <2>3
<1>3. CASE /\ s.reqs # <<>> /\ s.sending = None /\ session'.sending = Head(s.reqs)
           /\ session'.reqs = Tail(s.reqs)
           /\ session'.waits = Append(s.waits, Head(s.reqs))
  <2>1. /\ s.reqs \in Seq(Call) /\ s.waits \in Seq(Call) /\ Head(s.reqs) \in Call
        /\ Len(s.reqs) \in Nat /\ Len(s.waits) \in Nat
        /\ Len(Tail(s.reqs)) = Len(s.reqs) - 1
        /\ Len(Append(s.waits, Head(s.reqs))) = Len(s.waits) + 1
    BY <1>3, SessionFields, TailCalls, AppendCall, LenNat
  <2>2. /\ After(s.reqs, LastSent(p)) /\ After(s.waits, LastAnswered(p))
        /\ LastSent(p) \in Int /\ LastAnswered(p) \in Int /\ p \in Nat
        /\ LastSent(p) = p - Len(s.reqs)
        /\ LastAnswered(p) = LastSent(p) - Len(s.waits)
    BY Ends DEF Numbered, ClientLists, LastSent, LastAnswered
  <2>3. LastSent(p)' = LastSent(p) + 1 /\ LastAnswered(p)' = LastAnswered(p)
    <3>1. /\ Len(session'.reqs) = Len(s.reqs) - 1
          /\ Len(session'.waits) = Len(s.waits) + 1
      BY <1>3, <2>1
    <3>2. LastSent(p)' = p - Len(session'.reqs)
      BY DEF LastSent
    <3>3. LastAnswered(p)' = LastSent(p)' - Len(session'.waits)
      BY DEF LastAnswered
    <3>4. LastSent(p)' = LastSent(p) + 1
      BY <2>1, <2>2, <3>1, <3>2
    <3> QED BY <2>1, <2>2, <3>1, <3>3, <3>4
  <2>4. Head(s.reqs) = LastSent(p) + 1 /\ After(Tail(s.reqs), LastSent(p) + 1)
    BY <1>3, <2>1, <2>2, AfterTail
  <2>5. After(Append(s.waits, Head(s.reqs)), LastAnswered(p))
    <3>1. Head(s.reqs) = LastAnswered(p) + Len(s.waits) + 1
      <4> DEFINE w == Len(s.waits)
                 x == LastSent(p)
                 y == LastAnswered(p)
                 h == Head(s.reqs)
      <4>1. w \in Nat /\ x \in Int /\ y = x - w /\ h = x + 1
        BY <2>1, <2>2, <2>4
      <4> HIDE DEF w, x, y, h
      <4>2. h = y + w + 1
        BY <4>1
      <4> QED BY <4>2 DEF w, y, h
    <3> QED BY <2>1, <2>2, <3>1, AfterAppend
  <2>6. ClientLists(p)'
    BY <1>3, <2>3, <2>4, <2>5 DEF Numbered, ClientLists, After
  <2>7. One(s.sending) = 0 /\ One(session'.sending) = 1
    BY <1>3, <2>1 DEF One, Call, None
  <2> QED BY <1>1, <2>2, <2>3, <2>6, <2>7
<1> QED BY <1>0, <1>2, <1>3, DoSendEffect

LEMMA StepPosted ==
  ASSUME CallsInv, Posted PROVE CallsInv'
<1>1. PICK p \in 0 .. MaxCalls : Numbered(p)
  BY DEF CallsInv
<1>2. /\ posted' \in Seq({"send", "delete"})
      /\ UNCHANGED <<caller, item, got, io, wire, server, runs, late, timeouts>>
  BY TailCalls DEF Posted, CallsInv, CallsTypeOK, serverSide
<1>3. CASE DoSend(session)
  <2>1. session \in SessionType /\ (session.sending # None => session.isSend)
    BY DEF CallsInv, CallsTypeOK, SendsRight
  <2>2. /\ session' \in SessionType /\ fault' = {}
        /\ session'.sending # None => session'.isSend
        /\ session'.kept = session.kept /\ session'.isClose = session.isClose
        /\ LastAnswered(p)' = LastAnswered(p)
        /\ LastSent(p)' + One(session.sending) = LastSent(p) + One(session'.sending)
        /\ LastSent(p)' >= LastSent(p)
        /\ ClientLists(p)'
    BY <1>1, <1>3, <2>1, SendKeeps
  <2>3. CallsTypeOK' /\ SendsRight'
    BY <1>2, <2>2 DEF CallsInv, CallsTypeOK, SendsRight
  <2>4. CallsMade(p)'
    BY <1>1, <1>2, <2>2 DEF Numbered, CallsMade
  <2>5. ServerLists(p)'
    <3>1. Done(p)' = Done(p) /\ LastServed(p)' = LastServed(p)
      BY <1>2, <2>2 DEF Done, LastServed, One
    <3>2. One(session.sending)' = One(session'.sending)
      BY DEF One
    <3>3. /\ LastSent(p) \in Int /\ LastSent(p)' \in Int /\ LastServed(p) \in Int
          /\ One(session'.sending) \in Int /\ One(session.sending) \in Int
          /\ Len(wire.requests) \in Nat
      <4>1. Len(session'.reqs) \in Nat
        BY <2>2, SessionFields, LenNat
      <4> QED BY <4>1, Ends DEF LastSent, One
    <3>4. ServerLists(p)
      BY <1>1 DEF Numbered
    <3>5. ASSUME wire.up PROVE LastServed(p) <= LastSent(p)'
      BY <2>2, <3>3, <3>4, <3>5 DEF ServerLists
    <3>6. ASSUME wire.up, server.open
          PROVE  LastServed(p) + Len(wire.requests) + One(session'.sending) = LastSent(p)'
      <4>1. LastServed(p) + Len(wire.requests) + One(session.sending) = LastSent(p)
        BY <3>4, <3>6 DEF ServerLists
      <4> DEFINE x == LastSent(p)
                 y == LastSent(p)'
                 u == One(session.sending)
                 v == One(session'.sending)
      <4>2. x \in Int /\ y \in Int /\ u \in Int /\ v \in Int /\ y + u = x + v
            /\ LastServed(p) + Len(wire.requests) + u = x
        BY <2>2, <3>3, <4>1
      <4> HIDE DEF x, y, u, v
      <4>3. LastServed(p) + Len(wire.requests) + v = y
        BY <3>3, <4>2
      <4> QED BY <4>3 DEF v, y
    <3> QED BY <1>2, <2>2, <3>1, <3>2, <3>4, <3>5, <3>6 DEF ServerLists, After
  <2>6. Results(p)'
    BY <1>1, <1>2, <2>2 DEF Numbered, Results
  <2> QED BY <2>2, <2>3, <2>4, <2>5, <2>6 DEF CallsInv, Numbered
<1>4. CASE session' = [session EXCEPT !.kept = FALSE] /\ UNCHANGED fault
  <2>1. /\ session' \in SessionType
        /\ session'.reqs = session.reqs /\ session'.waits = session.waits
        /\ session'.sending = session.sending /\ session'.isClose = session.isClose
        /\ session'.isSend = session.isSend /\ ~session'.kept
    BY <1>4 DEF CallsInv, CallsTypeOK, SessionType
  <2>2. CallsTypeOK' /\ SendsRight'
    BY <1>2, <1>4, <2>1 DEF CallsInv, CallsTypeOK, SendsRight
  <2>3. CallsMade(p)'
    BY <1>1, <1>2, <2>1 DEF Numbered, CallsMade
  <2>4. ClientLists(p)' /\ ServerLists(p)' /\ Results(p)'
    BY <1>1, <1>2, <2>1, ListsKept
  <2> QED BY <1>4, <2>2, <2>3, <2>4 DEF CallsInv, Numbered
<1> QED BY <1>3, <1>4 DEF Posted

\* A request that is sent is the last one on the wire, and the next one follows.
LEMMA StepSent ==
  ASSUME CallsInv, Sent PROVE CallsInv'
<1>1. PICK p \in 0 .. MaxCalls : Numbered(p)
  BY DEF CallsInv
<1>2. /\ UNCHANGED <<caller, item, got, posted, io, server, runs, late, timeouts>>
      /\ session.sending # None /\ session.sending \in Call
      /\ wire' = IF wire.up /\ server.open
                 THEN [wire EXCEPT !.requests = Append(@, session.sending)] ELSE wire
  BY DEF Sent, serverSide, CallsInv, CallsTypeOK, SessionType, None, Call
<1>3. /\ wire' \in WireType /\ wire'.up = wire.up /\ wire'.answers = wire.answers
      /\ wire.up /\ server.open => wire'.requests = Append(wire.requests, session.sending)
      /\ ~(wire.up /\ server.open) => wire'.requests = wire.requests
  <2>1. /\ wire.requests \in Seq(Call)
        /\ Append(wire.requests, session.sending) \in Seq(Call)
    BY <1>2, AppendCall DEF CallsInv, CallsTypeOK, WireType
  <2> QED BY <1>2, <2>1 DEF CallsInv, CallsTypeOK, WireType
\* What becomes of the session, in both cases.
<1>4. /\ session' \in SessionType /\ fault' = {}
      /\ session'.sending # None => session'.isSend
      /\ session'.kept = session.kept /\ session'.isClose = session.isClose
      /\ LastAnswered(p)' = LastAnswered(p)
      /\ LastSent(p)' = LastSent(p) + One(session'.sending)
      /\ LastSent(p)' >= LastSent(p)
      /\ ClientLists(p)'
  <2>1. None \in 0 .. MaxCalls /\ LastSent(p) \in Int
    BY RpcAssumption, Ends DEF None
  <2>2. CASE Alive
    <3> DEFINE s == [session EXCEPT !.sending = None, !.isSend = FALSE]
    <3>1. /\ s \in SessionType /\ s.sending = None
          /\ s.reqs = session.reqs /\ s.waits = session.waits
          /\ s.isClose = session.isClose /\ s.kept = session.kept
      BY <2>1 DEF CallsInv, CallsTypeOK, SessionType
    <3>2. DoSend(s)
      BY <2>2 DEF Sent, AfterSend
    <3> HIDE DEF s
    <3>3. One(s.sending) = 0 /\ One(session'.sending) \in Int
      BY <3>1 DEF One
    <3>4. LastSent(p)' \in Int
      <4>1. session' \in SessionType
        BY <1>1, <3>1, <3>2, SendKeeps
      <4> QED BY <2>1, <4>1, SessionFields, LenNat DEF LastSent
    <3> QED BY <1>1, <2>1, <3>1, <3>2, <3>3, <3>4, SendKeeps
  <2>3. CASE ~Alive
    <3>1. session' = [session EXCEPT !.sending = None] /\ UNCHANGED fault
      BY <2>3 DEF Sent
    <3>2. /\ session' \in SessionType /\ session'.sending = None
          /\ session'.reqs = session.reqs /\ session'.waits = session.waits
          /\ session'.isClose = session.isClose /\ session'.kept = session.kept
      BY <2>1, <3>1 DEF CallsInv, CallsTypeOK, SessionType
    <3>3. LastAnswered(p)' = LastAnswered(p) /\ LastSent(p)' = LastSent(p)
      BY <3>2 DEF LastAnswered, LastSent
    <3>4. ClientLists(p)'
      BY <1>1, <3>2, <3>3 DEF Numbered, ClientLists, After
    <3> QED BY <2>1, <3>1, <3>2, <3>3, <3>4 DEF CallsInv, One
  <2> QED BY <2>2, <2>3
<1>5. CallsTypeOK' /\ SendsRight'
  BY <1>2, <1>3, <1>4 DEF CallsInv, CallsTypeOK, SendsRight
<1>6. CallsMade(p)'
  BY <1>1, <1>2, <1>4 DEF Numbered, CallsMade
<1>7. ServerLists(p)'
  <2>1. Done(p)' = Done(p) /\ LastServed(p)' = LastServed(p)
    BY <1>2, <1>3, <1>4 DEF Done, LastServed, One
  <2>2. One(session.sending)' = One(session'.sending) /\ One(session.sending) = 1
        /\ One(session'.sending) \in Int
    BY <1>2 DEF One
  <2>3. /\ LastSent(p) \in Int /\ LastServed(p) \in Int /\ Len(wire.requests) \in Nat
        /\ LastSent(p)' \in Int
    BY <1>4, <2>2, Ends
  <2>4. ASSUME wire.up, server.open
        PROVE  /\ LastServed(p) + Len(wire'.requests) + One(session'.sending) = LastSent(p)'
               /\ After(wire'.requests, LastServed(p))
    <3>1. wire.requests \in Seq(Call) /\ After(wire.requests, LastServed(p))
          /\ LastServed(p) + Len(wire.requests) + 1 = LastSent(p)
          /\ session.sending = LastSent(p)
      BY <1>1, <1>2, <2>2, <2>4 DEF Numbered, ServerLists, ClientLists, CallsInv, CallsTypeOK, WireType
    <3>2. Len(wire'.requests) = Len(wire.requests) + 1
      BY <1>2, <1>3, <2>4, <3>1, AppendCall
    <3>3. After(wire'.requests, LastServed(p))
      BY <1>2, <1>3, <2>3, <2>4, <3>1, AfterAppend
    <3> QED BY <1>4, <2>2, <2>3, <3>1, <3>2, <3>3
  <2>5. ServerLists(p)
    BY <1>1 DEF Numbered
  <2>6. ASSUME wire.up PROVE LastServed(p) <= LastSent(p)'
    BY <1>4, <2>3, <2>5, <2>6 DEF ServerLists
  <2>7. ASSUME ~wire.up PROVE wire'.answers = <<>> /\ wire'.requests = <<>>
    BY <1>3, <2>5, <2>7 DEF ServerLists
  <2> QED BY <1>2, <1>3, <1>4, <2>1, <2>2, <2>4, <2>5, <2>6, <2>7 DEF ServerLists, After
<1>8. Results(p)'
  BY <1>1, <1>2, <1>4 DEF Numbered, Results
<1> QED BY <1>4, <1>5, <1>6, <1>7, <1>8 DEF CallsInv, Numbered

\* The answer at the head of the wire is for the call at the head of waits.
LEMMA AnswerMeets ==
  ASSUME CallsInv, NEW p \in 0 .. MaxCalls, Numbered(p), wire.answers # <<>>
  PROVE  /\ wire.up /\ session.waits # <<>>
         /\ Head(wire.answers) \in Call
         /\ Head(wire.answers) = LastAnswered(p) + 1
         /\ Head(session.waits) = LastAnswered(p) + 1
         /\ runs[Head(wire.answers)] = 1
<1>1. wire.up
  BY DEF Numbered, ServerLists
<1>2. /\ LastServed(p) <= LastSent(p) /\ After(wire.answers, LastAnswered(p))
      /\ After(session.waits, LastAnswered(p))
      /\ \A n \in Call : n <= LastServed(p) => runs[n] = 1
  BY <1>1 DEF Numbered, ServerLists, ClientLists
<1>3. wire.answers \in Seq(Call) /\ session.waits \in Seq(Call)
  BY DEF CallsInv, CallsTypeOK, WireType, SessionType
<1> DEFINE x == LastAnswered(p)
           a == Len(wire.answers)
           w == Len(session.waits)
           r == One(server.sending) + Len(server.resps)
<1>4. /\ x \in Int /\ a \in Nat \ {0} /\ w \in Nat /\ r \in Nat
      /\ LastSent(p) = x + w /\ LastServed(p) = x + a + r
  <2>1. a \in Nat \ {0}
    BY <1>3, TailCalls
  <2>2. w = Len(session.waits) /\ w \in Nat /\ x = LastSent(p) - w /\ LastSent(p) \in Int
    BY Ends DEF LastAnswered
  <2>3. r \in Nat /\ x \in Int
    BY Ends
  <2>4. LastServed(p) = x + a + r
    BY <2>1, <2>3, Ends DEF LastServed, Done
  <2> HIDE DEF x, a, w, r
  <2> QED BY <2>1, <2>2, <2>3, <2>4
<1>5. Head(wire.answers) \in Call /\ Head(wire.answers) = x + 1
  BY <1>2, <1>3, <1>4, AfterTail, TailCalls
<1>6. session.waits # <<>> /\ x + 1 <= LastServed(p)
  <2>1. w # 0 /\ x + 1 <= LastServed(p)
    <3> HIDE DEF x, a, w, r
    <3> QED BY <1>2, <1>4
  <2> QED BY <1>3, <2>1, LenNat
<1>7. Head(session.waits) = x + 1
  BY <1>2, <1>3, <1>4, <1>6, AfterTail
<1> QED BY <1>1, <1>2, <1>5, <1>6, <1>7

LEMMA StepAnswer ==
  ASSUME CallsInv, Answer PROVE CallsInv'
<1>1. PICK p \in 0 .. MaxCalls : Numbered(p)
  BY DEF CallsInv
<1> DEFINE n == Head(wire.answers)
           s == [session EXCEPT !.waits = Tail(session.waits)]
<1>2. wire.answers # <<>>
  BY DEF Answer
<1>3. /\ wire.up /\ session.waits # <<>> /\ n \in Call /\ n = LastAnswered(p) + 1
      /\ Head(session.waits) = n /\ runs[n] = 1
  BY <1>1, <1>2, AnswerMeets
<1>4. /\ wire' = [wire EXCEPT !.answers = Tail(wire.answers)]
      /\ item' = [item EXCEPT ![n] = [status |-> "ok", of |-> n]]
      /\ session' = s
      /\ UNCHANGED <<io, fault, caller, got, posted, server, runs, late, timeouts>>
  BY <1>3 DEF Answer, serverSide
<1>5. /\ session.waits \in Seq(Call) /\ wire.answers \in Seq(Call)
      /\ Tail(session.waits) \in Seq(Call) /\ Tail(wire.answers) \in Seq(Call)
      /\ Len(Tail(session.waits)) = Len(session.waits) - 1
      /\ Len(Tail(wire.answers)) = Len(wire.answers) - 1
  BY <1>2, <1>3, TailCalls DEF CallsInv, CallsTypeOK, SessionType, WireType
<1>6. /\ session' \in SessionType
      /\ session'.reqs = session.reqs /\ session'.waits = Tail(session.waits)
      /\ session'.sending = session.sending /\ session'.isClose = session.isClose
      /\ session'.isSend = session.isSend /\ session'.kept = session.kept
  BY <1>4, <1>5 DEF CallsInv, CallsTypeOK, SessionType
<1>7. /\ wire' \in WireType /\ wire'.answers = Tail(wire.answers)
      /\ wire'.requests = wire.requests /\ wire'.up = wire.up
  BY <1>4, <1>5 DEF CallsInv, CallsTypeOK, WireType
<1>8. /\ item' \in [Call -> ItemType] /\ item'[n].status = "ok" /\ item'[n].of = n
      /\ \A m \in Call \ {n} : item'[m] = item[m]
  <2>1. [status |-> "ok", of |-> n] \in ItemType
    BY <1>3, RpcAssumption DEF ItemType, Call
  <2> QED BY <1>3, <1>4, <2>1 DEF CallsInv, CallsTypeOK
<1>9. CallsTypeOK' /\ SendsRight'
  BY <1>4, <1>6, <1>7, <1>8 DEF CallsInv, CallsTypeOK, SendsRight
<1>10. CallsMade(p)'
  BY <1>1, <1>4, <1>6 DEF Numbered, CallsMade
<1>11. /\ LastSent(p)' = LastSent(p) /\ LastAnswered(p)' = LastAnswered(p) + 1
       /\ Done(p)' = Done(p) /\ LastServed(p)' = LastServed(p)
  <2>1. LastSent(p)' = LastSent(p)
    BY <1>6 DEF LastSent
  <2>2. LastAnswered(p)' = LastAnswered(p) + 1
    <3>1. LastAnswered(p) = LastSent(p) - Len(session.waits)
          /\ LastAnswered(p)' = LastSent(p)' - Len(session'.waits)
      BY DEF LastAnswered
    <3>2. LastSent(p) \in Int /\ Len(session.waits) \in Nat
          /\ Len(session'.waits) = Len(session.waits) - 1
      BY <1>5, <1>6, Ends
    <3> QED BY <2>1, <3>1, <3>2
  <2>3. Done(p)' = Done(p)
    <3>1. Done(p) = LastAnswered(p) + Len(wire.answers)
          /\ Done(p)' = LastAnswered(p)' + Len(wire'.answers)
      BY DEF Done
    <3>2. LastAnswered(p) \in Int /\ Len(wire.answers) \in Nat
          /\ Len(wire'.answers) = Len(wire.answers) - 1
      BY <1>5, <1>7, Ends
    <3> QED BY <2>2, <3>1, <3>2
  <2>4. LastServed(p)' = LastServed(p)
    BY <1>4, <2>3 DEF LastServed, One
  <2> QED BY <2>1, <2>2, <2>3, <2>4
<1>12. ClientLists(p)'
  <2>1. After(Tail(session.waits), LastAnswered(p) + 1)
    BY <1>1, <1>3, <1>5, AfterTail, Ends DEF Numbered, ClientLists
  <2>2. LastAnswered(p) + 1 >= 0
    BY <1>1, Ends DEF Numbered, ClientLists
  <2> QED BY <1>1, <1>6, <1>11, <2>1, <2>2 DEF Numbered, ClientLists, After
<1>13. ServerLists(p)'
  <2>1. After(Tail(wire.answers), LastAnswered(p) + 1)
    BY <1>1, <1>2, <1>3, <1>5, AfterTail, Ends DEF Numbered, ServerLists
  <2>2. One(session.sending)' = One(session.sending)
    BY <1>6 DEF One
  <2> QED BY <1>1, <1>3, <1>4, <1>7, <1>11, <2>1, <2>2 DEF Numbered, ServerLists, After
<1>14. Results(p)'
  <2> SUFFICES ASSUME NEW m \in Call
               PROVE  /\ m <= LastAnswered(p) + 1 => item'[m].status # "null"
                      /\ item'[m].status = "ok" => item'[m].of = m /\ runs[m] = 1
                      /\ session.isClose /\ m <= p /\ m \notin late
                           => item'[m].status # "null"
                      /\ got[m] = "ok" => item'[m].of = m /\ runs[m] = 1
    BY <1>4, <1>6, <1>11 DEF Results
  <2>1. CASE m = n
    BY <1>3, <1>8, <2>1
  <2>2. CASE m # n
    <3>1. m <= LastAnswered(p) + 1 => m <= LastAnswered(p)
      BY <1>3, <2>2, Ends DEF Call
    <3> QED BY <1>1, <1>8, <2>2, <3>1 DEF Numbered, Results
  <2> QED BY <2>1, <2>2
<1> QED BY <1>4, <1>9, <1>10, <1>12, <1>13, <1>14 DEF CallsInv, Numbered

-----------------------------------------------------------------------------
(* The steps of the server and of the connection.                          *)

\* They change nothing of the client, and what has run has run.
LEMMA ClientKept ==
  ASSUME NEW p \in 0 .. MaxCalls, Numbered(p),
         UNCHANGED <<caller, item, got, session, late>>,
         \A n \in Call : runs[n] = 1 => runs'[n] = 1
  PROVE  /\ CallsMade(p)' /\ ClientLists(p)' /\ Results(p)'
         /\ LastSent(p)' = LastSent(p) /\ LastAnswered(p)' = LastAnswered(p)
<1>1. LastSent(p)' = LastSent(p) /\ LastAnswered(p)' = LastAnswered(p)
  BY DEF LastSent, LastAnswered
<1>2. CallsMade(p)'
  BY DEF Numbered, CallsMade
<1>3. ClientLists(p)'
  BY <1>1 DEF Numbered, ClientLists, After
<1>4. Results(p)'
  BY <1>1 DEF Numbered, Results
<1> QED BY <1>1, <1>2, <1>3, <1>4

LEMMA StepBreak ==
  ASSUME CallsInv, Break PROVE CallsInv'
<1>1. PICK p \in 0 .. MaxCalls : Numbered(p)
  BY DEF CallsInv
<1>2. /\ wire' = [requests |-> <<>>, answers |-> <<>>, up |-> FALSE]
      /\ UNCHANGED <<caller, item, got, posted, session, io, server, runs, late,
                     fault, timeouts>>
  BY DEF Break, clientSide, serverSide
<1>3. wire' \in WireType
  BY <1>2 DEF WireType
<1>4. CallsTypeOK' /\ SendsRight'
  BY <1>2, <1>3 DEF CallsInv, CallsTypeOK, SendsRight
<1>5. CallsMade(p)' /\ ClientLists(p)' /\ Results(p)'
  BY <1>1, <1>2, ClientKept
<1>6. ServerLists(p)'
  BY <1>2 DEF ServerLists
<1> QED BY <1>2, <1>4, <1>5, <1>6 DEF CallsInv, Numbered

\* A session that is closed drops the answers that wait.
LEMMA ServerClosed ==
  ASSUME CallsInv, NEW p \in 0 .. MaxCalls, Numbered(p), CloseSession,
         wire'.up = wire.up, wire'.answers = wire.answers,
         ~wire.up => wire'.requests = <<>>,
         UNCHANGED <<caller, item, got, session, late>>,
         \A n \in Call : runs[n] = 1 => runs'[n] = 1
  PROVE  server' \in ServerType /\ SendsRight' /\ Numbered(p)'
<1>1. /\ server' \in ServerType /\ server'.sending = server.sending
      /\ server'.resps = <<>> /\ ~server'.open /\ server'.isSend = server.isSend
  <2>1. server \in ServerType /\ <<>> \in Seq(Call)
    BY DEF CallsInv, CallsTypeOK
  <2>2. server' = [server EXCEPT !.open = FALSE, !.resps = <<>>]
    BY DEF CloseSession
  <2> QED BY <2>1, <2>2 DEF ServerType
<1>2. SendsRight'
  BY <1>1 DEF CallsInv, SendsRight
<1>3. /\ CallsMade(p)' /\ ClientLists(p)' /\ Results(p)'
      /\ LastSent(p)' = LastSent(p) /\ LastAnswered(p)' = LastAnswered(p)
  BY ClientKept
<1>4. Done(p)' = Done(p) /\ LastServed(p)' <= LastServed(p)
      /\ LastServed(p) \in Int /\ LastServed(p)' \in Int /\ LastSent(p) \in Int
  <2>1. Done(p)' = Done(p)
    BY <1>3 DEF Done
  <2>2. LastServed(p)' = Done(p) + One(server.sending) + Len(server'.resps)
    BY <1>1, <2>1 DEF LastServed, One
  <2>3. Len(server'.resps) = 0
    BY <1>1
  <2>4. LastServed(p) = Done(p) + One(server.sending) + Len(server.resps)
    BY DEF LastServed
  <2> QED BY <2>1, <2>2, <2>3, <2>4, Ends
<1>5. ServerLists(p)'
  <2>1. ServerLists(p)
    BY DEF Numbered
  <2>2. After(<<>>, Done(p) + 1)
    BY DEF After
  <2>3. ASSUME wire.up
        PROVE  /\ LastServed(p)' <= LastSent(p)
               /\ \A n \in Call : n <= LastServed(p)' => runs'[n] = 1
    BY <1>4, <2>1, <2>3 DEF ServerLists, Call
  <2> QED BY <1>1, <1>3, <1>4, <2>1, <2>2, <2>3 DEF ServerLists, After
<1> QED BY <1>1, <1>2, <1>3, <1>5 DEF Numbered

LEMMA StepServerLost ==
  ASSUME CallsInv, ServerLost PROVE CallsInv'
<1>1. PICK p \in 0 .. MaxCalls : Numbered(p)
  BY DEF CallsInv
<1>2. /\ CloseSession
      /\ UNCHANGED <<caller, item, got, posted, session, io, wire, runs, late,
                     fault, timeouts>>
  BY DEF ServerLost, clientSide
<1>3. ~wire.up => wire'.requests = <<>>
  BY <1>1, <1>2 DEF Numbered, ServerLists
<1>4. server' \in ServerType /\ SendsRight' /\ Numbered(p)'
  BY <1>1, <1>2, <1>3, ServerClosed
<1>5. CallsTypeOK'
  BY <1>2, <1>4 DEF CallsInv, CallsTypeOK
<1> QED BY <1>2, <1>4, <1>5 DEF CallsInv

\* A request runs when all before it have and none after it has.
LEMMA RequestNext ==
  ASSUME CallsInv, NEW p \in 0 .. MaxCalls, Numbered(p),
         server.open, wire.requests # <<>>
  PROVE  /\ wire.up /\ Head(wire.requests) \in Call
         /\ Head(wire.requests) = LastServed(p) + 1
         /\ Head(wire.requests) <= p
         /\ \A m \in Call : m >= Head(wire.requests) => runs[m] = 0
<1> DEFINE n == Head(wire.requests)
<1>1. wire.up
  BY DEF Numbered, ServerLists
<1>2. n \in Call /\ wire.requests \in Seq(Call) /\ Len(wire.requests) \in Nat \ {0}
  BY TailCalls DEF CallsInv, CallsTypeOK, WireType
<1>3. n = LastServed(p) + 1
  BY <1>1, <1>2, AfterTail, Ends DEF Numbered, ServerLists
<1>4. LastServed(p) + Len(wire.requests) + One(session.sending) = LastSent(p)
  BY <1>1 DEF Numbered, ServerLists
<1>5. LastSent(p) <= p
  BY Ends DEF LastSent
<1>6. n <= p
  BY <1>2, <1>3, <1>4, <1>5, Ends
<1>7. ASSUME NEW m \in Call, m >= n PROVE runs[m] = 0
  <2>1. m > LastServed(p)
    BY <1>3, <1>7, Ends DEF Call
  <2> QED BY <1>1, <2>1 DEF Numbered, ServerLists
<1> QED BY <1>1, <1>2, <1>3, <1>6, <1>7

\* Its answer is the next one.
LEMMA StepServe ==
  ASSUME CallsInv, Serve PROVE CallsInv'
<1>1. PICK p \in 0 .. MaxCalls : Numbered(p)
  BY DEF CallsInv
<1> DEFINE n == Head(wire.requests)
<1>2. /\ server.open /\ wire.requests # <<>>
      /\ wire' = [wire EXCEPT !.requests = Tail(wire.requests)]
      /\ runs' = [runs EXCEPT ![n] = runs[n] + 1]
      /\ UNCHANGED <<caller, item, got, posted, session, io, late, timeouts>>
  BY DEF Serve, clientSide
<1>3. wire.up /\ n \in Call /\ n = LastServed(p) + 1 /\ runs[n] = 0
  <2>1. n \in Call => n >= n
    BY DEF Call
  <2> QED BY <1>1, <1>2, <2>1, RequestNext
<1>4. /\ n \in Call /\ wire.requests \in Seq(Call) /\ Tail(wire.requests) \in Seq(Call)
      /\ Len(wire.requests) \in Nat /\ Len(Tail(wire.requests)) = Len(wire.requests) - 1
  BY <1>2, TailCalls DEF CallsInv, CallsTypeOK, WireType
<1>5. n = LastServed(p) + 1 /\ After(Tail(wire.requests), LastServed(p) + 1)
  BY <1>1, <1>2, <1>3, <1>4, AfterTail, Ends DEF Numbered, ServerLists
<1>7. /\ runs' \in [Call -> {0, 1}] /\ runs'[n] = 1
      /\ \A m \in Call \ {n} : runs'[m] = runs[m]
      /\ \A m \in Call : runs[m] = 1 => runs'[m] = 1
  BY <1>2, <1>3 DEF CallsInv, CallsTypeOK
<1>8. /\ wire' \in WireType /\ wire'.requests = Tail(wire.requests)
      /\ wire'.answers = wire.answers /\ wire'.up
  BY <1>2, <1>3, <1>4 DEF CallsInv, CallsTypeOK, WireType
<1>9. /\ CallsMade(p)' /\ ClientLists(p)' /\ Results(p)'
      /\ LastSent(p)' = LastSent(p) /\ LastAnswered(p)' = LastAnswered(p)
  BY <1>1, <1>2, <1>7, ClientKept
<1>10. Done(p)' = Done(p)
  BY <1>8, <1>9 DEF Done
<1>11. CASE CloseSession /\ UNCHANGED fault
  <2>1. server' \in ServerType /\ SendsRight' /\ Numbered(p)'
    BY <1>1, <1>2, <1>3, <1>7, <1>8, <1>11, ServerClosed
  <2>2. CallsTypeOK'
    BY <1>2, <1>7, <1>8, <1>11, <2>1 DEF CallsInv, CallsTypeOK
  <2> QED BY <1>11, <2>1, <2>2 DEF CallsInv
<1>12. CASE DoSendResp(n)
  <2>1. /\ server \in ServerType /\ server.resps \in Seq(Call)
        /\ Len(server.resps) \in Nat /\ Done(p) \in Int
        /\ LastServed(p) = Done(p) + One(server.sending) + Len(server.resps)
        /\ server.isSend <=> server.sending # None
        /\ server.sending = None => server.resps = <<>>
    BY Ends DEF CallsInv, CallsTypeOK, ServerType, SendsRight, LastServed
\* The answer is sent, or waits for the one that is.
  <2>2. /\ server' \in ServerType /\ SendsRight' /\ fault' = {}
        /\ server'.open = server.open
        /\ One(server'.sending) + Len(server'.resps)
             = One(server.sending) + Len(server.resps) + 1
        /\ server'.sending = Done(p) + 1
        /\ After(server'.resps, Done(p) + 1)
    <3>1. CASE server.isSend
      <4>1. /\ server' = [server EXCEPT !.resps = Append(server.resps, n)]
            /\ fault' = fault
        BY <1>12, <3>1 DEF DoSendResp, Queued
      <4>2. /\ Append(server.resps, n) \in Seq(Call)
            /\ Len(Append(server.resps, n)) = Len(server.resps) + 1
        BY <1>4, <2>1, AppendCall
      <4>3. /\ server' \in ServerType /\ server'.sending = server.sending
            /\ server'.resps = Append(server.resps, n)
            /\ server'.isSend = server.isSend /\ server'.open = server.open
        BY <2>1, <4>1, <4>2 DEF ServerType
      <4>4. /\ server.sending # None /\ One(server.sending) = 1
            /\ server.sending = Done(p) + 1 /\ After(server.resps, Done(p) + 1)
        BY <1>1, <1>3, <2>1, <3>1 DEF One, Numbered, ServerLists
      <4>5. n = Done(p) + 1 + Len(server.resps) + 1
        BY <1>5, <2>1, <4>4
      <4>6. After(Append(server.resps, n), Done(p) + 1)
        <5>1. Done(p) + 1 \in Int
          BY <2>1
        <5> QED BY <1>4, <2>1, <4>4, <4>5, <5>1, AfterAppend
      <4>7. SendsRight'
        BY <1>2, <3>1, <4>3, <4>4 DEF CallsInv, SendsRight
      <4> QED BY <2>1, <4>1, <4>2, <4>3, <4>4, <4>6, <4>7 DEF CallsInv
    <3>2. CASE ~server.isSend
      <4>1. /\ server.sending = None /\ server.resps = <<>> /\ One(server.sending) = 0
            /\ Len(server.resps) = 0
        BY <2>1, <3>2 DEF One
      <4>2. /\ server' = [server EXCEPT !.isSend = TRUE, !.sending = n]
            /\ fault' = fault
        BY <1>12, <3>2, <4>1 DEF DoSendResp
      <4>3. n \in 0 .. MaxCalls /\ n # None
        BY <1>4, RpcAssumption DEF Call, None
      <4>4. /\ server' \in ServerType /\ server'.sending = n /\ server'.isSend
            /\ server'.resps = <<>> /\ server'.open = server.open
        BY <2>1, <4>1, <4>2, <4>3 DEF ServerType
      <4>5. One(server'.sending) = 1 /\ n = Done(p) + 1
        BY <1>5, <2>1, <4>1, <4>3, <4>4 DEF One
      <4>6. SendsRight'
        BY <1>2, <4>3, <4>4 DEF CallsInv, SendsRight
      <4>7. After(server'.resps, Done(p) + 1)
        BY <4>4 DEF After
      <4> QED BY <4>1, <4>2, <4>4, <4>5, <4>6, <4>7 DEF CallsInv
    <3> QED BY <3>1, <3>2
  <2>3. CallsTypeOK'
    BY <1>2, <1>7, <1>8, <2>2 DEF CallsInv, CallsTypeOK
  <2>4. LastServed(p)' = LastServed(p) + 1
    <3>1. LastServed(p)' = Done(p) + One(server'.sending) + Len(server'.resps)
      BY <1>10 DEF LastServed, One
    <3>2. One(server'.sending) \in Int /\ Len(server'.resps) \in Nat
      BY <2>2, LenNat DEF One, ServerType
    <3> DEFINE d == Done(p)
               a == One(server.sending)
               b == Len(server.resps)
               x == One(server'.sending)
               y == Len(server'.resps)
    <3>3. a \in Int
      BY Ends
    <3>4. /\ d \in Int /\ a \in Int /\ b \in Int /\ x \in Int /\ y \in Int
          /\ x + y = a + b + 1
          /\ LastServed(p)' = d + x + y /\ LastServed(p) = d + a + b
      BY <2>1, <2>2, <3>1, <3>2, <3>3
    <3> HIDE DEF d, a, b, x, y
    <3> QED BY <3>4
  <2>5. ServerLists(p)'
    <3>1. /\ LastServed(p) + Len(wire.requests) + One(session.sending) = LastSent(p)
          /\ \A m \in Call : m <= LastServed(p) => runs[m] = 1
          /\ \A m \in Call : m > LastServed(p) => runs[m] = 0
          /\ After(wire.answers, LastAnswered(p))
      BY <1>1, <1>2, <1>3 DEF Numbered, ServerLists
    <3>2. One(session.sending)' = One(session.sending) /\ One(session.sending) \in {0, 1}
      BY <1>2 DEF One
    <3>3. /\ LastServed(p) + 1 <= LastSent(p)
          /\ LastServed(p) + 1 + Len(wire'.requests) + One(session.sending) = LastSent(p)
      <4>1. Len(wire.requests) \in Nat \ {0}
        BY <1>2, <1>4, LenNat
      <4> QED BY <1>4, <1>8, <3>1, <3>2, <4>1, Ends
    <3>4. ASSUME NEW m \in Call
          PROVE  /\ m <= LastServed(p) + 1 => runs'[m] = 1
                 /\ m > LastServed(p) + 1 => runs'[m] = 0
      <4>1. LastServed(p) \in Int /\ n = LastServed(p) + 1 /\ m \in Int
        BY <1>5, Ends DEF Call
      <4> HIDE DEF n
      <4>2. CASE m = n
        BY <1>7, <4>1, <4>2
      <4>3. CASE m # n
        BY <1>7, <3>1, <4>1, <4>3
      <4> QED BY <4>2, <4>3
    <3> QED BY <1>5, <1>8, <1>9, <1>10, <2>2, <2>4, <3>1, <3>2, <3>3, <3>4
            DEF ServerLists, After
  <2> QED BY <1>9, <2>2, <2>3, <2>5 DEF CallsInv, Numbered
<1> QED BY <1>11, <1>12 DEF Serve

\* The answer that is being sent is the last one on the wire, the one that
\* waits longest is sent next.
LEMMA StepServerSent ==
  ASSUME CallsInv, ServerSent PROVE CallsInv'
<1>1. PICK p \in 0 .. MaxCalls : Numbered(p)
  BY DEF CallsInv
<1> DEFINE m == server.sending
<1>2. /\ m # None /\ wire.up
      /\ wire' = [wire EXCEPT !.answers = Append(wire.answers, m)]
      /\ UNCHANGED <<caller, item, got, posted, session, io, runs, late, fault, timeouts>>
  BY DEF ServerSent, clientSide
<1>3. /\ server \in ServerType /\ server.resps \in Seq(Call) /\ m \in Call
      /\ wire \in WireType /\ wire.answers \in Seq(Call)
  BY <1>2 DEF CallsInv, CallsTypeOK, ServerType, WireType, None, Call
<1>4. /\ Append(wire.answers, m) \in Seq(Call)
      /\ Len(Append(wire.answers, m)) = Len(wire.answers) + 1
  BY <1>3, AppendCall
<1>5. /\ wire' \in WireType /\ wire'.answers = Append(wire.answers, m)
      /\ wire'.requests = wire.requests /\ wire'.up = wire.up
  BY <1>2, <1>3, <1>4 DEF WireType
<1>6. /\ CallsMade(p)' /\ ClientLists(p)' /\ Results(p)'
      /\ LastSent(p)' = LastSent(p) /\ LastAnswered(p)' = LastAnswered(p)
  BY <1>1, <1>2, ClientKept
<1>7. Done(p)' = Done(p) + 1 /\ Done(p) \in Int
  <2>1. Done(p)' = LastAnswered(p) + Len(wire'.answers)
    BY <1>6 DEF Done
  <2>2. Done(p) = LastAnswered(p) + Len(wire.answers)
    BY DEF Done
  <2> QED BY <1>4, <1>5, <2>1, <2>2, Ends
<1>8. /\ m = Done(p) + 1 /\ After(server.resps, Done(p) + 1)
      /\ After(wire.answers, LastAnswered(p))
  BY <1>1, <1>2 DEF Numbered, ServerLists
<1>9. After(wire'.answers, LastAnswered(p))
  <2>1. m = LastAnswered(p) + Len(wire.answers) + 1
    BY <1>8 DEF Done
  <2> QED BY <1>3, <1>5, <1>8, <2>1, AfterAppend, Ends
<1>10. /\ server' \in ServerType /\ SendsRight' /\ server'.open = server.open
       /\ One(server'.sending) + Len(server'.resps) = Len(server.resps)
       /\ server'.sending # None => server'.sending = Done(p) + 2
       /\ After(server'.resps, Done(p) + 2)
  <2>1. CASE server.resps = <<>>
    <3>1. server' = [server EXCEPT !.sending = None, !.isSend = FALSE]
      BY <2>1 DEF ServerSent
    <3>2. None \in 0 .. MaxCalls
      BY RpcAssumption DEF None
    <3>3. /\ server' \in ServerType /\ server'.sending = None /\ ~server'.isSend
          /\ server'.resps = <<>> /\ server'.open = server.open
      BY <1>3, <2>1, <3>1, <3>2 DEF ServerType
    <3>4. SendsRight'
      BY <1>2, <3>3 DEF CallsInv, SendsRight
    <3>5. One(server'.sending) = 0 /\ Len(server'.resps) = 0 /\ Len(server.resps) = 0
      BY <2>1, <3>3 DEF One
    <3>6. After(server'.resps, Done(p) + 2)
      BY <3>3 DEF After
    <3> QED BY <3>3, <3>4, <3>5, <3>6
  <2>2. CASE server.resps # <<>>
    <3>1. server' = [server EXCEPT !.sending = Head(server.resps),
                                   !.resps = Tail(server.resps)]
      BY <2>2 DEF ServerSent
    <3>2. /\ Head(server.resps) \in Call /\ Tail(server.resps) \in Seq(Call)
          /\ Len(Tail(server.resps)) = Len(server.resps) - 1 /\ Len(server.resps) \in Nat
      BY <1>3, <2>2, TailCalls
    <3>3. Head(server.resps) \in 0 .. MaxCalls /\ Head(server.resps) # None
      BY <3>2, RpcAssumption DEF Call, None
    <3>4. /\ server' \in ServerType /\ server'.sending = Head(server.resps)
          /\ server'.isSend = server.isSend
          /\ server'.resps = Tail(server.resps) /\ server'.open = server.open
      BY <1>3, <3>1, <3>2, <3>3 DEF ServerType
    <3>5. SendsRight'
      BY <1>2, <3>3, <3>4 DEF CallsInv, SendsRight
    <3>6. One(server'.sending) = 1
      BY <3>3, <3>4 DEF One
    <3>7. After(Tail(server.resps), Done(p) + 2) /\ Head(server.resps) = Done(p) + 2
      <4>1. /\ After(Tail(server.resps), (Done(p) + 1) + 1)
            /\ Head(server.resps) = (Done(p) + 1) + 1
        <5>1. Done(p) + 1 \in Int
          BY <1>7
        <5> QED BY <1>3, <1>8, <2>2, <5>1, AfterTail
      <4>2. (Done(p) + 1) + 1 = Done(p) + 2
        BY <1>7
      <4> QED BY <4>1, <4>2
    <3> QED BY <3>2, <3>4, <3>5, <3>6, <3>7
  <2> QED BY <2>1, <2>2
<1>11. CallsTypeOK'
  BY <1>2, <1>5, <1>10 DEF CallsInv, CallsTypeOK
<1>12. LastServed(p)' = LastServed(p)
  <2>1. LastServed(p)' = Done(p) + 1 + One(server'.sending) + Len(server'.resps)
    BY <1>7 DEF LastServed, One
  <2>2. LastServed(p) = Done(p) + 1 + Len(server.resps)
    BY <1>2 DEF LastServed, One
  <2>3. One(server'.sending) \in Int /\ Len(server'.resps) \in Nat
    BY <1>10, LenNat DEF One, ServerType
  <2> DEFINE d == Done(p)
             x == One(server'.sending) + Len(server'.resps)
  <2>4. /\ d \in Int /\ x \in Int /\ x = Len(server.resps)
        /\ LastServed(p)' = d + 1 + x /\ LastServed(p) = d + 1 + Len(server.resps)
    BY <1>7, <1>10, <2>1, <2>2, <2>3
  <2> HIDE DEF d, x
  <2> QED BY <2>4
<1>13. ServerLists(p)'
  <2>1. One(session.sending)' = One(session.sending)
    BY <1>2 DEF One
  <2>2. Done(p)' + 1 = Done(p) + 2
    BY <1>7
  <2> QED BY <1>1, <1>2, <1>5, <1>6, <1>9, <1>10, <1>12, <2>1, <2>2
          DEF Numbered, ServerLists, After
<1> QED BY <1>2, <1>6, <1>10, <1>11, <1>13 DEF CallsInv, Numbered

-----------------------------------------------------------------------------
(* The invariant holds.                                                    *)

LEMMA InitCalls == CallsInit => CallsInv
<1> SUFFICES ASSUME CallsInit PROVE CallsInv
  OBVIOUS
<1> USE DEF CallsInit, Connects
<1>1. <<>> \in Seq(Call) /\ <<>> \in Seq({"send", "delete"}) /\ Len(<<>>) = 0
  OBVIOUS
<1>2. None \in 0 .. MaxCalls /\ 0 \in 0 .. MaxCalls /\ 0 \in 0 .. MaxTimeouts
  BY RpcAssumption DEF None
<1>3. CallsTypeOK
  <2>1. caller \in CallerType /\ wire \in WireType
    BY <1>1, <1>2 DEF CallerType, WireType
  <2>2. session \in SessionType /\ server \in ServerType
    BY <1>1, <1>2 DEF SessionType, ServerType
  <2>3. item \in [Call -> ItemType]
    BY <1>2 DEF ItemType
  <2> QED BY <1>1, <1>2, <2>1, <2>2, <2>3 DEF CallsTypeOK
<1>4. SendsRight
  BY DEF SendsRight, None
<1>5. /\ LastSent(0) = 0 /\ LastAnswered(0) = 0 /\ Done(0) = 0 /\ LastServed(0) = 0
      /\ One(session.sending) = 0
  <2>1. /\ Len(session.reqs) = 0 /\ Len(session.waits) = 0 /\ Len(wire.answers) = 0
        /\ Len(server.resps) = 0 /\ One(server.sending) = 0 /\ One(session.sending) = 0
    BY <1>1 DEF One
  <2> HIDE DEF CallsInit, Connects
  <2>2. LastSent(0) = 0
    BY <2>1 DEF LastSent
  <2>3. LastAnswered(0) = 0
    BY <2>1, <2>2 DEF LastAnswered
  <2>4. Done(0) = 0
    BY <2>1, <2>3 DEF Done
  <2> QED BY <2>1, <2>2, <2>3, <2>4 DEF LastServed
<1>6. CallsMade(0)
  BY DEF CallsMade, Call
<1>7. ClientLists(0) /\ ServerLists(0)
  BY <1>1, <1>5 DEF ClientLists, ServerLists, After, Call
<1>8. Results(0)
  BY <1>5 DEF Results, Call
<1> QED BY <1>2, <1>3, <1>4, <1>6, <1>7, <1>8 DEF CallsInv, Numbered

LEMMA StutterCalls ==
  ASSUME CallsInv, UNCHANGED callsVars PROVE CallsInv'
<1>1. PICK p \in 0 .. MaxCalls : Numbered(p)
  BY DEF CallsInv
<1> USE DEF callsVars
<1>2. CallsTypeOK' /\ SendsRight' /\ fault' = {}
  BY DEF CallsInv, CallsTypeOK, SendsRight
<1>3. CallsMade(p)'
  BY <1>1 DEF Numbered, CallsMade
<1>4. ClientLists(p)' /\ ServerLists(p)' /\ Results(p)'
  BY <1>1, ListsKept
<1> QED BY <1>2, <1>3, <1>4 DEF CallsInv, Numbered

LEMMA StepCalls ==
  ASSUME CallsInv, [CallsNext]_callsVars PROVE CallsInv'
<1>1. CASE Caller
  BY <1>1, StepConnectAdd, StepConnectDone, StepCallPush, StepCallPost, StepTold,
     StepDrop DEF Caller
<1>2. CASE Io
  BY <1>2, StepCloseCallback, StepPosted, StepSent, StepSendFails, StepAnswer,
     StepRecvFails DEF Io
<1>3. CASE Server
  BY <1>3, StepServe, StepServerSent, StepServerLost DEF Server
<1>4. CASE Break
  BY <1>4, StepBreak
<1>5. CASE UNCHANGED callsVars
  BY <1>5, StutterCalls
<1> QED BY <1>1, <1>2, <1>3, <1>4, <1>5 DEF CallsNext

THEOREM CallsInvariant == CallsSpec => []CallsInv
BY InitCalls, StepCalls, PTL DEF CallsSpec

\* At either end at most one message is being sent, every answer finds its own
\* request first among those that wait, and a session that is closed tells
\* every call it has in hand.
THEOREM CallsAreSafe == CallsSpec => []CallsSafe
<1>1. CallsInv => CallsSafe
  <2> SUFFICES ASSUME CallsInv PROVE CallsSafe
    OBVIOUS
  <2>1. CallsTypeOK /\ OneInFlight /\ AnswersMatch
    BY DEF CallsInv, OneInFlight, AnswersMatch
  <2>2. LostTold
    <3>1. PICK p \in 0 .. MaxCalls : Numbered(p)
      BY DEF CallsInv
    <3> SUFFICES ASSUME session.isClose, caller.at = "waiting", caller.call \notin late
                 PROVE  item[caller.call].status # "null"
      BY DEF LostTold
    <3>2. caller.call = p /\ p > 0 /\ p \in Call
      BY <3>1, RpcAssumption DEF Numbered, CallsMade, Call
    <3>3. p <= p
      BY RpcAssumption
    <3> QED BY <3>1, <3>2, <3>3 DEF Numbered, Results
  <2> QED BY <2>1, <2>2 DEF CallsSafe
<1> QED BY <1>1, CallsInvariant, PTL

-----------------------------------------------------------------------------
(* Every step is a step of Rpc.                                            *)

\* What a caller is told is the truth, so that the outcome of a call follows
\* from what it was told.
KnownOutcome ==
  [n \in Call |->
     IF got[n] = "ok" THEN "result"
     ELSE IF got[n] # "nothing" THEN got[n]
     ELSE IF caller.call = n /\ caller.at \in {"pushed", "waiting"} THEN "called"
     ELSE "new"]

OutcomeRight == Outcome = KnownOutcome

LEMMA OutcomeKnown == CallsInv => OutcomeRight
<1> SUFFICES ASSUME CallsInv PROVE Outcome = KnownOutcome
  BY DEF OutcomeRight
<1>1. PICK p \in 0 .. MaxCalls : Numbered(p)
  BY DEF CallsInv
<1> SUFFICES ASSUME NEW n \in Call PROVE Outcome[n] = KnownOutcome[n]
  BY DEF Outcome, KnownOutcome
<1>2. /\ got[n] \in {"nothing", "ok", "error", "timeout", "refused"}
      /\ got[n] = "ok" => item[n].of = n
      /\ got[n] # "nothing" => ~(caller.call = n /\ caller.at \in {"pushed", "waiting"})
  BY <1>1 DEF CallsInv, CallsTypeOK, Numbered, Results, CallsMade
<1>3. CASE got[n] = "ok"
  BY <1>2, <1>3 DEF Outcome, KnownOutcome
<1>4. CASE got[n] = "nothing"
  BY <1>4 DEF Outcome, KnownOutcome
<1>5. CASE got[n] \in {"error", "timeout", "refused"}
  BY <1>2, <1>5 DEF Outcome, KnownOutcome
<1> QED BY <1>2, <1>3, <1>4, <1>5

LEMMA OutcomesKnown ==
  CallsInv /\ CallsInv' => Outcome = KnownOutcome /\ Outcome' = KnownOutcome'
<1>1. CallsInv /\ CallsInv' => OutcomeRight /\ OutcomeRight'
  BY OutcomeKnown, PTL
<1> QED BY <1>1 DEF OutcomeRight

\* A step that tells the caller nothing and makes no call changes no outcome.
LEMMA OutcomeKept ==
  ASSUME CallsInv, CallsInv', got' = got,
         caller'.call = caller.call,
         caller'.at \in {"pushed", "waiting"} <=> caller.at \in {"pushed", "waiting"}
  PROVE  Outcome' = Outcome
<1>1. Outcome = KnownOutcome /\ Outcome' = KnownOutcome'
  BY OutcomesKnown
<1>2. KnownOutcome' = KnownOutcome
  BY DEF KnownOutcome
<1> QED BY <1>1, <1>2

\* A call that is made is a call, or refused.
LEMMA PushImplements ==
  ASSUME CallsInv, CallsInv', CallPush
  PROVE  \E n \in Call : Abstract!Make(n) \/ Abstract!Refuse(n)
<1> DEFINE n == caller.call + 1
<1>1. PICK p \in 0 .. MaxCalls : Numbered(p)
  BY DEF CallsInv
<1>2. /\ n \in Call /\ caller.at = "idle" /\ caller.call \in Nat /\ got[n] = "nothing"
      /\ UNCHANGED runs
  BY <1>1, RpcAssumption
     DEF CallPush, serverSide, CallsInv, CallsTypeOK, CallerType, Numbered, CallsMade, Call
<1>3. Outcome = KnownOutcome /\ Outcome' = KnownOutcome'
  BY OutcomesKnown
<1>4. Outcome[n] = "new"
  BY <1>2, <1>3 DEF KnownOutcome
<1>5. got \in [Call -> {"nothing", "ok", "error", "timeout", "refused"}]
  BY DEF CallsInv, CallsTypeOK
<1>6. CASE session.kept
  <2>1. caller' = [at |-> "pushed", call |-> n] /\ got' = got
    BY <1>6 DEF CallPush
  <2>2. KnownOutcome' = [KnownOutcome EXCEPT ![n] = "called"]
    BY <1>2, <2>1 DEF KnownOutcome
  <2> QED BY <1>2, <1>3, <1>4, <2>2 DEF Abstract!Make
<1>7. CASE ~session.kept
  <2>1. caller' = [at |-> "idle", call |-> n] /\ got' = [got EXCEPT ![n] = "refused"]
    BY <1>7 DEF CallPush
  <2>2. KnownOutcome' = [KnownOutcome EXCEPT ![n] = "refused"]
    BY <1>2, <1>5, <2>1 DEF KnownOutcome
  <2> QED BY <1>2, <1>3, <1>4, <2>2 DEF Abstract!Refuse
<1> QED BY <1>2, <1>6, <1>7

\* A call ends with a result, which is its own and of a call that has run, or
\* the caller gives it up.
LEMMA ToldImplements ==
  ASSUME CallsInv, CallsInv', CallReturn \/ CallTimeout
  PROVE  \E n \in Call : Abstract!Result(n) \/ Abstract!GiveUp(n)
<1> DEFINE n == caller.call
<1>1. PICK p \in 0 .. MaxCalls : Numbered(p)
  BY DEF CallsInv
<1>2. caller.at = "waiting" /\ n = p /\ n \in Call /\ got[n] = "nothing"
  BY <1>1 DEF CallReturn, CallTimeout, CallsInv, CallsTypeOK, CallerType, Numbered, CallsMade, Call
<1>3. PICK s \in {"ok", "error", "timeout"} : Told(s) /\ (s = "ok" => item[n].status = "ok")
  BY <1>2 DEF CallReturn, CallTimeout, CallsInv, CallsTypeOK, ItemType
<1>4. /\ caller'.at = "idle" /\ caller'.call = n /\ got' = [got EXCEPT ![n] = s]
      /\ UNCHANGED runs
  BY <1>3 DEF Told, serverSide, CallsInv, CallsTypeOK, CallerType
<1>5. Outcome = KnownOutcome /\ Outcome' = KnownOutcome'
  BY OutcomesKnown
<1>6. Outcome[n] = "called"
  BY <1>2, <1>5 DEF KnownOutcome
<1>7. got \in [Call -> {"nothing", "ok", "error", "timeout", "refused"}]
  BY DEF CallsInv, CallsTypeOK
<1>8. CASE s = "ok"
  <2>1. runs[n] = 1
    BY <1>1, <1>2, <1>3, <1>8 DEF Numbered, Results
  <2>2. KnownOutcome' = [KnownOutcome EXCEPT ![n] = "result"]
    BY <1>2, <1>4, <1>7, <1>8 DEF KnownOutcome
  <2>3. Abstract!Result(n)
    BY <1>4, <1>5, <1>6, <2>1, <2>2 DEF Abstract!Result
  <2> QED BY <1>2, <2>3
<1>9. CASE s \in {"error", "timeout"}
  <2>1. KnownOutcome' = [KnownOutcome EXCEPT ![n] = s]
    BY <1>2, <1>4, <1>7, <1>9 DEF KnownOutcome
  <2>2. Abstract!GiveUp(n)
    BY <1>4, <1>5, <1>6, <1>9, <2>1 DEF Abstract!GiveUp
  <2> QED BY <1>2, <2>2
<1> QED BY <1>3, <1>8, <1>9

\* What the server runs was called and not refused, and runs for the first
\* time, after every call before it and before every one behind.
LEMMA ServeImplements ==
  ASSUME CallsInv, CallsInv', Serve
  PROVE  \E n \in Call : Abstract!Run(n)
<1> DEFINE n == Head(wire.requests)
<1>1. PICK p \in 0 .. MaxCalls : Numbered(p)
  BY DEF CallsInv
<1>2. /\ n \in Call /\ n <= p /\ \A m \in Call : m >= n => runs[m] = 0
      /\ runs' = [runs EXCEPT ![n] = runs[n] + 1]
      /\ UNCHANGED <<caller, got>>
  BY <1>1, RequestNext DEF Serve
<1>3. runs[n] = 0 /\ runs' = [runs EXCEPT ![n] = 1]
  <2>1. n >= n
    BY <1>2 DEF Call
  <2>2. runs[n] = 0
    BY <1>2, <2>1
  <2>3. runs[n] + 1 = 1
    BY <2>2
  <2> QED BY <1>2, <2>2, <2>3
<1>4. Outcome = KnownOutcome /\ Outcome' = Outcome
  BY <1>2, OutcomeKept, OutcomesKnown
<1>5. Outcome[n] \notin {"new", "refused"}
  <2>1. got[n] # "refused" /\ n <= caller.call
    <3>1. p \in Int /\ caller.call \in Int /\ p <= caller.call
      BY <1>1, RpcAssumption DEF CallsInv, CallsTypeOK, CallerType, Numbered, CallsMade
    <3> QED BY <1>1, <1>2, <3>1 DEF Numbered, CallsMade, Call
  <2>2. got[n] = "nothing" => caller.call = n /\ caller.at \in {"pushed", "waiting"}
    <3>1. ~(n > caller.call)
      BY <1>2, <2>1 DEF CallsInv, CallsTypeOK, CallerType, Call
    <3> QED BY <1>1, <1>2, <3>1 DEF Numbered, CallsMade
  <2>3. got[n] # "new"
    BY <1>2 DEF CallsInv, CallsTypeOK
  <2> QED BY <1>2, <1>4, <2>1, <2>2, <2>3 DEF KnownOutcome
<1> QED BY <1>2, <1>3, <1>4, <1>5 DEF Abstract!Run

LEMMA StepImplements ==
  CallsInv /\ CallsInv' /\ [CallsNext]_callsVars
    => [Abstract!RpcNext]_<<Outcome, runs>>
<1> SUFFICES ASSUME CallsInv, CallsInv', [CallsNext]_callsVars
             PROVE  Abstract!RpcNext \/ UNCHANGED <<Outcome, runs>>
  OBVIOUS
<1>1. CASE CallPush
  BY <1>1, PushImplements DEF Abstract!RpcNext
<1>2. CASE CallReturn \/ CallTimeout
  BY <1>2, ToldImplements DEF Abstract!RpcNext
<1>3. CASE Serve
  BY <1>3, ServeImplements DEF Abstract!RpcNext
<1>4. CASE ConnectAdd \/ ConnectDone \/ CallPost \/ Drop
  <2>1. /\ caller \in CallerType /\ UNCHANGED <<got, runs>>
        /\ \E at \in {"added", "idle", "waiting", "gone"} :
             /\ caller' = [caller EXCEPT !.at = at]
             /\ at = "waiting" <=> caller.at = "pushed"
        /\ caller.at # "waiting"
    BY <1>4 DEF ConnectAdd, ConnectDone, CallPost, Drop, serverSide, CallsInv, CallsTypeOK
  <2>2. /\ caller'.call = caller.call
        /\ caller'.at \in {"pushed", "waiting"} <=> caller.at \in {"pushed", "waiting"}
    BY <2>1 DEF CallerType
  <2> QED BY <2>1, <2>2, OutcomeKept
<1>5. CASE Io \/ ServerSent \/ ServerLost \/ Break \/ UNCHANGED callsVars
  <2>1. UNCHANGED <<caller, got, runs>>
    BY <1>5 DEF Io, CloseCallback, Posted, Sent, SendFails, Answer, RecvFails,
       ServerSent, ServerLost, Break, clientSide, serverSide, callsVars
  <2> QED BY <2>1, OutcomeKept
<1> QED BY <1>1, <1>2, <1>3, <1>4, <1>5 DEF CallsNext, Caller, Server

\* The calls of a client are remote calls as Rpc has them: each runs at most
\* once and in the order of the calls, a result is the call's own and of a call
\* that has run, and what was refused never runs.
THEOREM CallsImplementRpc == CallsSpec => ImplementsRpc
<1>1. CallsInit => Abstract!RpcInit
  <2> SUFFICES ASSUME CallsInit PROVE Abstract!RpcInit
    OBVIOUS
  <2>1. Outcome = [n \in Call |-> "new"]
    BY DEF CallsInit, Connects, Outcome
  <2> QED BY <2>1 DEF CallsInit, Connects, Abstract!RpcInit
<1> QED BY <1>1, StepImplements, CallsInvariant, PTL
        DEF CallsSpec, ImplementsRpc, Abstract!RpcSpec, Abstract!rpcVars

==============================================================================
