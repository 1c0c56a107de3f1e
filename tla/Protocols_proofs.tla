--------------------------- MODULE Protocols_proofs ---------------------------
(***************************************************************************)
(* Protocols at the sessions of a server and at a client.  A socket of     *)
(* socket.io is told what it was given, in order, and an event for rooms   *)
(* once.  A websocket session gives out the frames of its peer however the *)
(* stream was cut, by an invariant that follows the parser along the bytes *)
(* that are still to come.  The client of a redis cluster asks the master  *)
(* it was last told of.  A connection of the HTTP server answers each      *)
(* request once, whole and in order, and ends in the known ways only.  A   *)
(* request of the HTTP client goes out in order to its end, and its answer *)
(* is read as it was sent however it was cut.                              *)
(***************************************************************************)
EXTENDS SocketIo, WebSocket, RedisCluster, HttpServer, HttpClient, FiniteSetTheorems, SequenceTheorems,
        NaturalsInduction, WellFoundedInduction, TLAPS

-----------------------------------------------------------------------------
(* The sockets of socket.io.                                               *)

SioPacket == [type : {"connect", "error", "event", "pong", "close"}, n : Nat]

Socket ==
  [registered : BOOLEAN, connect_ack : BOOLEAN, upgrade : BOOLEAN, is_close : BOOLEAN, nsp : Namespaces,
   packets : Seq(SioPacket), is_send : BOOLEAN, timer : BOOLEAN, rooms : SUBSET RoomNames, polling : BOOLEAN,
   due : BOOLEAN, told : Seq(SioPacket), given : Seq(SioPacket), closed : Nat]

\* What holds of each socket.  A request that can be taken leaves nothing to
\* wait, and a poll is due while its request can be taken, or for ever when the
\* socket has gone, of which nothing is left.
SocketOK(k) ==
  /\ k \in Socket
  /\ k.told \o k.packets = k.given
  /\ ~k.upgrade /\ k.polling => k.packets = <<>>
  /\ k.due /\ k.registered => k.polling /\ ~k.upgrade
  /\ k.due => k.connect_ack \/ k.closed = 1
  /\ k.is_send => k.upgrade
  /\ k.closed <= (IF k.registered THEN 0 ELSE 1)
  /\ ~k.registered => k.packets = <<>> /\ k.given = <<>> /\ ~k.upgrade

\* Every event a socket was given is one of the e that were emitted, and those
\* for rooms were given to it once.
Once(k, e, once) ==
  /\ \A i \in DOMAIN k.given : k.given[i].type = "event" => k.given[i].n <= e
  /\ \A n \in once : \A i, j \in DOMAIN k.given :
       k.given[i] = Packet("event", n) /\ k.given[j] = Packet("event", n) => i = j

SioInv ==
  /\ socks \in [Sockets -> Socket]
  /\ \A s \in Sockets : SocketOK(socks[s]) /\ Once(socks[s], emits, toRooms)
  /\ members \subseteq Namespaces \X RoomNames \X Sockets
  /\ running = {} \/ \E s \in Sockets : running = {s} /\ socks[s].registered
  /\ emits \in 0 .. MaxEmits /\ toRooms \subseteq 1 .. emits /\ asks \in 0 .. MaxAsks

-----------------------------------------------------------------------------
(* What the operations on a socket make of it.                             *)

LEMMA NewSocketOK ==
  /\ SocketOK(NewSocket)
  /\ \A e \in Nat : \A once : Once(NewSocket, e, once)
<1>1. NewSocket \in Socket
  BY SioAssumption DEF NewSocket, Socket
<1>2. NewSocket.told \o NewSocket.packets = NewSocket.given
  BY DEF NewSocket
<1>3. /\ NewSocket.given = <<>> /\ NewSocket.packets = <<>> /\ ~NewSocket.due /\ ~NewSocket.is_send
      /\ ~NewSocket.polling /\ NewSocket.closed = 0 /\ ~NewSocket.registered /\ ~NewSocket.upgrade
  BY DEF NewSocket
<1> QED BY <1>1, <1>2, <1>3 DEF SocketOK, Once

\* k becomes e, which was given what k was given, and then p.
Given(k, e, p) ==
  /\ e.given = Append(k.given, p) /\ e.registered = k.registered
  /\ e.nsp = k.nsp /\ e.rooms = k.rooms /\ e.connect_ack = k.connect_ack
  /\ e.closed = k.closed /\ e.upgrade = k.upgrade /\ e.is_close = k.is_close
  /\ e.polling = k.polling

LEMMA AppendTold ==
  ASSUME NEW S, NEW t \in Seq(S), NEW w \in Seq(S), NEW p \in S
  PROVE  /\ t \o Append(w, p) = Append(t \o w, p)
         /\ w = <<>> => (t \o <<p>>) \o w = Append(t \o w, p)
         /\ (t \o w) \o <<>> = t \o w
<1>1. t \o Append(w, p) = Append(t \o w, p)
  <2>1. Append(w, p) = w \o <<p>> /\ Append(t \o w, p) = (t \o w) \o <<p>>
    BY AppendIsConcat, ConcatProperties
  <2> QED BY <2>1, ConcatAssociative, <<p>> \in Seq(S)
<1>2. w = <<>> => (t \o <<p>>) \o w = Append(t \o w, p)
  <2>1. t \o <<>> = t /\ (t \o <<p>>) \o <<>> = t \o <<p>>
    BY ConcatEmptySeq, ConcatProperties, <<p>> \in Seq(S)
  <2>2. Append(t, p) = t \o <<p>>
    BY AppendIsConcat
  <2> QED BY <2>1, <2>2
<1>3. (t \o w) \o <<>> = t \o w
  BY ConcatEmptySeq, ConcatProperties
<1> QED BY <1>1, <1>2, <1>3

LEMMA SendPacketOK ==
  ASSUME NEW k, SocketOK(k), k.registered, NEW p \in SioPacket
  PROVE  SocketOK(SendPacket(k, p)) /\ Given(k, SendPacket(k, p), p)
<1> DEFINE g == [k EXCEPT !.given = Append(@, p)]
           e == SendPacket(k, p)
<1>1. /\ k \in Socket /\ k.told \in Seq(SioPacket) /\ k.packets \in Seq(SioPacket) /\ k.given \in Seq(SioPacket)
      /\ Append(k.given, p) \in Seq(SioPacket) /\ k.told \o <<p>> \in Seq(SioPacket)
      /\ Append(k.packets, p) \in Seq(SioPacket)
  BY DEF SocketOK, Socket
<1>2. /\ g \in Socket /\ g.given = Append(k.given, p)
      /\ g.told = k.told /\ g.packets = k.packets /\ g.upgrade = k.upgrade /\ g.polling = k.polling
      /\ g.is_send = k.is_send /\ g.due = k.due
      /\ g.registered = k.registered /\ g.nsp = k.nsp /\ g.rooms = k.rooms /\ g.connect_ack = k.connect_ack
      /\ g.closed = k.closed /\ g.is_close = k.is_close
  BY <1>1 DEF Socket
<1>0. /\ k.told \o Append(k.packets, p) = Append(k.given, p)
      /\ k.packets = <<>> => (k.told \o <<p>>) \o k.packets = Append(k.given, p)
  <2> DEFINE t == k.told
             w == k.packets
  <2>1. k.given = t \o w /\ t \in Seq(SioPacket) /\ w \in Seq(SioPacket)
    BY <1>1 DEF SocketOK
  <2> HIDE DEF t, w
  <2>2. t \o Append(w, p) = Append(t \o w, p) /\ (w = <<>> => (t \o <<p>>) \o w = Append(t \o w, p))
    BY <2>1, AppendTold, Zenon
  <2> QED BY <2>1, <2>2 DEF t, w
<1>3. e = CASE ~g.upgrade /\ g.polling -> Respond(g, <<p>>)
            [] g.upgrade /\ g.packets = <<>> /\ ~g.is_send -> SendFrame(g, <<p>>)
            [] OTHER -> [g EXCEPT !.packets = Append(@, p)]
  BY DEF SendPacket
<1> HIDE DEF g, e
<1>4. CASE ~g.upgrade /\ g.polling
  <2>1. e = [g EXCEPT !.told = @ \o <<p>>, !.due = FALSE]
    BY <1>3, <1>4 DEF Respond
  <2>2. /\ e \in Socket /\ Given(k, e, p) /\ e.told = k.told \o <<p>> /\ e.packets = k.packets
        /\ ~e.due /\ e.is_send = k.is_send
    BY <1>1, <1>2, <2>1 DEF Socket, Given
  <2>3. k.packets = <<>>
    BY <1>2, <1>4 DEF SocketOK
  <2>4. e.told \o e.packets = e.given
    BY <1>0, <2>2, <2>3 DEF Given
  <2> QED BY <2>2, <2>3, <2>4 DEF SocketOK, Given, e
<1>5. CASE ~(~g.upgrade /\ g.polling) /\ g.upgrade /\ g.packets = <<>> /\ ~g.is_send
  <2>1. e = [g EXCEPT !.told = @ \o <<p>>, !.is_send = TRUE]
    BY <1>3, <1>5 DEF SendFrame
  <2>2. /\ e \in Socket /\ Given(k, e, p) /\ e.told = k.told \o <<p>> /\ e.packets = k.packets
        /\ e.due = k.due /\ e.is_send
    BY <1>1, <1>2, <2>1 DEF Socket, Given
  <2>4. e.told \o e.packets = e.given
    BY <1>0, <1>2, <1>5, <2>2 DEF Given
  <2> QED BY <1>2, <1>5, <2>2, <2>4 DEF SocketOK, Given, e
<1>6. CASE ~(~g.upgrade /\ g.polling) /\ ~(g.upgrade /\ g.packets = <<>> /\ ~g.is_send)
  <2>1. e = [g EXCEPT !.packets = Append(@, p)]
    BY <1>3, <1>6
  <2>2. /\ e \in Socket /\ Given(k, e, p) /\ e.told = k.told /\ e.packets = Append(k.packets, p)
        /\ e.due = k.due /\ e.is_send = k.is_send
    BY <1>1, <1>2, <2>1 DEF Socket, Given
  <2>4. e.told \o e.packets = e.given
    BY <1>0, <2>2 DEF Given
  <2> QED BY <1>2, <1>6, <2>2, <2>4 DEF SocketOK, Given, e
<1> QED BY <1>4, <1>5, <1>6

LEMMA FlushOK ==
  ASSUME NEW k, SocketOK(k), k.registered
  PROVE  /\ SocketOK(Flush(k)) /\ Flush(k).registered /\ Flush(k).given = k.given
<1> DEFINE g == [k EXCEPT !.packets = <<>>]
           e == Flush(k)
<1>1. CASE k.packets = <<>>
  BY <1>1 DEF Flush
<1>2. ASSUME k.packets # <<>> PROVE SocketOK(e) /\ e.registered /\ e.given = k.given
  <2>1. /\ k \in Socket /\ k.told \in Seq(SioPacket) /\ k.packets \in Seq(SioPacket)
        /\ k.told \o k.packets \in Seq(SioPacket) /\ <<>> \in Seq(SioPacket)
    BY DEF SocketOK, Socket
  <2>2. /\ g \in Socket /\ g.packets = <<>> /\ g.told = k.told
        /\ g.given = k.given /\ g.upgrade = k.upgrade /\ g.polling = k.polling
        /\ g.is_send = k.is_send /\ g.due = k.due
        /\ g.registered = k.registered /\ g.nsp = k.nsp /\ g.rooms = k.rooms /\ g.connect_ack = k.connect_ack
        /\ g.closed = k.closed /\ g.is_close = k.is_close
    BY <2>1 DEF Socket
  <2>3. e = IF k.upgrade THEN SendFrame(g, k.packets) ELSE Respond(g, k.packets)
    BY <1>2 DEF Flush
  <2>4. (k.told \o k.packets) \o <<>> = k.given
    <3> DEFINE t == k.told
               w == k.packets
    <3>1. k.given = t \o w /\ t \in Seq(SioPacket) /\ w \in Seq(SioPacket)
      BY <2>1 DEF SocketOK
    <3> HIDE DEF t, w
    <3>2. (t \o w) \o <<>> = t \o w
      BY <3>1, ConcatEmptySeq, ConcatProperties, Zenon
    <3> QED BY <3>1, <3>2 DEF t, w
  <2> HIDE DEF g, e
  <2>5. CASE k.upgrade
    <3>1. e = [g EXCEPT !.told = @ \o k.packets, !.is_send = TRUE]
      BY <2>3, <2>5 DEF SendFrame
    <3>2. /\ e \in Socket /\ e.told = k.told \o k.packets /\ e.packets = <<>> /\ e.given = k.given
          /\ e.registered = k.registered /\ e.upgrade = k.upgrade /\ e.due = k.due
          /\ e.connect_ack = k.connect_ack /\ e.closed = k.closed /\ e.polling = k.polling
      BY <2>1, <2>2, <3>1 DEF Socket
    <3> QED BY <2>4, <2>5, <3>2 DEF SocketOK
  <2>6. CASE ~k.upgrade
    <3>1. e = [g EXCEPT !.told = @ \o k.packets, !.due = FALSE]
      BY <2>3, <2>6 DEF Respond
    <3>2. /\ e \in Socket /\ e.told = k.told \o k.packets /\ e.packets = <<>> /\ e.given = k.given
          /\ e.registered = k.registered /\ e.upgrade = k.upgrade /\ ~e.due /\ e.is_send = k.is_send
          /\ e.connect_ack = k.connect_ack /\ e.closed = k.closed /\ e.polling = k.polling
      BY <2>1, <2>2, <3>1 DEF Socket
    <3> QED BY <2>4, <2>6, <3>2 DEF SocketOK
  <2> QED BY <2>5, <2>6
<1> QED BY <1>1, <1>2 DEF e

LEMMA OnCloseOK ==
  ASSUME NEW k, SocketOK(k), k.registered
  PROVE  SocketOK(OnClose_(k)) /\ OnClose_(k).given = <<>>
<1> DEFINE n == k.closed + (IF k.connect_ack THEN 1 ELSE 0)
           e == OnClose_(k)
<1>1. k \in Socket /\ k.closed = 0 /\ n \in Nat /\ n <= 1 /\ k.due \in BOOLEAN /\ (k.due => n = 1)
  BY DEF SocketOK, Socket
<1>2. NewSocket \in Socket
  BY NewSocketOK DEF SocketOK
<1> HIDE DEF n, e
<1>3. e = [NewSocket EXCEPT !.closed = n, !.due = k.due]
  BY DEF OnClose_, n, e
<1>4. e \in Socket /\ e.closed = n /\ e.due = k.due
  BY <1>1, <1>2, <1>3 DEF Socket
<1>5. /\ e.packets = <<>> /\ e.given = <<>> /\ e.told = <<>> /\ ~e.upgrade /\ ~e.registered /\ ~e.is_send
      /\ ~e.polling
  BY <1>3 DEF NewSocket
<1>6. e.told \o e.packets = e.given
  BY <1>5
<1> QED BY <1>1, <1>4, <1>5, <1>6 DEF SocketOK, e

\* k with its flags and its namespace or rooms changed.
LEMMA EventOK ==
  ASSUME NEW k, SocketOK(k), k.registered
  PROVE  /\ SocketOK([k EXCEPT !.timer = TRUE]) /\ SocketOK([k EXCEPT !.is_close = TRUE])
         /\ \A n \in Namespaces : SocketOK([k EXCEPT !.nsp = n])
         /\ \A R \in SUBSET RoomNames : SocketOK([k EXCEPT !.rooms = R])
         /\ SocketOK([k EXCEPT !.connect_ack = TRUE])
         /\ SocketOK([k EXCEPT !.polling = FALSE, !.due = FALSE])
         /\ SocketOK([k EXCEPT !.is_send = FALSE])
<1>1. k \in Socket
  BY DEF SocketOK
<1>2. SocketOK([k EXCEPT !.timer = TRUE])
  BY <1>1 DEF SocketOK, Socket
<1>3. SocketOK([k EXCEPT !.is_close = TRUE])
  BY <1>1 DEF SocketOK, Socket
<1>4. \A n \in Namespaces : SocketOK([k EXCEPT !.nsp = n])
  BY <1>1 DEF SocketOK, Socket
<1>5. \A R \in SUBSET RoomNames : SocketOK([k EXCEPT !.rooms = R])
  BY <1>1 DEF SocketOK, Socket
<1>6. SocketOK([k EXCEPT !.connect_ack = TRUE])
  BY <1>1 DEF SocketOK, Socket
<1>7. SocketOK([k EXCEPT !.polling = FALSE, !.due = FALSE])
  BY <1>1 DEF SocketOK, Socket
<1>8. SocketOK([k EXCEPT !.is_send = FALSE])
  BY <1>1 DEF SocketOK, Socket
<1> QED BY <1>2, <1>3, <1>4, <1>5, <1>6, <1>7, <1>8

-----------------------------------------------------------------------------
(* Which packets a socket was given.                                       *)

LEMMA OnceSame ==
  ASSUME NEW k, NEW e, NEW j, NEW once, Once(k, e, once), j.given = k.given \/ j.given = <<>>
  PROVE  Once(j, e, once)
BY DEF Once

LEMMA OnceMore ==
  ASSUME NEW k \in Socket, NEW e \in Nat, NEW once, Once(k, e, once)
  PROVE  Once(k, e + 1, once) /\ Once(k, e + 1, once \cup {e + 1})
<1>1. \A i \in DOMAIN k.given : k.given[i] \in SioPacket
  BY DEF Socket
<1>2. \A i \in DOMAIN k.given : k.given[i].type = "event" => k.given[i].n <= e + 1 /\ k.given[i].n # e + 1
  BY <1>1 DEF Once, SioPacket
<1>3. \A i \in DOMAIN k.given : k.given[i] # Packet("event", e + 1)
  BY <1>2 DEF Packet
<1> QED BY <1>2, <1>3 DEF Once

LEMMA OnceGiven ==
  ASSUME NEW k \in Socket, NEW e \in Nat, NEW once, Once(k, e, once), NEW p \in SioPacket, NEW j,
         j.given = Append(k.given, p),
         p.type = "event" => p.n <= e /\ p.n \notin once
  PROVE  Once(j, e, once)
<1> DEFINE g == k.given
           h == j.given
<1>1. /\ g \in Seq(SioPacket) /\ Len(g) \in Nat /\ DOMAIN g = 1 .. Len(g) /\ DOMAIN h = 1 .. (Len(g) + 1)
      /\ \A i \in 1 .. Len(g) : h[i] = g[i]
      /\ h[Len(g) + 1] = p
  BY DEF Socket
<1> HIDE DEF g, h
<1>2. /\ \A i \in 1 .. Len(g) : g[i].type = "event" => g[i].n <= e
      /\ \A n \in once : \A x, y \in 1 .. Len(g) : g[x] = Packet("event", n) /\ g[y] = Packet("event", n) => x = y
  BY <1>1 DEF Once, g
<1>3. \A i \in DOMAIN h : i \in 1 .. Len(g) \/ i = Len(g) + 1
  BY <1>1
<1>4. ASSUME NEW i \in DOMAIN h, h[i].type = "event" PROVE h[i].n <= e
  BY <1>1, <1>2, <1>3, <1>4
<1>5. ASSUME NEW n \in once PROVE p # Packet("event", n)
  BY <1>5 DEF Packet
<1>6. ASSUME NEW n \in once, NEW x \in DOMAIN h, NEW y \in DOMAIN h, h[x] = Packet("event", n), h[y] = Packet("event", n)
      PROVE  x = y
  BY <1>1, <1>2, <1>3, <1>5, <1>6
<1> QED BY <1>4, <1>6 DEF Once, h

LEMMA EventPacket ==
  ASSUME NEW n \in Nat
  PROVE  Packet("event", n) \in SioPacket /\ Packet("event", n).type = "event" /\ Packet("event", n).n = n
BY DEF SioPacket, Packet

\* The packet that is emitted next, which nobody was given.
LEMMA OnceNext ==
  ASSUME NEW k \in Socket, NEW e \in Nat, NEW once \in SUBSET (1 .. e), Once(k, e, once), NEW j,
         j.given = Append(k.given, Packet("event", e + 1))
  PROVE  Once(j, e + 1, once) /\ Once(j, e + 1, once \cup {e + 1})
<1> DEFINE g == k.given
           h == j.given
           p == Packet("event", e + 1)
<1>0. p \in SioPacket /\ p.type = "event" /\ p.n = e + 1
  BY EventPacket
<1>1. /\ g \in Seq(SioPacket) /\ Len(g) \in Nat /\ DOMAIN g = 1 .. Len(g) /\ DOMAIN h = 1 .. (Len(g) + 1)
      /\ \A i \in 1 .. Len(g) : h[i] = g[i] /\ g[i] \in SioPacket
      /\ h[Len(g) + 1] = p
  <2>1. g \in Seq(SioPacket) /\ h = Append(g, p)
    BY DEF Socket
  <2> HIDE DEF g, h, p
  <2> QED BY <2>1, <1>0
<1>2. Once(j, e + 1, once)
  <2>1. Once(k, e + 1, once)
    BY OnceMore
  <2>3. e + 1 \in Nat
    OBVIOUS
  <2>0. e + 1 \notin once
    <3>1. e + 1 \notin 1 .. e
      OBVIOUS
    <3> QED BY <3>1, Zenon
  <2>2. j.given = Append(k.given, p)
    OBVIOUS
  <2> HIDE DEF p
  <2> QED BY <1>0, <2>0, <2>1, <2>2, <2>3, OnceGiven
<1>3. \A i \in 1 .. Len(g) : g[i].type = "event" => g[i].n <= e
  BY <1>1 DEF Once, g
<1> HIDE DEF g, h, p
<1>4. \A i \in 1 .. Len(g) : h[i] # p
  BY <1>0, <1>1, <1>3
<1>5. ASSUME NEW x \in DOMAIN h, NEW y \in DOMAIN h, h[x] = p, h[y] = p PROVE x = y
  BY <1>1, <1>4, <1>5
<1>6. \A x, y \in DOMAIN h : h[x] = Packet("event", e + 1) /\ h[y] = Packet("event", e + 1) => x = y
  BY <1>5 DEF p
<1> QED BY <1>2, <1>6 DEF Once, h

-----------------------------------------------------------------------------
(* Steps of one socket.                                                    *)

LEMMA ChangeOne ==
  ASSUME SioInv, NEW s \in Sockets, NEW k, SocketOK(k), Once(k, emits', toRooms), Change(s, k),
         \/ emits' = emits
         \/ emits < MaxEmits /\ emits' = emits + 1,
         UNCHANGED toRooms,
         members' \subseteq Namespaces \X RoomNames \X Sockets,
         running' = {} \/ (running' = {s} /\ k.registered),
         asks' = asks \/ (asks < MaxAsks /\ asks' = asks + 1)
  PROVE  SioInv'
<1>1. socks' \in [Sockets -> Socket] /\ socks'[s] = k /\ \A t \in Sockets \ {s} : socks'[t] = socks[t]
  BY DEF SioInv, SocketOK, Change
<1>2. emits \in Nat /\ emits' \in 0 .. MaxEmits /\ asks' \in 0 .. MaxAsks /\ toRooms' \subseteq 1 .. emits'
  BY SioAssumption DEF SioInv
<1>3. ASSUME NEW t \in Sockets PROVE SocketOK(socks'[t]) /\ Once(socks'[t], emits', toRooms)
  <2>1. CASE t = s
    BY <1>1, <2>1
  <2>2. CASE t # s
    <3>1. socks'[t] = socks[t] /\ SocketOK(socks[t]) /\ Once(socks[t], emits, toRooms) /\ socks[t] \in Socket
      BY <1>1, <2>2 DEF SioInv, SocketOK
    <3>2. Once(socks[t], emits + 1, toRooms)
      BY <1>2, <3>1, OnceMore
    <3> QED BY <3>1, <3>2
  <2> QED BY <2>1, <2>2
<1>4. running' = {} \/ \E t \in Sockets : running' = {t} /\ socks'[t].registered
  BY <1>1
<1> QED BY <1>1, <1>2, <1>3, <1>4 DEF SioInv

LEMMA SocketOf ==
  ASSUME SioInv, NEW s \in Sockets
  PROVE  /\ SocketOK(socks[s]) /\ socks[s] \in Socket /\ Once(socks[s], emits, toRooms)
         /\ emits \in Nat /\ toRooms \in SUBSET (1 .. emits)
         /\ members \subseteq Namespaces \X RoomNames \X Sockets
         /\ asks \in Nat
<1>1. SocketOK(socks[s]) /\ Once(socks[s], emits, toRooms)
  BY DEF SioInv
<1>2. emits \in Nat /\ asks \in Nat
  BY SioAssumption DEF SioInv
<1> QED BY <1>1, <1>2 DEF SioInv, SocketOK

LEMMA NewSessionStep ==
  ASSUME SioInv, NEW s \in Sockets, NewSession(s)
  PROVE  SioInv'
<1> DEFINE k == socks[s]
           e == [k EXCEPT !.registered = TRUE]
<1>1. SocketOK(k) /\ k \in Socket /\ Once(k, emits, toRooms)
  BY SocketOf
<1>2. k.connect_ack = FALSE /\ k.closed = 0 /\ k.told = <<>> /\ k.packets = <<>> /\ k.given = <<>>
      /\ ~k.upgrade /\ ~k.is_send
  BY DEF NewSession, NewSocket
<1>3. ~k.due
  BY <1>1, <1>2 DEF SocketOK
<1> HIDE DEF k
<1>4. SocketOK(e) /\ e.given = k.given
  <2>1. /\ e \in Socket /\ e.told = k.told /\ e.packets = k.packets /\ e.given = k.given
        /\ e.upgrade = k.upgrade /\ e.polling = k.polling /\ e.due = k.due /\ e.is_send = k.is_send
        /\ e.closed = k.closed /\ e.registered /\ e.connect_ack = k.connect_ack
    BY <1>1 DEF Socket
  <2> HIDE DEF e
  <2> QED BY <1>1, <1>2, <1>3, <2>1 DEF SocketOK
<1>5. Once(e, emits, toRooms)
  BY <1>1, <1>4, OnceSame
<1>6. Change(s, e) /\ running' = {} /\ UNCHANGED <<members, emits, toRooms, asks>>
  BY DEF NewSession, Idle, k
<1> HIDE DEF e
<1> QED BY <1>4, <1>5, <1>6, ChangeOne, SocketOf

\* A packet that is no event.
LEMMA PlainPacket ==
  ASSUME NEW n \in Nat, NEW type \in {"connect", "error", "pong", "close"}
  PROVE  Packet(type, n) \in SioPacket /\ Packet(type, n).type # "event"
BY DEF SioPacket, Packet

\* What the answer to a connect makes of a socket, for a packet or for none of
\* the handler.
LEMMA AnsweredOK ==
  ASSUME NEW e, SocketOK(e), e.registered, NEW m \in Nat, NEW once, Once(e, m, once),
         NEW second \in SioPacket, second.type # "event"
  PROVE  LET a == Flush(IF e.nsp = "/" THEN e ELSE SendPacket(e, second))
         IN  SocketOK(a) /\ Once(a, m, once)
<1> DEFINE k == IF e.nsp = "/" THEN e ELSE SendPacket(e, second)
<1>1. SocketOK(k) /\ k.registered /\ Once(k, m, once)
  <2>1. CASE e.nsp = "/"
    BY <2>1
  <2>2. CASE e.nsp # "/"
    <3>1. SocketOK(SendPacket(e, second)) /\ Given(e, SendPacket(e, second), second)
      BY SendPacketOK
    <3>2. e \in Socket
      BY DEF SocketOK
    <3>3. Once(SendPacket(e, second), m, once)
      BY <3>1, <3>2, OnceGiven DEF Given
    <3> QED BY <2>2, <3>1, <3>3 DEF Given
  <2> QED BY <2>1, <2>2
<1> HIDE DEF k
<1>2. SocketOK(Flush(k)) /\ Once(Flush(k), m, once)
  BY <1>1, FlushOK, OnceSame
<1> QED BY <1>2 DEF k

LEMMA ConnectAckStep ==
  ASSUME SioInv, NEW s \in Sockets, ConnectAck(s), socks[s].registered, UNCHANGED <<running, toRooms, asks>>, Idle
  PROVE  SioInv'
<1> DEFINE c == [socks[s] EXCEPT !.connect_ack = TRUE]
           k == SendPacket(c, Packet("connect", 0))
           second == Packet(IF k.nsp \in Known THEN "connect" ELSE "error", 1)
           answered(e) == Flush(IF e.nsp = "/" THEN e ELSE SendPacket(e, second))
           mine == SendPacket(k, Packet("event", emits + 1))
<1>0. /\ SocketOK(socks[s]) /\ socks[s] \in Socket /\ Once(socks[s], emits, toRooms) /\ emits \in Nat
      /\ toRooms \in SUBSET (1 .. emits) /\ members \subseteq Namespaces \X RoomNames \X Sockets
  BY SocketOf
<1>1. SocketOK(c) /\ c.registered /\ c.given = socks[s].given /\ c \in Socket
  <2>1. SocketOK(c)
    BY <1>0, EventOK
  <2>2. c.registered /\ c.given = socks[s].given
    BY <1>0 DEF Socket
  <2> QED BY <2>1, <2>2 DEF SocketOK
<1>2. Once(c, emits, toRooms)
  BY <1>0, <1>1, OnceSame
<1>3. SocketOK(k) /\ k.registered /\ Once(k, emits, toRooms) /\ k \in Socket /\ k.nsp \in Namespaces /\ k.rooms \in SUBSET RoomNames
  <2> HIDE DEF c
  <2>1. Packet("connect", 0) \in SioPacket /\ Packet("connect", 0).type # "event"
    BY PlainPacket
  <2>2. SocketOK(k) /\ Given(c, k, Packet("connect", 0))
    BY <1>1, <2>1, SendPacketOK
  <2>3. Once(k, emits, toRooms)
    BY <1>0, <1>1, <1>2, <2>1, <2>2, OnceGiven DEF Given
  <2> QED BY <1>1, <2>2, <2>3 DEF Given, SocketOK, Socket
<1>4. second \in SioPacket /\ second.type # "event"
  BY PlainPacket
<1>5. running' = {} /\ toRooms' = toRooms /\ asks' = asks
  BY DEF Idle
<1>6. \/ Change(s, answered(k)) /\ UNCHANGED <<members, emits>>
      \/ /\ emits < MaxEmits /\ emits' = emits + 1
         /\ Change(s, answered(mine)) /\ UNCHANGED members
      \/ \E r \in RoomNames :
           /\ members' = members \cup {<<k.nsp, r, s>>}
           /\ Change(s, answered([k EXCEPT !.rooms = @ \cup {r}])) /\ UNCHANGED emits
  BY DEF ConnectAck
<1> HIDE DEF c, k, second
<1>7. ASSUME Change(s, answered(k)) /\ UNCHANGED <<members, emits>> PROVE SioInv'
  <2>1. SocketOK(answered(k)) /\ Once(answered(k), emits, toRooms)
    BY <1>0, <1>3, <1>4, AnsweredOK
  <2> HIDE DEF answered
  <2> QED BY <1>0, <1>5, <1>7, <2>1, ChangeOne
<1>8. ASSUME emits < MaxEmits /\ emits' = emits + 1 /\ Change(s, answered(mine)) /\ UNCHANGED members PROVE SioInv'
  <2>1. Packet("event", emits + 1) \in SioPacket
    BY <1>0, EventPacket
  <2>2. SocketOK(mine) /\ Given(k, mine, Packet("event", emits + 1))
    BY <1>3, <2>1, SendPacketOK
  <2>3. Once(mine, emits + 1, toRooms) /\ mine.registered
    BY <1>0, <1>3, <2>2, OnceNext DEF Given
  <2> HIDE DEF mine
  <2>4. emits + 1 \in Nat
    BY <1>0
  <2>5. SocketOK(answered(mine)) /\ Once(answered(mine), emits + 1, toRooms)
    BY <1>4, <2>2, <2>3, <2>4, AnsweredOK
  <2> HIDE DEF answered
  <2>6. SocketOK(answered(mine)) /\ Once(answered(mine), emits', toRooms)
    BY <1>8, <2>5
  <2> QED BY <1>0, <1>5, <1>8, <2>6, ChangeOne
<1>9. ASSUME NEW r \in RoomNames, members' = members \cup {<<k.nsp, r, s>>},
             Change(s, answered([k EXCEPT !.rooms = @ \cup {r}])), UNCHANGED emits
      PROVE  SioInv'
  <2> DEFINE R == k.rooms \cup {r}
             j == [k EXCEPT !.rooms = R]
  <2>1. R \in SUBSET RoomNames
    BY <1>3
  <2>2. SocketOK(j) /\ j.registered /\ j.given = k.given
    <3> HIDE DEF R
    <3> QED BY <1>3, <2>1, EventOK DEF Socket
  <2>3. Once(j, emits, toRooms)
    BY <1>3, <2>2, OnceSame
  <2>4. j = [k EXCEPT !.rooms = @ \cup {r}]
    OBVIOUS
  <2> HIDE DEF j, R
  <2>5. SocketOK(answered(j)) /\ Once(answered(j), emits, toRooms)
    BY <1>0, <1>4, <2>2, <2>3, AnsweredOK
  <2> HIDE DEF answered
  <2>6. Change(s, answered(j)) /\ members' \subseteq Namespaces \X RoomNames \X Sockets
    BY <1>0, <1>3, <1>9, <2>4
  <2> QED BY <1>0, <1>5, <1>9, <2>5, <2>6, ChangeOne
<1> QED BY <1>6, <1>7, <1>8, <1>9

\* A poll that waits: it takes what there is.
LEMMA PollingOK ==
  ASSUME NEW k, SocketOK(k), k.registered, k.connect_ack, ~k.upgrade, ~k.due
  PROVE  LET e == Flush([k EXCEPT !.polling = TRUE, !.due = TRUE])
         IN  SocketOK(e) /\ e.given = k.given
<1> DEFINE g == [k EXCEPT !.polling = TRUE, !.due = TRUE]
           e == Flush(g)
<1>1. /\ k \in Socket /\ g \in Socket /\ g.told = k.told /\ g.packets = k.packets /\ g.given = k.given
      /\ ~g.upgrade /\ g.polling /\ g.due /\ g.is_send = k.is_send
      /\ g.closed = k.closed /\ g.registered /\ g.connect_ack
  BY DEF SocketOK, Socket
<1> HIDE DEF g
<1>2. CASE k.packets = <<>>
  <2>1. e = g
    BY <1>1, <1>2 DEF Flush
  <2>2. SocketOK(g)
    BY <1>1, <1>2 DEF SocketOK
  <2> QED BY <1>1, <2>1, <2>2 DEF g
<1>3. CASE k.packets # <<>>
  <2> DEFINE f == [k EXCEPT !.polling = FALSE, !.due = FALSE]
  <2>1. SocketOK(f) /\ f.registered /\ f.packets = k.packets /\ f.given = k.given /\ f.told = k.told
    <3>1. SocketOK(f)
      BY EventOK
    <3>2. f.registered /\ f.packets = k.packets /\ f.given = k.given /\ f.told = k.told
      BY <1>1 DEF Socket
    <3> QED BY <3>1, <3>2
  <2> HIDE DEF f
  <2>2. (k.told \o k.packets) \o <<>> = k.given
    <3> DEFINE t == k.told
               w == k.packets
    <3>1. k.given = t \o w /\ t \in Seq(SioPacket) /\ w \in Seq(SioPacket)
      BY <1>1 DEF SocketOK, Socket
    <3> HIDE DEF t, w
    <3>2. (t \o w) \o <<>> = t \o w
      BY <3>1, ConcatEmptySeq, ConcatProperties, Zenon
    <3> QED BY <3>1, <3>2 DEF t, w
  <2>3. k.told \o k.packets \in Seq(SioPacket) /\ <<>> \in Seq(SioPacket)
    BY <1>1 DEF Socket
  <2> DEFINE d == [g EXCEPT !.packets = <<>>]
  <2>4. /\ d \in Socket /\ d.packets = <<>> /\ d.told = k.told
        /\ d.given = k.given /\ ~d.upgrade /\ d.is_send = k.is_send
        /\ d.registered /\ d.connect_ack /\ d.closed = k.closed
    BY <1>1, <2>3 DEF Socket
  <2>5. e = [d EXCEPT !.told = @ \o k.packets, !.due = FALSE]
    BY <1>1, <1>3 DEF Flush, Respond
  <2> HIDE DEF d, e
  <2>6. /\ e \in Socket /\ e.told = k.told \o k.packets /\ e.packets = <<>> /\ e.given = k.given
        /\ ~e.due /\ ~e.upgrade /\ e.is_send = k.is_send /\ e.registered /\ e.connect_ack /\ e.closed = k.closed
    BY <2>3, <2>4, <2>5 DEF Socket
  <2>7. SocketOK(e)
    BY <2>2, <2>6 DEF SocketOK
  <2> QED BY <2>6, <2>7 DEF e, g
<1> QED BY <1>2, <1>3

\* A poll's request that is answered by what says nothing.
LEMMA NoopOK ==
  ASSUME NEW k, SocketOK(k), k.registered
  PROVE  /\ SocketOK(Respond(k, Noop)) /\ Respond(k, Noop).given = k.given
<1> DEFINE e == Respond(k, Noop)
<1>1. k \in Socket /\ k.told \in Seq(SioPacket)
  BY DEF SocketOK, Socket
<1>2. k.told \o Noop = k.told
  BY <1>1, ConcatEmptySeq DEF Noop
<1>3. e = [k EXCEPT !.told = k.told, !.due = FALSE]
  BY <1>2 DEF Respond
<1> HIDE DEF e
<1>4. /\ e \in Socket /\ e.told = k.told /\ e.packets = k.packets /\ e.given = k.given
      /\ e.upgrade = k.upgrade /\ e.polling = k.polling /\ ~e.due /\ e.is_send = k.is_send
      /\ e.closed = k.closed /\ e.registered /\ e.connect_ack = k.connect_ack
  BY <1>1, <1>3 DEF Socket
<1> QED BY <1>4 DEF SocketOK, e

LEMMA UpgradedOK ==
  ASSUME NEW k, SocketOK(k), k.registered, ~k.upgrade
  PROVE  SocketOK(Upgraded(k)) /\ Upgraded(k).given = k.given
<1> DEFINE u == [k EXCEPT !.upgrade = TRUE, !.is_send = TRUE]
           v == [k EXCEPT !.due = FALSE]
           w == [v EXCEPT !.upgrade = TRUE, !.is_send = TRUE]
<1>1. k \in Socket /\ k.told \in Seq(SioPacket)
  BY DEF SocketOK, Socket
<1>2. /\ w \in Socket /\ w.told = k.told /\ w.packets = k.packets /\ w.given = k.given
      /\ w.upgrade /\ ~w.due /\ w.is_send /\ w.closed = k.closed /\ w.registered /\ w.connect_ack = k.connect_ack
  BY <1>1 DEF Socket
<1>3. k.told \o Noop = k.told
  BY <1>1, ConcatEmptySeq DEF Noop
<1>4. Upgraded(k) = w
  <2>1. /\ u \in Socket /\ u.told = k.told /\ u.due = k.due /\ u.polling = k.polling
    BY <1>1 DEF Socket
  <2>2. CASE k.polling
    <3>1. Upgraded(k) = [u EXCEPT !.told = k.told, !.due = FALSE]
      BY <1>3, <2>1, <2>2 DEF Upgraded, Respond
    <3> QED BY <1>1, <3>1 DEF Socket
  <2>3. CASE ~k.polling
    <3>1. Upgraded(k) = u /\ ~k.due
      BY <2>1, <2>3 DEF Upgraded, SocketOK
    <3> QED BY <1>1, <3>1 DEF Socket
  <2> QED BY <2>2, <2>3
<1> HIDE DEF w
<1>5. SocketOK(w)
  BY <1>2 DEF SocketOK
<1> QED BY <1>2, <1>4, <1>5

LEMMA PollStep ==
  ASSUME SioInv, NEW s \in Sockets, Poll(s)
  PROVE  SioInv'
<1>0. /\ SocketOK(socks[s]) /\ socks[s] \in Socket /\ Once(socks[s], emits, toRooms)
      /\ members \subseteq Namespaces \X RoomNames \X Sockets
  BY SocketOf
<1>1. CASE ~socks[s].connect_ack
  BY <1>1, ConnectAckStep DEF Poll
<1>2. CASE socks[s].connect_ack
  <2> DEFINE e == IF socks[s].upgrade THEN Respond(socks[s], Noop)
                  ELSE Flush([socks[s] EXCEPT !.polling = TRUE, !.due = TRUE])
  <2>1. SocketOK(e) /\ e.given = socks[s].given
    BY <1>0, <1>2, NoopOK, PollingOK DEF Poll
  <2>2. Once(e, emits, toRooms)
    BY <1>0, <2>1, OnceSame
  <2>3. Change(s, e) /\ UNCHANGED <<members, emits, running, toRooms, asks>> /\ running = {}
    BY <1>2 DEF Poll, Idle
  <2> HIDE DEF e
  <2> QED BY <1>0, <2>1, <2>2, <2>3, ChangeOne
<1> QED BY <1>1, <1>2

LEMMA PollLostStep ==
  ASSUME SioInv, NEW s \in Sockets, PollLost(s)
  PROVE  SioInv'
<1> DEFINE e == [socks[s] EXCEPT !.polling = FALSE, !.due = FALSE]
<1>0. /\ SocketOK(socks[s]) /\ socks[s] \in Socket /\ Once(socks[s], emits, toRooms)
      /\ members \subseteq Namespaces \X RoomNames \X Sockets
  BY SocketOf
<1>1. SocketOK(e) /\ e.given = socks[s].given
  BY <1>0 DEF SocketOK, Socket
<1>2. Once(e, emits, toRooms)
  BY <1>0, <1>1, OnceSame
<1>3. Change(s, e) /\ UNCHANGED <<members, emits, running, toRooms, asks>> /\ running = {}
  BY DEF PollLost, Idle
<1> HIDE DEF e
<1> QED BY <1>0, <1>1, <1>2, <1>3, ChangeOne

\* What a packet of the client makes of a socket.
LEMMA OnPacketOK ==
  ASSUME SioInv, NEW s \in Sockets, socks[s].registered, NEW type \in Types, NEW nsp \in Namespaces
  PROVE  LET k == OnPacket(socks[s], type, nsp)
         IN  SocketOK(k) /\ k.registered /\ Once(k, emits, toRooms)
<1> DEFINE o == socks[s]
           p == Packet("pong", asks + 1)
           q == SendPacket(o, p)
           k == OnPacket(o, type, nsp)
<1>0. SocketOK(o) /\ o \in Socket /\ Once(o, emits, toRooms) /\ asks \in Nat /\ emits \in Nat
  BY SocketOf
<1>1. CASE type = "ping"
  <2>1. p \in SioPacket /\ p.type # "event"
    BY <1>0, PlainPacket
  <2>2. SocketOK(q) /\ Given(o, q, p) /\ q.registered /\ q \in Socket
    <3> HIDE DEF p
    <3> QED BY <1>0, <2>1, SendPacketOK DEF Given, SocketOK
  <2>3. Once(q, emits, toRooms)
    <3> HIDE DEF o, p, q
    <3> QED BY <1>0, <2>1, <2>2, OnceGiven DEF Given
  <2>4. k = [q EXCEPT !.timer = TRUE]
    BY <1>1 DEF OnPacket
  <2> HIDE DEF q
  <2>5. SocketOK([q EXCEPT !.timer = TRUE])
    BY <2>2, EventOK
  <2>6. [q EXCEPT !.timer = TRUE].registered /\ [q EXCEPT !.timer = TRUE].given = q.given
    BY <2>2 DEF Socket
  <2> QED BY <2>3, <2>4, <2>5, <2>6, OnceSame
<1>2. CASE type = "close"
  <2>1. k = [o EXCEPT !.is_close = TRUE]
    BY <1>2 DEF OnPacket
  <2>2. SocketOK([o EXCEPT !.is_close = TRUE])
    BY <1>0, EventOK
  <2>3. [o EXCEPT !.is_close = TRUE].registered /\ [o EXCEPT !.is_close = TRUE].given = o.given
    BY <1>0 DEF Socket
  <2> QED BY <1>0, <2>1, <2>2, <2>3, OnceSame
<1>3. CASE type # "ping" /\ type # "close"
  <2>1. k = [o EXCEPT !.nsp = nsp]
    BY <1>3 DEF OnPacket
  <2>2. SocketOK([o EXCEPT !.nsp = nsp])
    BY <1>0, EventOK
  <2>3. [o EXCEPT !.nsp = nsp].registered /\ [o EXCEPT !.nsp = nsp].given = o.given
    BY <1>0 DEF Socket
  <2> QED BY <1>0, <2>1, <2>2, <2>3, OnceSame
<1> QED BY <1>1, <1>2, <1>3

LEMMA PostStep ==
  ASSUME SioInv, NEW s \in Sockets, Post_(s)
  PROVE  SioInv'
<1>1. PICK type \in Types, nsp \in Namespaces :
        /\ Change(s, OnPacket(socks[s], type, nsp))
        /\ running' = IF Handles(socks[s], type, nsp) THEN {s} ELSE {}
  BY DEF Post_
<1> DEFINE k == OnPacket(socks[s], type, nsp)
<1>2. SocketOK(k) /\ k.registered /\ Once(k, emits, toRooms)
  BY OnPacketOK DEF Post_
<1>3. running' = {} \/ running' = {s}
  BY <1>1
<1>4. UNCHANGED <<members, emits, toRooms>> /\ asks < MaxAsks /\ asks' = asks + 1
  BY DEF Post_, Asks
<1>5. Change(s, k)
  BY <1>1
<1> HIDE DEF k
<1> QED BY <1>2, <1>3, <1>4, <1>5, SocketOf, ChangeOne

LEMMA WebsocketFrameStep ==
  ASSUME SioInv, NEW s \in Sockets, WebsocketFrame(s)
  PROVE  SioInv'
<1>1. PICK type \in Types, nsp \in Namespaces :
        LET k == OnPacket(socks[s], type, nsp)
        IN /\ Change(s, IF k.is_close /\ ~Handles(socks[s], type, nsp) THEN OnClose_(k) ELSE k)
           /\ running' = IF Handles(socks[s], type, nsp) THEN {s} ELSE {}
  BY DEF WebsocketFrame
<1> DEFINE k == OnPacket(socks[s], type, nsp)
           e == IF k.is_close /\ ~Handles(socks[s], type, nsp) THEN OnClose_(k) ELSE k
<1>2. SocketOK(k) /\ k.registered /\ Once(k, emits, toRooms)
  BY OnPacketOK DEF WebsocketFrame
<1>3. Change(s, e) /\ running' = IF Handles(socks[s], type, nsp) THEN {s} ELSE {}
  BY <1>1
<1>4. UNCHANGED <<members, emits, toRooms>> /\ asks < MaxAsks /\ asks' = asks + 1
  BY DEF WebsocketFrame, Asks
<1> HIDE DEF k
<1>5. SocketOK(e) /\ Once(e, emits, toRooms)
  BY <1>2, OnCloseOK, OnceSame
<1>6. running' = {} \/ (running' = {s} /\ e.registered)
  BY <1>2, <1>3
<1> HIDE DEF e
<1> QED BY <1>3, <1>4, <1>5, <1>6, SocketOf, ChangeOne

\* The steps that take nothing and give nothing.
LEMMA SilentSteps ==
  ASSUME SioInv, NEW s \in Sockets, Upgrade(s) \/ WebsocketSent(s) \/ WebsocketLost(s) \/ Timeout_(s)
  PROVE  SioInv'
<1> DEFINE k == socks[s]
<1>0. /\ SocketOK(k) /\ k \in Socket /\ Once(k, emits, toRooms) /\ k.registered
      /\ members \subseteq Namespaces \X RoomNames \X Sockets
  BY SocketOf DEF Upgrade, WebsocketSent, WebsocketLost, Timeout_
<1>1. PICK e : Change(s, e) /\ SocketOK(e) /\ (e.given = k.given \/ e.given = <<>>)
  <2>1. CASE Upgrade(s)
    BY <1>0, <2>1, UpgradedOK DEF Upgrade
  <2>2. CASE WebsocketSent(s)
    <3> DEFINE f == [k EXCEPT !.is_send = FALSE]
    <3>1. SocketOK(f)
      BY <1>0, EventOK
    <3>2. f.registered /\ f.given = k.given
      BY <1>0 DEF Socket
    <3>3. Change(s, Flush(f))
      BY <2>2 DEF WebsocketSent
    <3> HIDE DEF f
    <3> QED BY <3>1, <3>2, <3>3, FlushOK
  <2>3. CASE WebsocketLost(s)
    BY <1>0, <2>3, OnCloseOK DEF WebsocketLost
  <2>4. CASE Timeout_(s)
    <3> DEFINE p == Packet("close", 0)
               q == SendPacket(k, p)
    <3>1. p \in SioPacket
      BY PlainPacket
    <3>2. SocketOK(q) /\ q.registered
      <4> HIDE DEF p
      <4> QED BY <1>0, <3>1, SendPacketOK DEF Given
    <3>3. Change(s, OnClose_(q))
      BY <2>4 DEF Timeout_
    <3> HIDE DEF q
    <3> QED BY <3>2, <3>3, OnCloseOK
  <2> QED BY <2>1, <2>2, <2>3, <2>4
<1>2. UNCHANGED <<members, emits, running, toRooms, asks>> /\ running = {}
  BY DEF Upgrade, WebsocketSent, WebsocketLost, Timeout_, Idle
<1>3. Once(e, emits, toRooms)
  BY <1>0, <1>1, OnceSame
<1> HIDE DEF k
<1> QED BY <1>0, <1>1, <1>2, <1>3, ChangeOne

-----------------------------------------------------------------------------
(* Handlers.                                                               *)

\* The handler of s is left, with f of the sockets.
LEMMA LeftStep ==
  ASSUME SioInv, NEW s \in Sockets, Returns_(s), NEW f, socks' = Left(f, s),
         f \in [Sockets -> Socket], f[s].registered,
         \A t \in Sockets : SocketOK(f[t]) /\ Once(f[t], emits', toRooms'),
         members' \subseteq Namespaces \X RoomNames \X Sockets,
         emits' \in 0 .. MaxEmits, toRooms' \subseteq 1 .. emits', asks' = asks
  PROVE  SioInv'
<1>1. CASE f[s].upgrade /\ f[s].is_close
  <2>1. socks' = [f EXCEPT ![s] = OnClose_(f[s])]
    BY <1>1 DEF Left
  <2>2. SocketOK(OnClose_(f[s])) /\ OnClose_(f[s]).given = <<>> /\ OnClose_(f[s]) \in Socket
    BY OnCloseOK DEF SocketOK
  <2>3. Once(OnClose_(f[s]), emits', toRooms')
    BY <2>2, OnceSame
  <2>4. socks' \in [Sockets -> Socket] /\ \A t \in Sockets : SocketOK(socks'[t]) /\ Once(socks'[t], emits', toRooms')
    BY <2>1, <2>2, <2>3
  <2> QED BY <2>4 DEF SioInv, Returns_
<1>2. CASE ~(f[s].upgrade /\ f[s].is_close)
  <2>1. socks' = f
    BY <1>2 DEF Left
  <2> QED BY <2>1 DEF SioInv, Returns_
<1> QED BY <1>1, <1>2

LEMMA RunningOf ==
  ASSUME SioInv, NEW s \in Sockets, Returns_(s)
  PROVE  /\ socks[s].registered /\ socks \in [Sockets -> Socket]
         /\ \A t \in Sockets : SocketOK(socks[t]) /\ Once(socks[t], emits, toRooms)
         /\ members \subseteq Namespaces \X RoomNames \X Sockets
         /\ emits \in 0 .. MaxEmits /\ toRooms \subseteq 1 .. emits
BY DEF SioInv, Returns_

LEMMA QuietStep ==
  ASSUME SioInv, NEW s \in Sockets, Quiet(s)
  PROVE  SioInv'
<1>1. Returns_(s) /\ socks' = Left(socks, s) /\ UNCHANGED <<members, emits, toRooms, asks>>
  BY DEF Quiet
<1> QED BY <1>1, RunningOf, LeftStep

\* The rooms of a socket change.
LEMMA RoomsStep ==
  ASSUME SioInv, NEW s \in Sockets, Returns_(s), NEW R \in SUBSET RoomNames,
         socks' = Left([socks EXCEPT ![s].rooms = R], s),
         members' \subseteq Namespaces \X RoomNames \X Sockets,
         UNCHANGED <<emits, toRooms, asks>>
  PROVE  SioInv'
<1> DEFINE k == [socks[s] EXCEPT !.rooms = R]
           f == [socks EXCEPT ![s].rooms = R]
<1>1. f = [socks EXCEPT ![s] = k]
  BY RunningOf
<1>2. SocketOK(k) /\ k \in Socket
  <2>1. SocketOK(socks[s]) /\ socks[s].registered
    BY RunningOf
  <2>2. SocketOK(k)
    BY <2>1, EventOK
  <2> QED BY <2>2 DEF SocketOK
<1>3. k.registered /\ k.given = socks[s].given
  BY RunningOf DEF Socket
<1>4. Once(k, emits, toRooms)
  BY <1>3, RunningOf, OnceSame
<1> HIDE DEF k
<1>5. f \in [Sockets -> Socket] /\ f[s].registered /\ \A t \in Sockets : SocketOK(f[t]) /\ Once(f[t], emits, toRooms)
  BY <1>1, <1>2, <1>3, <1>4, RunningOf
<1>6. socks' = Left(f, s)
  OBVIOUS
<1> HIDE DEF f
<1> QED BY <1>5, <1>6, RunningOf, LeftStep

LEMMA JoinLeaveSteps ==
  ASSUME SioInv, NEW s \in Sockets, Join(s) \/ Leave(s)
  PROVE  SioInv'
<1>0. socks[s] \in Socket /\ Returns_(s)
  BY RunningOf DEF Join, Leave
<1>1. CASE Join(s)
  <2>1. PICK r \in RoomNames \ socks[s].rooms :
          /\ members' = members \cup {<<socks[s].nsp, r, s>>}
          /\ socks' = Left([socks EXCEPT ![s].rooms = @ \cup {r}], s)
    BY <1>1 DEF Join
  <2> DEFINE R == socks[s].rooms \cup {r}
  <2>2. R \in SUBSET RoomNames /\ socks[s].nsp \in Namespaces
    BY <1>0 DEF Socket
  <2>3. [socks EXCEPT ![s].rooms = @ \cup {r}] = [socks EXCEPT ![s].rooms = R]
    BY <1>0, RunningOf
  <2>4. members' \subseteq Namespaces \X RoomNames \X Sockets
    BY <1>0, <2>1, <2>2, RunningOf
  <2> HIDE DEF R
  <2> QED BY <1>0, <1>1, <2>1, <2>2, <2>3, <2>4, RoomsStep DEF Join
<1>2. CASE Leave(s)
  <2>1. PICK r \in socks[s].rooms :
          /\ members' = members \ {<<r, socks[s].nsp, s>>}
          /\ socks' = Left([socks EXCEPT ![s].rooms = @ \ {r}], s)
    BY <1>2 DEF Leave
  <2> DEFINE R == socks[s].rooms \ {r}
  <2>2. R \in SUBSET RoomNames
    BY <1>0 DEF Socket
  <2>3. [socks EXCEPT ![s].rooms = @ \ {r}] = [socks EXCEPT ![s].rooms = R]
    BY <1>0, RunningOf
  <2>4. members' \subseteq Namespaces \X RoomNames \X Sockets
    BY <1>0, <2>1, RunningOf
  <2> HIDE DEF R
  <2> QED BY <1>0, <1>2, <2>1, <2>2, <2>3, <2>4, RoomsStep DEF Leave
<1> QED BY <1>1, <1>2

\* A packet that is emitted, whether it is one for rooms or not: what it makes
\* of the sockets.
LEMMA EmitToOK ==
  ASSUME SioInv, NEW times, emits' = emits + 1
  PROVE  LET f == EmitTo(times)
         IN  /\ f \in [Sockets -> Socket]
             /\ \A t \in Sockets :
                  /\ SocketOK(f[t]) /\ f[t].registered = socks[t].registered
                  /\ Once(f[t], emits', toRooms)
                  /\ times[t] \in {0, 1} => Once(f[t], emits', toRooms \cup {emits + 1})
<1> DEFINE p == Packet("event", emits + 1)
           f == EmitTo(times)
<1>0. emits \in Nat /\ p \in SioPacket /\ toRooms \in SUBSET (1 .. emits) /\ p.n = emits + 1 /\ p.type = "event"
  <2>1. emits \in Nat /\ toRooms \in SUBSET (1 .. emits)
    BY SioAssumption DEF SioInv
  <2> QED BY <2>1, EventPacket
<1>1. f = [t \in Sockets |->
             CASE ~socks[t].registered \/ times[t] = 0 -> socks[t]
               [] socks[t].registered /\ times[t] = 1 -> SendPacket(socks[t], p)
               [] OTHER -> SendPacket(SendPacket(socks[t], p), p)]
  BY DEF EmitTo
<1>2. p = Packet("event", emits + 1)
  OBVIOUS
<1> HIDE DEF f, p
<1>3. ASSUME NEW t \in Sockets
      PROVE  /\ SocketOK(f[t]) /\ f[t].registered = socks[t].registered
             /\ Once(f[t], emits', toRooms)
             /\ times[t] \in {0, 1} => Once(f[t], emits', toRooms \cup {emits + 1})
  <2> DEFINE k == socks[t]
             a == SendPacket(k, p)
             b == SendPacket(a, p)
  <2>1. SocketOK(k) /\ k \in Socket /\ Once(k, emits, toRooms)
    BY DEF SioInv, SocketOK
  <2>2. CASE ~k.registered \/ times[t] = 0
    <3>1. f[t] = k
      BY <1>1, <2>2
    <3> QED BY <1>0, <2>1, <3>1, OnceMore
  <2>3. ASSUME k.registered PROVE /\ SocketOK(a) /\ a.registered /\ Given(k, a, p) /\ a \in Socket
                                  /\ Once(a, emits + 1, toRooms) /\ Once(a, emits + 1, toRooms \cup {emits + 1})
    <3>1. SocketOK(a) /\ Given(k, a, p)
      BY <1>0, <2>1, <2>3, SendPacketOK
    <3>2. a.given = Append(k.given, Packet("event", emits + 1))
      BY <3>1, <1>2 DEF Given
    <3> HIDE DEF a, k
    <3>3. Once(a, emits + 1, toRooms) /\ Once(a, emits + 1, toRooms \cup {emits + 1})
      BY <1>0, <2>1, <3>2, OnceNext
    <3> QED BY <2>3, <3>1, <3>3 DEF Given, SocketOK
  <2>4. CASE k.registered /\ times[t] = 1
    <3>1. f[t] = a
      BY <1>1, <2>4
    <3> QED BY <2>3, <2>4, <3>1
  <2>5. CASE k.registered /\ times[t] \notin {0, 1}
    <3>1. f[t] = b
      BY <1>1, <2>5
    <3> HIDE DEF a
    <3>2. SocketOK(b) /\ Given(a, b, p)
      BY <1>0, <2>3, <2>5, SendPacketOK
    <3>3. b.given = Append(a.given, p) /\ b.registered
      BY <2>3, <2>5, <3>2 DEF Given
    <3>4. emits + 1 \in Nat /\ p.n <= emits + 1
      BY <1>0
    <3>5. p.n \notin toRooms
      <4>1. emits + 1 \notin 1 .. emits
        BY <1>0
      <4> QED BY <1>0, <4>1, Zenon
    <3> HIDE DEF b
    <3>6. Once(b, emits + 1, toRooms)
      BY <1>0, <2>3, <2>5, <3>3, <3>4, <3>5, OnceGiven
    <3> QED BY <2>5, <3>1, <3>2, <3>3, <3>6
  <2> QED BY <2>2, <2>4, <2>5
<1>4. f \in [Sockets -> Socket]
  <2>1. \A t \in Sockets : f[t] \in Socket
    BY <1>3 DEF SocketOK
  <2> QED BY <1>1, <2>1
<1> QED BY <1>3, <1>4 DEF f

LEMMA EmittingOf ==
  ASSUME SioInv, Emitting
  PROVE  /\ emits' = emits + 1 /\ emits' \in 0 .. MaxEmits /\ members' = members /\ asks' = asks
         /\ toRooms \subseteq 1 .. emits' /\ toRooms \cup {emits + 1} \subseteq 1 .. emits'
         /\ members \subseteq Namespaces \X RoomNames \X Sockets
<1>1. emits \in Nat /\ emits < MaxEmits /\ emits' = emits + 1 /\ toRooms \subseteq 1 .. emits
  BY SioAssumption DEF SioInv, Emitting
<1>2. emits' \in 0 .. MaxEmits
  BY <1>1, SioAssumption
<1>3. toRooms \subseteq 1 .. emits' /\ toRooms \cup {emits + 1} \subseteq 1 .. emits'
  BY <1>1
<1> QED BY <1>1, <1>2, <1>3 DEF SioInv, Emitting

LEMMA EmitStep ==
  ASSUME SioInv, NEW s \in Sockets, Emit(s)
  PROVE  SioInv'
<1>1. Returns_(s) /\ Emitting
  BY DEF Emit
<1>2. emits' = emits + 1
  BY <1>1, EmittingOf
<1>3. ASSUME NEW times, socks' = Left(EmitTo(times), s), toRooms' = toRooms PROVE SioInv'
  <2> DEFINE f == EmitTo(times)
  <2>1. f \in [Sockets -> Socket] /\ f[s].registered /\ \A t \in Sockets : SocketOK(f[t]) /\ Once(f[t], emits', toRooms)
    BY <1>1, <1>2, EmitToOK, RunningOf
  <2> HIDE DEF f
  <2>2. socks' = Left(f, s)
    BY <1>3 DEF f
  <2>3. members' \subseteq Namespaces \X RoomNames \X Sockets /\ emits' \in 0 .. MaxEmits /\ toRooms' \subseteq 1 .. emits' /\ asks' = asks
    BY <1>1, <1>3, EmittingOf
  <2>4. \A t \in Sockets : SocketOK(f[t]) /\ Once(f[t], emits', toRooms')
    BY <2>1, <1>3
  <2> QED BY <1>1, <2>1, <2>2, <2>3, <2>4, LeftStep
<1>4. ASSUME NEW rooms, socks' = Left(EmitTo(ToRooms(s, rooms)), s), toRooms' = toRooms \cup {emits + 1} PROVE SioInv'
  <2> DEFINE times == ToRooms(s, rooms)
             f == EmitTo(times)
  <2>0. \A t \in Sockets : times[t] \in {0, 1}
    BY DEF ToRooms
  <2> HIDE DEF times
  <2>1. /\ f \in [Sockets -> Socket] /\ f[s].registered
        /\ \A t \in Sockets : SocketOK(f[t]) /\ Once(f[t], emits', toRooms \cup {emits + 1})
    BY <1>1, <1>2, <2>0, EmitToOK, RunningOf
  <2> HIDE DEF f
  <2>2. socks' = Left(f, s)
    BY <1>4 DEF f, times
  <2>3. members' \subseteq Namespaces \X RoomNames \X Sockets /\ emits' \in 0 .. MaxEmits /\ toRooms' \subseteq 1 .. emits' /\ asks' = asks
    BY <1>1, <1>4, EmittingOf
  <2>4. \A t \in Sockets : SocketOK(f[t]) /\ Once(f[t], emits', toRooms')
    BY <2>1, <1>4
  <2> QED BY <1>1, <2>1, <2>2, <2>3, <2>4, LeftStep
<1> QED BY <1>3, <1>4 DEF Emit

LEMMA DoEmitStep ==
  ASSUME SioInv, DoEmit
  PROVE  SioInv'
<1>1. Idle /\ Emitting /\ UNCHANGED <<running, toRooms>>
  BY DEF DoEmit
<1>2. PICK times : socks' = EmitTo(times)
  BY DEF DoEmit
<1>3. emits' = emits + 1
  BY <1>1, EmittingOf
<1>4. /\ socks' \in [Sockets -> Socket]
      /\ \A t \in Sockets : SocketOK(socks'[t]) /\ Once(socks'[t], emits', toRooms')
  BY <1>1, <1>2, <1>3, EmitToOK
<1>5. running' = {}
  BY <1>1 DEF Idle
<1> QED BY <1>1, <1>4, <1>5, EmittingOf DEF SioInv

-----------------------------------------------------------------------------
(* The theorem.                                                            *)

LEMMA SioInitInv == SioInit => SioInv
<1> SUFFICES ASSUME SioInit PROVE SioInv
  OBVIOUS
<1>1. socks \in [Sockets -> Socket] /\ \A s \in Sockets : socks[s] = NewSocket
  BY NewSocketOK DEF SioInit, SocketOK
<1>2. \A s \in Sockets : SocketOK(socks[s]) /\ Once(socks[s], emits, toRooms)
  BY <1>1, NewSocketOK DEF SioInit
<1> QED BY <1>1, <1>2, SioAssumption DEF SioInit, SioInv

LEMMA SioNextInv == SioInv /\ [SioNext]_sioVars => SioInv'
<1> SUFFICES ASSUME SioInv, [SioNext]_sioVars PROVE SioInv'
  OBVIOUS
<1>1. CASE UNCHANGED sioVars
  BY <1>1 DEF sioVars, SioInv
<1>2. CASE DoEmit
  BY <1>2, DoEmitStep
<1>3. ASSUME NEW s \in Sockets, NewSession(s) \/ Poll(s) \/ PollLost(s) \/ Post_(s) PROVE SioInv'
  BY <1>3, NewSessionStep, PollStep, PollLostStep, PostStep
<1>4. ASSUME NEW s \in Sockets, Upgrade(s) \/ WebsocketSent(s) \/ WebsocketLost(s) \/ Timeout_(s) \/ WebsocketFrame(s) PROVE SioInv'
  BY <1>4, SilentSteps, WebsocketFrameStep
<1>5. ASSUME NEW s \in Sockets, Quiet(s) \/ Join(s) \/ Leave(s) \/ Emit(s) PROVE SioInv'
  BY <1>5, QuietStep, JoinLeaveSteps, EmitStep
<1> QED BY <1>1, <1>2, <1>3, <1>4, <1>5 DEF SioNext

LEMMA SioInvSafe == SioInv => SocketsSafe
<1> SUFFICES ASSUME SioInv PROVE SocketsSafe
  OBVIOUS
<1>1. SioTypeOK
  <2>1. Cardinality(running) <= 1
    <3>1. CASE running = {}
      BY <3>1, FS_EmptySet
    <3>2. ASSUME NEW s \in Sockets, running = {s} PROVE Cardinality(running) <= 1
      BY <3>2, FS_Singleton
    <3> QED BY <3>1, <3>2 DEF SioInv
  <2>2. emits <= MaxEmits /\ asks <= MaxAsks
    BY SioAssumption DEF SioInv
  <2>3. \A s \in Sockets : socks[s].nsp \in Namespaces /\ socks[s].rooms \subseteq RoomNames
    BY DEF SioInv, SocketOK, Socket
  <2> QED BY <2>1, <2>2, <2>3 DEF SioTypeOK, SioInv, SocketOK
<1>2. SentInOrder_
  BY DEF SentInOrder_, SioInv, SocketOK
<1>3. PollsAnswered
  BY DEF PollsAnswered, SioInv, SocketOK
<1>4. LeftOnce
  BY DEF LeftOnce, SioInv, SocketOK
<1>5. OnceEach
  BY DEF OnceEach, SioInv, Once
<1> QED BY <1>1, <1>2, <1>3, <1>4, <1>5 DEF SocketsSafe

\* The sockets of socket.io are safe, however many there are: what a socket is
\* given to send is sent once and in its order over polls and websocket, polls
\* are answered, a packet for rooms reaches a socket once, and a socket ends
\* once (send_packet, flush, handle_Upgrade, broadcast_room, on_close).
THEOREM SocketsAreSafe == SioSpec => []SocketsSafe
<1>1. SioSpec => []SioInv
  BY SioInitInv, SioNextInv, PTL DEF SioSpec
<1> QED BY <1>1, SioInvSafe, PTL

-----------------------------------------------------------------------------
(* Numbers and sequences.                                                  *)

\* The least number of a set: the way in which the lemmas about folds go from
\* one element to the next.
LEMMA LeastNumber ==
  ASSUME NEW T \in SUBSET Nat, T # {}
  PROVE  \E m \in T : \A n \in T : m <= n
<1> DEFINE R == {ss \in Nat \X Nat : ss[1] < ss[2]}
<1>1. IsWellFoundedOn(R, Nat)
  BY NatLessThanWellFounded DEF OpToRel
<1>2. PICK x \in T : \A y \in T : <<y, x>> \notin R
  <2> HIDE DEF R
  <2> QED BY <1>1, WFMin
<1>3. ASSUME NEW y \in T PROVE x <= y
  <2>1. x \in Nat /\ y \in Nat
    OBVIOUS
  <2>2. y < x => <<y, x>> \in R
    BY <2>1
  <2> HIDE DEF R
  <2> QED BY <2>1, <2>2, <1>2
<1> QED BY <1>3

\* The function by which FlattenSeq joins the first n sequences is there ...
Joins(f, seqs, n) == f = [i \in 1 .. n |-> IF i = 1 THEN seqs[i] ELSE f[i - 1] \o seqs[i]]

LEMMA JoinsExists ==
  ASSUME NEW seqs, NEW n \in Nat
  PROVE  \E f : Joins(f, seqs, n)
<1> DEFINE T == {m \in Nat : ~\E f : Joins(f, seqs, m)}
<1>1. SUFFICES ASSUME T # {} PROVE FALSE
  OBVIOUS
<1>2. PICK m \in T : \A k \in T : m <= k
  <2>1. T \in SUBSET Nat
    OBVIOUS
  <2> HIDE DEF T
  <2> QED BY <1>1, <2>1, LeastNumber
<1>3. CASE m = 0
  <2> DEFINE g == [i \in 1 .. 0 |-> <<>>]
  <2>1. Joins(g, seqs, 0)
    <3>1. 1 .. 0 = {}
      OBVIOUS
    <3> QED BY <3>1 DEF Joins
  <2> QED BY <1>2, <1>3, <2>1
<1>4. CASE m # 0
  <2>1. m - 1 \in Nat /\ m - 1 \notin T
    BY <1>2, <1>4
  <2>2. PICK f : Joins(f, seqs, m - 1)
    BY <2>1
  <2> DEFINE g == [i \in 1 .. m |-> IF i = 1 THEN seqs[1] ELSE IF i = m THEN f[m - 1] \o seqs[m] ELSE f[i]]
  <2>3. f = [i \in 1 .. m - 1 |-> IF i = 1 THEN seqs[i] ELSE f[i - 1] \o seqs[i]]
    BY <2>2 DEF Joins
  <2>4. /\ \A i \in 1 .. m - 1 : f[i] = IF i = 1 THEN seqs[1] ELSE f[i - 1] \o seqs[i]
        /\ \A i \in 1 .. m - 1 : g[i] = f[i]
    <3>1. \A i \in 1 .. m - 1 : f[i] = IF i = 1 THEN seqs[i] ELSE f[i - 1] \o seqs[i]
      <4> HIDE DEF g
      <4> QED BY <2>3
    <3>2. ASSUME NEW i \in 1 .. m - 1
          PROVE  g[i] = IF i = 1 THEN seqs[1] ELSE f[i]
      <4>1. i \in 1 .. m /\ i # m
        BY <1>2
      <4> QED BY <4>1
    <3> HIDE DEF g
    <3> QED BY <3>1, <3>2
  <2>5. ASSUME NEW i \in 1 .. m PROVE g[i] = IF i = 1 THEN seqs[i] ELSE g[i - 1] \o seqs[i]
    <3>1. CASE i = 1
      BY <3>1
    <3>2. CASE i # 1
      <4>1. i - 1 \in 1 .. m - 1 /\ g[i - 1] = f[i - 1]
        BY <1>2, <2>4, <3>2
      <4>2. CASE i = m
        BY <3>2, <4>1, <4>2
      <4>3. CASE i # m
        <5>1. i \in 1 .. m - 1 /\ g[i] = f[i]
          BY <1>2, <2>4, <4>3
        <5> HIDE DEF g
        <5> QED BY <2>4, <3>2, <4>1, <5>1
      <4> QED BY <4>2, <4>3
    <3> QED BY <3>1, <3>2
  <2>6. Joins(g, seqs, m)
    <3>1. g = [i \in 1 .. m |-> g[i]]
      OBVIOUS
    <3> HIDE DEF g
    <3> QED BY <2>5, <3>1 DEF Joins
  <2> QED BY <1>2, <2>6
<1> QED BY <1>3, <1>4

\* ... and FlattenSeq has its value.
LEMMA FlattenSteps ==
  ASSUME NEW seqs, Len(seqs) \in Nat, Len(seqs) # 0
  PROVE  \E f : /\ f[1] = seqs[1]
                /\ \A k \in 2 .. Len(seqs) : f[k] = f[k - 1] \o seqs[k]
                /\ FlattenSeq(seqs) = f[Len(seqs)]
<1> DEFINE n == Len(seqs)
           f == CHOOSE f : f = [i \in 1 .. n |-> IF i = 1 THEN seqs[i] ELSE f[i - 1] \o seqs[i]]
<1>1. FlattenSeq(seqs) = f[n]
  BY DEF FlattenSeq
<1>2. f = [i \in 1 .. n |-> IF i = 1 THEN seqs[i] ELSE f[i - 1] \o seqs[i]]
  BY JoinsExists DEF Joins
<1> HIDE DEF f
<1>3. \A k \in 1 .. n : f[k] = IF k = 1 THEN seqs[k] ELSE f[k - 1] \o seqs[k]
  BY <1>2
<1>4. f[1] = seqs[1]
  <2>1. 1 \in 1 .. n
    OBVIOUS
  <2> QED BY <1>3, <2>1
<1>5. ASSUME NEW k \in 2 .. n PROVE f[k] = f[k - 1] \o seqs[k]
  <2>1. k \in 1 .. n /\ k # 1
    OBVIOUS
  <2> QED BY <1>3, <2>1
<1> QED BY <1>1, <1>4, <1>5

-----------------------------------------------------------------------------
(* The bytes of a websocket stream, one after the other.                   *)

FrameByte(w) == [of : 1 .. Len(w), what : {"type", "len", "ext", "key", "data"}, i : Nat]

\* The byte behind a byte of the frames w.
AfterKey(w, f) == IF w[f].len > 0 THEN Byte(f, "data", 0) ELSE Byte(f + 1, "type", 0)
AfterExt(w, f) == IF w[f].masked THEN Byte(f, "key", 0) ELSE AfterKey(w, f)
AfterLen(w, f) == IF w[f].long THEN Byte(f, "ext", 0) ELSE AfterExt(w, f)

NextByte(w, b) ==
  CASE b.what = "type" -> Byte(b.of, "len", 0)
    [] b.what = "len"  -> AfterLen(w, b.of)
    [] b.what = "ext"  -> IF b.i = 0 THEN Byte(b.of, "ext", 1) ELSE AfterExt(w, b.of)
    [] b.what = "key"  -> IF b.i < KeyLength - 1 THEN Byte(b.of, "key", b.i + 1) ELSE AfterKey(w, b.of)
    [] b.what = "data" -> IF b.i + 1 < w[b.of].len THEN Byte(b.of, "data", b.i + 1) ELSE Byte(b.of + 1, "type", 0)

\* r holds the bytes from b up to e, without e.
RunTo(w, r, b, e) ==
  /\ r \in Seq(FrameByte(w))
  /\ r = <<>> => b = e
  /\ r # <<>> => r[1] = b /\ NextByte(w, r[Len(r)]) = e
  /\ \A j \in 1 .. Len(r) - 1 : r[j + 1] = NextByte(w, r[j])

StreamEnd(w) == Byte(Len(w) + 1, "type", 0)

LEMMA RunJoin ==
  ASSUME NEW w, NEW r, NEW s, NEW b, NEW m, NEW e, RunTo(w, r, b, m), RunTo(w, s, m, e)
  PROVE  RunTo(w, r \o s, b, e)
<1> DEFINE t == r \o s
           n == Len(r)
           k == Len(s)
<1>1. /\ r \in Seq(FrameByte(w)) /\ s \in Seq(FrameByte(w)) /\ n \in Nat /\ k \in Nat
      /\ (r = <<>> <=> n = 0) /\ (s = <<>> <=> k = 0)
  BY EmptySeq DEF RunTo
<1>2. /\ t \in Seq(FrameByte(w)) /\ Len(t) = n + k
      /\ \A i \in 1 .. n + k : t[i] = IF i <= n THEN r[i] ELSE s[i - n]
  BY <1>1, ConcatProperties
<1>3. /\ n = 0 => b = m
      /\ n # 0 => r[1] = b /\ NextByte(w, r[n]) = m
      /\ \A j \in 1 .. n - 1 : r[j + 1] = NextByte(w, r[j])
      /\ k = 0 => m = e
      /\ k # 0 => s[1] = m /\ NextByte(w, s[k]) = e
      /\ \A j \in 1 .. k - 1 : s[j + 1] = NextByte(w, s[j])
  BY <1>1 DEF RunTo
<1> HIDE DEF t, n, k
<1>4. t = <<>> => n = 0 /\ k = 0
  <2>1. t = <<>> => Len(t) = 0
    OBVIOUS
  <2> QED BY <1>1, <1>2, <2>1
<1>5. t = <<>> => b = e
  BY <1>3, <1>4
<1>6. ASSUME t # <<>> PROVE t[1] = b /\ NextByte(w, t[Len(t)]) = e
  <2>1. n + k # 0
    BY <1>1, <1>2, <1>6, EmptySeq
  <2>2. CASE k = 0
    <3>1. t[1] = r[1] /\ t[n + k] = r[n]
      BY <1>1, <1>2, <2>1, <2>2
    <3> QED BY <1>1, <1>2, <1>3, <2>1, <2>2, <3>1
  <2>3. CASE k # 0 /\ n = 0
    <3>1. t[1] = s[1] /\ t[n + k] = s[k]
      BY <1>1, <1>2, <2>3
    <3> QED BY <1>1, <1>2, <1>3, <2>3, <3>1
  <2>4. CASE k # 0 /\ n # 0
    <3>1. t[1] = r[1] /\ t[n + k] = s[k]
      BY <1>1, <1>2, <2>4
    <3> QED BY <1>1, <1>2, <1>3, <2>4, <3>1
  <2> QED BY <2>2, <2>3, <2>4
<1>7. ASSUME NEW j \in 1 .. Len(t) - 1 PROVE t[j + 1] = NextByte(w, t[j])
  <2>0. j \in 1 .. n + k - 1 /\ j \in 1 .. n + k /\ j + 1 \in 1 .. n + k
    BY <1>1, <1>2
  <2>1. CASE j < n
    <3>1. t[j] = r[j] /\ t[j + 1] = r[j + 1] /\ j \in 1 .. n - 1
      BY <1>1, <1>2, <2>0, <2>1
    <3> QED BY <1>3, <3>1
  <2>2. CASE j = n
    <3>1. t[j] = r[n] /\ t[j + 1] = s[1] /\ k # 0 /\ n # 0
      BY <1>1, <1>2, <2>0, <2>2
    <3> QED BY <1>3, <3>1
  <2>3. CASE j > n
    <3>1. t[j] = s[j - n] /\ t[j + 1] = s[(j - n) + 1] /\ j - n \in 1 .. k - 1
      BY <1>1, <1>2, <2>0, <2>3
    <3> QED BY <1>3, <3>1
  <2> QED BY <1>1, <2>0, <2>1, <2>2, <2>3
<1> QED BY <1>2, <1>5, <1>6, <1>7 DEF RunTo, t

LEMMA RunDrop ==
  ASSUME NEW w, NEW r, NEW b, NEW e, RunTo(w, r, b, e), NEW n \in 1 .. Len(r)
  PROVE  RunTo(w, SubSeq(r, n + 1, Len(r)), NextByte(w, r[n]), e)
<1> DEFINE k == Len(r)
           s == SubSeq(r, n + 1, k)
<1>1. /\ r \in Seq(FrameByte(w)) /\ k \in Nat /\ n \in 1 .. k /\ r # <<>>
      /\ \A i \in 1 .. k : r[i] \in FrameByte(w)
  BY DEF RunTo
<1>2. /\ s \in Seq(FrameByte(w)) /\ Len(s) = k - n
      /\ \A i \in 1 .. k - n : s[i] = r[n + i]
  BY <1>1
<1>3. NextByte(w, r[k]) = e /\ \A j \in 1 .. k - 1 : r[j + 1] = NextByte(w, r[j])
  BY <1>1 DEF RunTo
<1> HIDE DEF s, k
<1>4. ASSUME s = <<>> PROVE NextByte(w, r[n]) = e
  <2>1. k = n
    BY <1>1, <1>2, <1>4
  <2> QED BY <1>3, <2>1
<1>5. ASSUME s # <<>> PROVE s[1] = NextByte(w, r[n]) /\ NextByte(w, s[Len(s)]) = e
  <2>1. k - n # 0
    BY <1>1, <1>2, <1>5, EmptySeq
  <2>2. 1 \in 1 .. k - n /\ k - n \in 1 .. k - n /\ n \in 1 .. k - 1 /\ n + (k - n) = k
    BY <1>1, <2>1
  <2>3. s[1] = r[n + 1] /\ s[k - n] = r[k]
    BY <1>2, <2>2
  <2> QED BY <1>2, <1>3, <2>2, <2>3
<1>6. ASSUME NEW j \in 1 .. Len(s) - 1 PROVE s[j + 1] = NextByte(w, s[j])
  <2>1. j \in 1 .. k - n /\ j + 1 \in 1 .. k - n /\ n + j \in 1 .. k - 1 /\ n + (j + 1) = (n + j) + 1
    BY <1>1, <1>2
  <2> QED BY <1>2, <1>3, <2>1
<1> QED BY <1>2, <1>4, <1>5, <1>6 DEF RunTo, s, k

\* Inside a part of a frame the bytes are numbered.
LEMMA RunInside ==
  ASSUME NEW w, NEW r, NEW f, NEW what, NEW i \in Nat, NEW e, RunTo(w, r, Byte(f, what, i), e),
         NEW n \in 1 .. Len(r),
         \A k \in Nat : k >= i /\ k < i + n - 1 => NextByte(w, Byte(f, what, k)) = Byte(f, what, k + 1)
  PROVE  \A j \in 1 .. n : r[j] = Byte(f, what, i + j - 1)
<1> DEFINE T == {j \in 1 .. n : r[j] # Byte(f, what, i + j - 1)}
<1>0. Len(r) \in Nat /\ r # <<>> /\ n \in Nat
  BY DEF RunTo
<1>1. SUFFICES ASSUME T # {} PROVE FALSE
  OBVIOUS
<1>2. PICK j \in T : \A k \in T : j <= k
  <2>1. T \in SUBSET Nat
    BY <1>0
  <2> HIDE DEF T
  <2> QED BY <1>1, <2>1, LeastNumber
<1>3. j # 1
  <2>1. r[1] = Byte(f, what, i)
    BY <1>0 DEF RunTo
  <2>2. i + 1 - 1 = i
    OBVIOUS
  <2> QED BY <2>1, <2>2
<1>4. j \in 2 .. n /\ j - 1 \in 1 .. n /\ j - 1 \notin T
  BY <1>0, <1>2, <1>3
<1>5. r[j - 1] = Byte(f, what, i + j - 2)
  <2>1. r[j - 1] = Byte(f, what, i + (j - 1) - 1)
    BY <1>4
  <2>2. i + (j - 1) - 1 = i + j - 2
    BY <1>4
  <2> QED BY <2>1, <2>2
<1>6. r[j] = NextByte(w, r[j - 1])
  <2>1. j - 1 \in 1 .. Len(r) - 1 /\ (j - 1) + 1 = j
    BY <1>0, <1>4
  <2> QED BY <2>1 DEF RunTo
<1>7. NextByte(w, Byte(f, what, i + j - 2)) = Byte(f, what, (i + j - 2) + 1)
  <2>1. i + j - 2 \in Nat /\ i + j - 2 >= i /\ i + j - 2 < i + n - 1
    BY <1>0, <1>4
  <2> QED BY <2>1
<1>8. (i + j - 2) + 1 = i + j - 1
  BY <1>4
<1> QED BY <1>2, <1>5, <1>6, <1>7, <1>8

\* Such a part, as make_frame writes it.
LEMMA RunPart ==
  ASSUME NEW w, NEW f \in 1 .. Len(w), NEW what \in {"type", "len", "ext", "key", "data"}, NEW n \in Nat, NEW e,
         n = 0 => e = Byte(f, what, 0),
         n # 0 => NextByte(w, Byte(f, what, n - 1)) = e,
         \A k \in Nat : k + 1 < n => NextByte(w, Byte(f, what, k)) = Byte(f, what, k + 1)
  PROVE  RunTo(w, Part(f, what, n), Byte(f, what, 0), e)
<1> DEFINE r == Part(f, what, n)
<1>1. r = [i \in 1 .. n |-> Byte(f, what, i - 1)]
  BY DEF Part
<1>2. \A i \in 1 .. n : Byte(f, what, i - 1) \in FrameByte(w)
  BY DEF Byte, FrameByte
<1> HIDE DEF r
<1>3. r \in Seq(FrameByte(w)) /\ Len(r) = n /\ \A i \in 1 .. n : r[i] = Byte(f, what, i - 1)
  BY <1>1, <1>2
<1>4. r = <<>> => n = 0
  BY <1>3
<1>5. ASSUME r # <<>> PROVE r[1] = Byte(f, what, 0) /\ NextByte(w, r[Len(r)]) = e
  <2>1. n # 0
    BY <1>3, <1>5, EmptySeq
  <2>2. 1 \in 1 .. n /\ n \in 1 .. n /\ 1 - 1 = 0
    BY <2>1
  <2> QED BY <1>3, <2>1, <2>2
<1>6. ASSUME NEW j \in 1 .. Len(r) - 1 PROVE r[j + 1] = NextByte(w, r[j])
  <2>1. j \in 1 .. n /\ j + 1 \in 1 .. n /\ j - 1 \in Nat /\ (j - 1) + 1 < n /\ (j + 1) - 1 = (j - 1) + 1
    BY <1>3
  <2> QED BY <1>3, <2>1
<1> QED BY <1>3, <1>4, <1>5, <1>6 DEF RunTo, r

LEMMA RunFrame ==
  ASSUME NEW w \in Seq(Frame), NEW f \in 1 .. Len(w), w[f].long => w[f].len > 0
  PROVE  RunTo(w, MakeFrame(f, w[f]), Byte(f, "type", 0), Byte(f + 1, "type", 0))
<1>a. w[f] \in Frame
  OBVIOUS
<1>b. w[f].len \in Nat /\ w[f].long \in BOOLEAN /\ w[f].masked \in BOOLEAN
  BY <1>a DEF Frame
<1> DEFINE t == Byte(f, "type", 0)
           e == Byte(f + 1, "type", 0)
           m == w[f].len
           ext == IF w[f].long THEN Part(f, "ext", 2) ELSE <<>>
           key == IF w[f].masked THEN Part(f, "key", KeyLength) ELSE <<>>
           data == Part(f, "data", m)
<1>0. m \in Nat /\ w[f].long \in BOOLEAN /\ w[f].masked \in BOOLEAN
  BY <1>b
<1>1. RunTo(w, Part(f, "type", 1), t, Byte(f, "len", 0))
  <2>1. NextByte(w, Byte(f, "type", 1 - 1)) = Byte(f, "len", 0)
    BY DEF NextByte, Byte
  <2> QED BY <2>1, RunPart
<1>2. RunTo(w, Part(f, "len", 1), Byte(f, "len", 0), AfterLen(w, f))
  <2>1. NextByte(w, Byte(f, "len", 1 - 1)) = AfterLen(w, f)
    BY DEF NextByte, Byte
  <2> HIDE DEF AfterLen
  <2> QED BY <2>1, RunPart
<1>3. RunTo(w, <<>>, AfterExt(w, f), AfterExt(w, f)) /\ RunTo(w, <<>>, AfterKey(w, f), AfterKey(w, f))
  BY DEF RunTo
<1>4. RunTo(w, ext, AfterLen(w, f), AfterExt(w, f))
  <2>1. CASE w[f].long
    <3>1. NextByte(w, Byte(f, "ext", 2 - 1)) = AfterExt(w, f) /\ NextByte(w, Byte(f, "ext", 0)) = Byte(f, "ext", 0 + 1)
      BY DEF NextByte, Byte
    <3>2. \A k \in Nat : k + 1 < 2 => k = 0
      OBVIOUS
    <3>3. RunTo(w, Part(f, "ext", 2), Byte(f, "ext", 0), AfterExt(w, f))
      BY <3>1, <3>2, RunPart
    <3> QED BY <2>1, <3>3 DEF AfterLen
  <2>2. CASE ~w[f].long
    BY <2>2, <1>3 DEF AfterLen
  <2> QED BY <2>1, <2>2
<1>5. RunTo(w, key, AfterExt(w, f), AfterKey(w, f))
  <2>1. CASE w[f].masked
    <3>1. NextByte(w, Byte(f, "key", KeyLength - 1)) = AfterKey(w, f)
      BY DEF NextByte, Byte, KeyLength
    <3>2. ASSUME NEW k \in Nat, k + 1 < KeyLength PROVE NextByte(w, Byte(f, "key", k)) = Byte(f, "key", k + 1)
      BY <3>2 DEF NextByte, Byte, KeyLength
    <3>3. KeyLength \in Nat /\ KeyLength # 0
      BY DEF KeyLength
    <3>4. RunTo(w, Part(f, "key", KeyLength), Byte(f, "key", 0), AfterKey(w, f))
      BY <3>1, <3>2, <3>3, RunPart
    <3> QED BY <2>1, <3>4 DEF AfterExt
  <2>2. CASE ~w[f].masked
    BY <2>2, <1>3 DEF AfterExt
  <2> QED BY <2>1, <2>2
<1>6. RunTo(w, data, AfterKey(w, f), e)
  <2>1. CASE m # 0
    <3>1. NextByte(w, Byte(f, "data", m - 1)) = e
      <4>1. m - 1 \in Nat /\ (m - 1) + 1 = m
        BY <1>0, <2>1
      <4> HIDE DEF m
      <4> QED BY <1>0, <4>1 DEF NextByte, Byte, m
    <3>2. ASSUME NEW k \in Nat, k + 1 < m PROVE NextByte(w, Byte(f, "data", k)) = Byte(f, "data", k + 1)
      BY <3>2 DEF NextByte, Byte
    <3> HIDE DEF m
    <3>3. RunTo(w, Part(f, "data", m), Byte(f, "data", 0), e)
      BY <1>0, <2>1, <3>1, <3>2, RunPart
    <3>4. AfterKey(w, f) = Byte(f, "data", 0)
      BY <1>0, <2>1 DEF AfterKey, m
    <3> QED BY <3>3, <3>4
  <2>2. CASE m = 0
    <3>1. AfterKey(w, f) = e
      BY <2>2 DEF AfterKey
    <3>2. data = <<>>
      BY <2>2 DEF Part
    <3> HIDE DEF data
    <3>3. RunTo(w, <<>>, AfterKey(w, f), e)
      BY <1>3, <3>1
    <3> QED BY <3>2, <3>3
  <2> QED BY <2>1, <2>2
<1>7. MakeFrame(f, w[f]) = Part(f, "type", 1) \o Part(f, "len", 1) \o ext \o key \o data
  BY DEF MakeFrame
<1> HIDE DEF t, e, ext, key, data
<1>8. RunTo(w, Part(f, "type", 1) \o Part(f, "len", 1), t, AfterLen(w, f))
  BY <1>1, <1>2, RunJoin
<1>9. RunTo(w, Part(f, "type", 1) \o Part(f, "len", 1) \o ext, t, AfterExt(w, f))
  BY <1>4, <1>8, RunJoin
<1>10. RunTo(w, Part(f, "type", 1) \o Part(f, "len", 1) \o ext \o key, t, AfterKey(w, f))
  BY <1>5, <1>9, RunJoin
<1>11. RunTo(w, Part(f, "type", 1) \o Part(f, "len", 1) \o ext \o key \o data, t, e)
  BY <1>6, <1>10, RunJoin
<1> QED BY <1>7, <1>11 DEF t, e

\* The stream of the peer runs from its first frame to its end.
LEMMA RunStream ==
  ASSUME NEW w \in Seq(Frame), \A f \in 1 .. Len(w) : w[f].long => w[f].len > 0
  PROVE  RunTo(w, FlattenSeq([f \in 1 .. Len(w) |-> MakeFrame(f, w[f])]), Byte(1, "type", 0), StreamEnd(w))
<1> DEFINE n == Len(w)
           seqs == [f \in 1 .. n |-> MakeFrame(f, w[f])]
<1>0. n \in Nat
  OBVIOUS
<1>1. Len(seqs) = n /\ \A f \in 1 .. n : seqs[f] = MakeFrame(f, w[f])
  <2>1. seqs \in Seq({MakeFrame(f, w[f]) : f \in 1 .. n})
    OBVIOUS
  <2> QED BY <2>1
<1>2. CASE n = 0
  <2>1. FlattenSeq(seqs) = seqs /\ seqs = <<>>
    BY <1>1, <1>2 DEF FlattenSeq
  <2> HIDE DEF seqs
  <2>2. RunTo(w, FlattenSeq(seqs), Byte(1, "type", 0), StreamEnd(w))
    BY <1>2, <2>1 DEF RunTo, StreamEnd
  <2> QED BY <2>2 DEF seqs
<1>3. CASE n # 0
  <2> HIDE DEF seqs
  <2>1. PICK g : /\ g[1] = seqs[1]
                 /\ \A k \in 2 .. n : g[k] = g[k - 1] \o seqs[k]
                 /\ FlattenSeq(seqs) = g[n]
    BY <1>0, <1>1, <1>3, FlattenSteps
  <2> DEFINE P(k) == RunTo(w, g[k], Byte(1, "type", 0), Byte(k + 1, "type", 0))
             T == {k \in 1 .. n : ~P(k)}
  <2>2. \A k \in 1 .. n : RunTo(w, seqs[k], Byte(k, "type", 0), Byte(k + 1, "type", 0))
    BY <1>1, RunFrame
  <2>3. P(1)
    BY <1>0, <1>3, <2>1, <2>2
  <2>4. ASSUME NEW k \in 2 .. n, P(k - 1) PROVE P(k)
    <3>1. RunTo(w, g[k - 1], Byte(1, "type", 0), Byte(k, "type", 0))
      <4>1. (k - 1) + 1 = k
        OBVIOUS
      <4> QED BY <2>4, <4>1
    <3>2. k \in 1 .. n
      OBVIOUS
    <3>3. RunTo(w, seqs[k], Byte(k, "type", 0), Byte(k + 1, "type", 0)) /\ g[k] = g[k - 1] \o seqs[k]
      BY <2>1, <2>2, <3>2
    <3> QED BY <3>1, <3>3, RunJoin
  <2>5. T = {}
    <3> SUFFICES ASSUME T # {} PROVE FALSE
      OBVIOUS
    <3>1. PICK k \in T : \A j \in T : k <= j
      <4>1. T \in SUBSET Nat
        BY <1>0
      <4> HIDE DEF T
      <4> QED BY <4>1, LeastNumber
    <3> HIDE DEF P
    <3>2. k # 1
      BY <2>3
    <3>3. k \in 2 .. n /\ k - 1 \in 1 .. n /\ k - 1 \notin T
      BY <1>0, <3>1, <3>2
    <3> QED BY <2>4, <3>3
  <2>6. P(n)
    BY <1>0, <1>3, <2>5
  <2> QED BY <2>1, <2>6 DEF StreamEnd, seqs
<1> QED BY <1>2, <1>3

\* What is taken from the front of a sequence is taken from the front of the
\* longer one that it begins.
LEMMA DropConcat ==
  ASSUME NEW S, NEW s \in Seq(S), NEW t \in Seq(S), NEW n \in 0 .. Len(s)
  PROVE  /\ SubSeq(s, n + 1, Len(s)) \in Seq(S) /\ Len(SubSeq(s, n + 1, Len(s))) = Len(s) - n
         /\ s \o t \in Seq(S) /\ Len(s \o t) = Len(s) + Len(t)
         /\ \A i \in 1 .. Len(s) : (s \o t)[i] = s[i]
         /\ SubSeq(s \o t, n + 1, Len(s \o t)) = SubSeq(s, n + 1, Len(s)) \o t
<1> DEFINE k == Len(s)
           m == Len(t)
           u == s \o t
           a == SubSeq(s, n + 1, k)
           l == SubSeq(u, n + 1, k + m)
           r == a \o t
<1>1. k \in Nat /\ m \in Nat /\ n \in 0 .. k
  OBVIOUS
<1>2. u \in Seq(S) /\ Len(u) = k + m /\ \A i \in 1 .. k + m : u[i] = IF i <= k THEN s[i] ELSE t[i - k]
  BY ConcatProperties
<1>3. a \in Seq(S) /\ Len(a) = k - n /\ \A i \in 1 .. k - n : a[i] = s[n + i]
  BY <1>1
<1>4. l \in Seq(S) /\ Len(l) = k + m - n /\ \A i \in 1 .. k + m - n : l[i] = u[n + i]
  <2> HIDE DEF u
  <2> QED BY <1>1, <1>2
<1>5. r \in Seq(S) /\ Len(r) = (k - n) + m
      /\ \A i \in 1 .. (k - n) + m : r[i] = IF i <= k - n THEN a[i] ELSE t[i - (k - n)]
  <2> HIDE DEF a
  <2>1. /\ r \in Seq(S) /\ Len(r) = Len(a) + m
        /\ \A i \in 1 .. Len(a) + m : r[i] = IF i <= Len(a) THEN a[i] ELSE t[i - Len(a)]
    BY <1>3, ConcatProperties
  <2> QED BY <1>3, <2>1
<1> HIDE DEF a, l, r, u
<1>6. ASSUME NEW i \in 1 .. k + m - n PROVE l[i] = r[i]
  <2>1. i \in 1 .. (k - n) + m /\ n + i \in 1 .. k + m
    BY <1>1
  <2>2. CASE i <= k - n
    <3>1. l[i] = u[n + i] /\ r[i] = a[i] /\ a[i] = s[n + i] /\ n + i <= k
      BY <1>1, <1>3, <1>4, <1>5, <2>1, <2>2
    <3> QED BY <1>2, <2>1, <3>1
  <2>3. CASE i > k - n
    <3>1. l[i] = u[n + i] /\ r[i] = t[i - (k - n)] /\ ~(n + i <= k) /\ (n + i) - k = i - (k - n)
      BY <1>1, <1>4, <1>5, <2>1, <2>3
    <3>2. u[n + i] = t[(n + i) - k]
      BY <1>2, <2>1, <3>1
    <3> QED BY <3>1, <3>2
  <2> QED BY <1>1, <2>2, <2>3
<1>7. l = r
  <2>1. Len(l) = Len(r)
    BY <1>1, <1>4, <1>5
  <2>2. \A i \in 1 .. Len(l) : l[i] = r[i]
    BY <1>4, <1>6
  <2> QED BY <1>4, <1>5, <2>1, <2>2, SeqEqual
<1>8. \A i \in 1 .. k : i \in 1 .. k + m
  BY <1>1
<1>9. \A i \in 1 .. k : u[i] = s[i]
  BY <1>2, <1>8
<1> QED BY <1>2, <1>3, <1>7, <1>9 DEF a, l, r, u

LEMMA SplitConcat ==
  ASSUME NEW S, NEW t \in Seq(S), NEW n \in 0 .. Len(t)
  PROVE  /\ SubSeq(t, 1, n) \in Seq(S) /\ SubSeq(t, n + 1, Len(t)) \in Seq(S)
         /\ Len(SubSeq(t, 1, n)) = n /\ Len(SubSeq(t, n + 1, Len(t))) = Len(t) - n
         /\ \A i \in 1 .. Len(t) - n : SubSeq(t, n + 1, Len(t))[i] = t[n + i]
         /\ SubSeq(t, 1, n) \o SubSeq(t, n + 1, Len(t)) = t
<1> DEFINE k == Len(t)
           a == SubSeq(t, 1, n)
           b == SubSeq(t, n + 1, k)
           r == a \o b
<1>1. k \in Nat /\ n \in 0 .. k
  OBVIOUS
<1>2. a \in Seq(S) /\ Len(a) = n /\ \A i \in 1 .. n : a[i] = t[i]
  BY <1>1
<1>3. b \in Seq(S) /\ Len(b) = k - n /\ \A i \in 1 .. k - n : b[i] = t[n + i]
  BY <1>1
<1> HIDE DEF a, b
<1>4. r \in Seq(S) /\ Len(r) = n + (k - n)
      /\ \A i \in 1 .. n + (k - n) : r[i] = IF i <= n THEN a[i] ELSE b[i - n]
  BY <1>2, <1>3, ConcatProperties
<1> HIDE DEF r
<1>5. ASSUME NEW i \in 1 .. k PROVE r[i] = t[i]
  <2>1. i \in 1 .. n + (k - n)
    BY <1>1
  <2>2. CASE i <= n
    BY <1>1, <1>2, <1>4, <2>1, <2>2
  <2>3. CASE i > n
    <3>1. i - n \in 1 .. k - n /\ n + (i - n) = i /\ ~(i <= n)
      BY <1>1, <2>3
    <3>2. b[i - n] = t[i]
      BY <1>3, <3>1
    <3> QED BY <1>4, <2>1, <3>1, <3>2
  <2> QED BY <1>1, <2>2, <2>3
<1>6. r = t
  <2>1. Len(r) = Len(t)
    BY <1>1, <1>4
  <2> QED BY <1>4, <1>5, <2>1, SeqEqual
<1> QED BY <1>2, <1>3, <1>6 DEF a, b, r

-----------------------------------------------------------------------------
(* The session.                                                            *)

WsSent == wsSends
Handshaken == Byte(0, "handshake", 0)
Rest == fragment \o wsStream
This == Len(delivered) + 1
Cut(f, how) == <<f, how>> \in wsCuts

WsHeader == [of : Nat, len : Nat, ext : {<<>>}, key : [0 .. (KeyLength - 1) -> Nat]]
WsPayload == [len : Nat, right : BOOLEAN]
WsDelivered == [of : Nat, len : Nat, right : BOOLEAN]

ParserOK ==
  /\ WsTypeOK
  /\ header \in WsHeader /\ payload \in WsPayload /\ delivered \in Seq(WsDelivered)
  /\ step # "data" => payload = Nothing
  /\ step \in {"len", "ext", "key", "data"} => header.of \in 1 .. Len(WsSent)
  /\ step \in {"ext", "key", "data"} => payload.len < header.len
  /\ step \in {"fixed", "len", "ext"} => keyPos = 0
  /\ step \in {"fixed", "len"} => extPos = 0
  /\ step = "ext" => extPos < 2
  /\ step = "key" => keyPos < KeyLength

\* The byte that a parser in step with the stream takes next.
Expected ==
  CASE step = "fixed" -> Byte(This, "type", 0)
    [] step = "len"   -> Byte(This, "len", 0)
    [] step = "ext"   -> Byte(This, "ext", 0)
    [] step = "key"   -> Byte(This, "key", keyPos)
    [] step = "data"  -> Byte(This, "data", payload.len)

\* The parser is in step: it reads frame This, and what it keeps of a frame that
\* was not cut at a bad place is right.
InStep ==
  /\ step # "lost" /\ RunTo(WsSent, Rest, Expected, StreamEnd(WsSent))
  /\ step # "fixed" => header.of = This
  /\ step \in {"ext", "key", "data"} => header.len = WsSent[This].len
  /\ step = "ext" => extPos = 0 /\ WsSent[This].long
  /\ step = "key" => WsSent[This].masked /\ (keyPos # 0 => Cut(This, "bytes"))
  /\ step = "data" /\ ~Cut(This, "bytes") =>
       /\ payload.right
       /\ WsSent[This].masked => payload.len % KeyLength = 0 /\ \A i \in 0 .. (KeyLength - 1) : header.key[i] = i

\* Or the frame it should read cannot be found any more.
OutOfStep == \E f \in 1 .. This : ~Framed(f)

StreamOK ==
  /\ fragment \in Seq(FrameByte(WsSent) \cup {Handshaken}) /\ wsStream \in Seq(FrameByte(WsSent) \cup {Handshaken})
  /\ wsStream # <<>> => Harm(wsStream[1]) \subseteq wsCuts
  /\ wsState # "closed" =>
       \/ /\ handshake /\ Rest \in Seq(FrameByte(WsSent))
          /\ InStep \/ OutOfStep
       \/ /\ ~handshake /\ Rest # <<>> /\ Rest[1] = Handshaken
          /\ RunTo(WsSent, SubSeq(Rest, 2, Len(Rest)), Byte(1, "type", 0), StreamEnd(WsSent))
          /\ step = "fixed" /\ header = NoHeader

\* What is sent is in one of three places, one thing at most is being written,
\* and nothing waits when nothing is.
WsItem == {Text(n) : n \in Nat} \cup {Answer("101"), Answer("404")}

SendOK ==
  /\ wsOut \in Seq(WsItem) /\ wsSending \in Seq(WsItem) /\ outList \in Seq(WsItem)
  /\ Len(wsSending) <= 1 /\ (wsSending = <<>> => outList = <<>>)
  /\ ~handshake => answerAfter = 0
  /\ OutInOrder

CloseOK ==
  /\ ~handshake => delivered = <<>> /\ (wsState # "closed" => closeTold = 0)
  /\ wsState = "open" => closeTold = 0
  /\ wsState = "closed" => closeTold = 1
  /\ closeTold \in {0, 1} /\ (closeTold = 1 => wsState = "closed" \/ refuses = "upgrade")
  /\ refuses \in {"no", "key", "upgrade"}
  /\ refuses = "key" => delivered = <<>> /\ (handshake => wsState = "closed")

WsInv == ParserOK /\ StreamOK /\ FramesAsSent /\ SendOK /\ CloseOK

-----------------------------------------------------------------------------
(* The frames and what is found of them.                                   *)

LEMMA FrameTypes ==
  ASSUME wsSends \in Frames
  PROVE  /\ WsSent \in Seq(Frame) /\ Len(WsSent) \in Nat
         /\ \A f \in 1 .. Len(WsSent) :
              /\ WsSent[f].len \in Nat /\ WsSent[f].long \in BOOLEAN /\ WsSent[f].masked \in BOOLEAN
              /\ WsSent[f].long => WsSent[f].len > 0
<1>1. WsSent \in Seq(Frame) /\ Len(WsSent) \in Nat
  BY FramesAssumption DEF WsSent
<1>2. ASSUME NEW f \in 1 .. Len(WsSent)
      PROVE  /\ WsSent[f].len \in Nat /\ WsSent[f].long \in BOOLEAN /\ WsSent[f].masked \in BOOLEAN
             /\ WsSent[f].long => WsSent[f].len > 0
  <2>1. WsSent[f] \in Frame
    BY <1>1
  <2>2. f \in DOMAIN WsSent
    BY <1>1
  <2>3. WsSent[f].long => WsSent[f].len > 0
    BY <2>2, FramesAssumption DEF WsSent
  <2> QED BY <2>1, <2>3 DEF Frame
<1> QED BY <1>1, <1>2

LEMMA FramedDown ==
  ASSUME NEW f \in Nat, NEW g \in 1 .. f, Framed(f)
  PROVE  Framed(g)
<1>1. \A h \in 1 .. (g - 1) : h \in 1 .. (f - 1)
  OBVIOUS
<1>2. \A h \in 1 .. g : h \in 1 .. f
  OBVIOUS
<1> QED BY <1>1, <1>2 DEF Framed

LEMMA StaysUnframed ==
  ASSUME wsSends' = wsSends, wsCuts \subseteq wsCuts', NEW f, Framed(f)'
  PROVE  Framed(f)
BY DEF Framed

LEMMA StaysOut ==
  ASSUME wsSends' = wsSends, wsCuts \subseteq wsCuts', OutOfStep,
         Len(delivered) \in Nat, Len(delivered') \in Nat, Len(delivered) <= Len(delivered')
  PROVE  OutOfStep'
<1>1. PICK f \in 1 .. This : ~Framed(f)
  BY DEF OutOfStep
<1>2. f \in 1 .. This'
  BY DEF This
<1>3. ~Framed(f)'
  BY <1>1, StaysUnframed
<1> QED BY <1>2, <1>3 DEF OutOfStep

\* A frame that comes as it should, if it can be found.
LEMMA FrameComes ==
  ASSUME delivered \in Seq(WsDelivered), FramesAsSent, UNCHANGED <<wsSends, wsCuts>>,
         NEW x \in WsDelivered, delivered' = Append(delivered, x),
         Framed(This) => /\ x.of = This /\ x.len = WsSent[This].len
                         /\ ~Cut(This, "bytes") => x.right
  PROVE  FramesAsSent'
<1> DEFINE d == Len(delivered)
<1>1. /\ d \in Nat /\ Len(delivered') = d + 1 /\ delivered' \in Seq(WsDelivered)
      /\ delivered'[d + 1] = x /\ \A i \in 1 .. d : delivered'[i] = delivered[i]
      /\ DOMAIN delivered = 1 .. d /\ DOMAIN delivered' = 1 .. d + 1
  BY AppendProperties
<1>2. SUFFICES ASSUME NEW i \in 1 .. d + 1, Framed(i)'
               PROVE  /\ delivered'[i].of = i /\ delivered'[i].len = wsSends[i].len
                      /\ <<i, "bytes">> \notin wsCuts => delivered'[i].right
  BY <1>1 DEF FramesAsSent
<1>3. Framed(i)
  BY <1>2, StaysUnframed
<1>4. CASE i = d + 1
  BY <1>1, <1>3, <1>4 DEF This, Cut, WsSent
<1>5. CASE i # d + 1
  <2>1. i \in 1 .. d
    BY <1>1, <1>5
  <2> QED BY <1>1, <1>3, <2>1 DEF FramesAsSent
<1> QED BY <1>4, <1>5

\* The other properties of what is delivered, when nothing is.
LEMMA NoFrameComes ==
  ASSUME FramesAsSent, wsSends' = wsSends, wsCuts \subseteq wsCuts', delivered' = delivered
  PROVE  FramesAsSent'
<1> SUFFICES ASSUME NEW i \in DOMAIN delivered, Framed(i)'
             PROVE  /\ delivered[i].of = i /\ delivered[i].len = wsSends[i].len
                    /\ <<i, "bytes">> \notin wsCuts' => delivered[i].right
  BY DEF FramesAsSent
<1>1. Framed(i)
  BY StaysUnframed
<1> QED BY <1>1 DEF FramesAsSent

-----------------------------------------------------------------------------
(* What the steps of the parser have in common.                            *)

LEMMA NextByteKinds ==
  ASSUME NEW w, NEW f, NEW i
  PROVE  /\ NextByte(w, Byte(f, "type", i)) = Byte(f, "len", 0)
         /\ NextByte(w, Byte(f, "len", i)) = AfterLen(w, f)
         /\ NextByte(w, Byte(f, "ext", 1)) = AfterExt(w, f)
         /\ NextByte(w, Byte(f, "key", i)) = IF i < KeyLength - 1 THEN Byte(f, "key", i + 1) ELSE AfterKey(w, f)
         /\ NextByte(w, Byte(f, "data", i)) = IF i + 1 < w[f].len THEN Byte(f, "data", i + 1) ELSE Byte(f + 1, "type", 0)
         /\ NextByte(w, Byte(f, "ext", 0)) = Byte(f, "ext", 1)
BY DEF NextByte, Byte

\* The parser takes n bytes, which are the first of those that are left.
LEMMA ParseStep ==
  ASSUME WsInv, NEW s, Parsing(s), NEW n \in 1 .. Len(fragment), Take(n)
  PROVE  /\ handshake /\ wsState = "parses" /\ step = s
         /\ InStep \/ OutOfStep
         /\ \A i \in 1 .. n : fragment[i] \in FrameByte(WsSent) /\ fragment[i] = Rest[i]
         /\ n \in 1 .. Len(Rest) /\ Rest \in Seq(FrameByte(WsSent))
         /\ Rest' = SubSeq(Rest, n + 1, Len(Rest)) /\ Rest' \in Seq(FrameByte(WsSent)')
         /\ fragment' \in Seq(FrameByte(WsSent) \cup {Handshaken}) /\ Len(fragment') = Len(fragment) - n
         /\ WsSent' = WsSent /\ wsCuts' = wsCuts
<1> DEFINE S == FrameByte(WsSent) \cup {Handshaken}
           k == Len(fragment)
<1>1. /\ handshake /\ wsState = "parses" /\ step = s
      /\ fragment \in Seq(S) /\ wsStream \in Seq(S) /\ Rest \in Seq(FrameByte(WsSent))
      /\ InStep \/ OutOfStep
  BY DEF WsInv, StreamOK, Parsing
<1>2. /\ fragment' = SubSeq(fragment, n + 1, k) /\ wsStream' = wsStream /\ wsSends' = wsSends /\ wsCuts' = wsCuts
      /\ WsSent' = WsSent
  BY DEF Take, peerVars, WsSent
<1> HIDE DEF S
<1>3. k \in Nat /\ n \in 0 .. k
  BY <1>1
<1>4. /\ SubSeq(fragment, n + 1, k) \in Seq(S) /\ Len(SubSeq(fragment, n + 1, k)) = k - n
      /\ Len(fragment \o wsStream) = k + Len(wsStream)
      /\ \A i \in 1 .. k : (fragment \o wsStream)[i] = fragment[i]
      /\ SubSeq(fragment \o wsStream, n + 1, Len(fragment \o wsStream)) = SubSeq(fragment, n + 1, k) \o wsStream
  BY <1>1, <1>3, DropConcat
<1>5. /\ Rest' = SubSeq(Rest, n + 1, Len(Rest)) /\ Len(Rest) = k + Len(wsStream)
      /\ \A i \in 1 .. n : fragment[i] = Rest[i]
  <2>1. Rest' = SubSeq(fragment, n + 1, k) \o wsStream
    BY <1>2 DEF Rest
  <2>2. Rest = fragment \o wsStream
    BY DEF Rest
  <2>3. \A i \in 1 .. n : i \in 1 .. k
    BY <1>3
  <2> HIDE DEF k
  <2> QED BY <1>4, <2>1, <2>2, <2>3
<1>6. n \in 1 .. Len(Rest)
  BY <1>1, <1>3, <1>5
<1>7. \A i \in 1 .. n : Rest[i] \in FrameByte(WsSent)
  BY <1>1, <1>6
<1>8. Rest' \in Seq(FrameByte(WsSent)) /\ FrameByte(WsSent)' = FrameByte(WsSent)
  <2>1. SubSeq(Rest, n + 1, Len(Rest)) \in Seq(FrameByte(WsSent))
    BY <1>1, <1>6
  <2> QED BY <1>2, <1>5, <2>1 DEF FrameByte, WsSent
<1> QED BY <1>1, <1>2, <1>4, <1>5, <1>6, <1>7, <1>8 DEF S

\* Of a parser in step they are those it expects.
LEMMA ParseExpected ==
  ASSUME WsInv, NEW s, Parsing(s), NEW n \in 1 .. Len(fragment), Take(n), InStep
  PROVE  /\ fragment[1] = Expected /\ This \in 1 .. Len(WsSent)
         /\ RunTo(WsSent, Rest', NextByte(WsSent, fragment[n]), StreamEnd(WsSent))
<1>1. /\ n \in 1 .. Len(Rest) /\ Rest \in Seq(FrameByte(WsSent)) /\ Rest' = SubSeq(Rest, n + 1, Len(Rest))
      /\ \A i \in 1 .. n : fragment[i] = Rest[i] /\ fragment[i] \in FrameByte(WsSent)
  BY ParseStep
<1>2. RunTo(WsSent, Rest, Expected, StreamEnd(WsSent))
  BY DEF InStep
<1>3. 1 \in 1 .. n /\ n \in 1 .. n /\ Rest # <<>>
  BY <1>1
<1>4. fragment[1] = Expected
  BY <1>1, <1>2, <1>3 DEF RunTo
<1>5. This \in 1 .. Len(WsSent)
  <2>1. Expected.of = This
    BY DEF Expected, Byte, InStep, WsInv, ParserOK, WsTypeOK
  <2>2. fragment[1].of \in 1 .. Len(WsSent)
    BY <1>1, <1>3 DEF FrameByte
  <2> QED BY <1>4, <2>1, <2>2
<1>6. RunTo(WsSent, SubSeq(Rest, n + 1, Len(Rest)), NextByte(WsSent, Rest[n]), StreamEnd(WsSent))
  BY <1>1, <1>2, RunDrop
<1> QED BY <1>1, <1>3, <1>4, <1>5, <1>6

\* The invariant is kept when the parser's part of it is.
LEMMA ParseKeeps ==
  ASSUME WsInv, NEW s, Parsing(s), NEW n \in 1 .. Len(fragment), Take(n),
         ParserOK', FramesAsSent', (InStep \/ OutOfStep)'
  PROVE  WsInv'
<1>0. /\ UNCHANGED <<wsSends, wsStream, refuses, wsCuts, handshake, closeTold, outList, wsSending, wsOut, texts, answerAfter>>
      /\ wsState' = CASE n < Len(fragment) -> "parses"
                      [] n = Len(fragment) -> IF closeTold = 0 THEN "open" ELSE "closed"
  BY DEF Take, peerVars, outVars
<1>1. /\ handshake /\ wsState = "parses" /\ Rest' \in Seq(FrameByte(WsSent)') /\ Len(fragment) \in Nat
      /\ fragment' \in Seq(FrameByte(WsSent) \cup {Handshaken}) /\ WsSent' = WsSent
  <2>1. Len(fragment) \in Nat
    BY DEF WsInv, StreamOK
  <2> QED BY <2>1, ParseStep
<1>2. closeTold \in {0, 1} /\ (closeTold = 1 => refuses = "upgrade") /\ refuses \in {"no", "upgrade"}
  BY <1>1 DEF WsInv, CloseOK
<1>3. \/ wsState' = "parses"
      \/ wsState' = "open" /\ closeTold = 0
      \/ wsState' = "closed" /\ closeTold = 1
  <2>1. CASE n < Len(fragment)
    BY <1>0, <1>1, <2>1
  <2>2. CASE n = Len(fragment)
    BY <1>0, <1>1, <1>2, <2>2
  <2> QED BY <1>1, <2>1, <2>2
<1>4. CloseOK'
  BY <1>0, <1>1, <1>2, <1>3 DEF CloseOK
<1>5. SendOK'
  BY <1>0 DEF WsInv, SendOK, OutInOrder
<1>6. StreamOK'
  <2>1. wsStream # <<>> => (Harm(wsStream[1]) \subseteq wsCuts)'
    BY <1>0 DEF WsInv, StreamOK, Harm, Coded
  <2>2. (wsStream \in Seq(FrameByte(WsSent) \cup {Handshaken}))' /\ (fragment \in Seq(FrameByte(WsSent) \cup {Handshaken}))'
    BY <1>0, <1>1 DEF WsInv, StreamOK, FrameByte, WsSent, Handshaken
  <2> QED BY <1>0, <1>1, <2>1, <2>2 DEF StreamOK
<1> QED BY <1>4, <1>5, <1>6 DEF WsInv

\* What a type of the frame has in it stays what it was where nothing of it changes.
LEMMA KeepsTypes ==
  ASSUME WsInv, NEW s, Parsing(s), NEW n \in 1 .. Len(fragment), Take(n),
         step' \in {"fixed", "len", "ext", "key", "data", "lost"}, keyPos' \in 0 .. KeyLength, extPos' \in 0 .. 2
  PROVE  WsTypeOK'
<1>1. /\ UNCHANGED <<wsSends, handshake, closeTold, texts, answerAfter>>
      /\ wsState' = CASE n < Len(fragment) -> "parses"
                      [] n = Len(fragment) -> IF closeTold = 0 THEN "open" ELSE "closed"
  BY DEF Take, peerVars, outVars
<1>2. Len(fragment) \in Nat /\ fragment' \in Seq(FrameByte(WsSent) \cup {Handshaken}) /\ Len(fragment') = Len(fragment) - n
  <2>1. Len(fragment) \in Nat
    BY DEF WsInv, StreamOK
  <2> QED BY <2>1, ParseStep
<1>3. wsState' \in {"open", "parses", "closed"} /\ (wsState' # "parses" => fragment' = <<>>)
  <2>1. CASE n < Len(fragment)
    BY <1>1, <1>2, <2>1
  <2>2. CASE n = Len(fragment)
    <3>1. Len(fragment') = 0
      BY <1>2, <2>2
    <3>2. fragment' = <<>>
      BY <1>2, <3>1, EmptySeq
    <3> QED BY <1>1, <1>2, <2>2, <3>2
  <2> QED BY <1>2, <2>1, <2>2
<1>4. WsTypeOK
  BY DEF WsInv, ParserOK
<1> QED BY <1>1, <1>3, <1>4 DEF WsTypeOK

-----------------------------------------------------------------------------
(* The steps of the parser.                                                *)

LEMMA FixedHeaderStep ==
  ASSUME WsInv, FixedHeader
  PROVE  WsInv'
<1>1. /\ Parsing("fixed") /\ Take(1) /\ header' = [NoHeader EXCEPT !.of = fragment[1].of]
      /\ extPos' = 0 /\ step' = IF fragment[1].what = "type" THEN "len" ELSE "lost"
      /\ UNCHANGED <<keyPos, payload, delivered>>
  BY DEF FixedHeader
<1>2. 1 \in 1 .. Len(fragment)
  <2>1. fragment # <<>> /\ fragment \in Seq(FrameByte(WsSent) \cup {Handshaken})
    BY <1>1 DEF Parsing, WsInv, StreamOK
  <2> QED BY <2>1, EmptySeq
<1>3. step = "fixed" /\ (InStep \/ OutOfStep) /\ fragment[1] \in FrameByte(WsSent) /\ WsSent' = WsSent /\ wsCuts' = wsCuts
  BY <1>1, <1>2, ParseStep
<1>4. keyPos = 0 /\ extPos = 0 /\ payload = Nothing /\ delivered \in Seq(WsDelivered)
  BY <1>3 DEF WsInv, ParserOK
<1>5. fragment[1].of \in 1 .. Len(WsSent) /\ fragment[1].what \in {"type", "len", "ext", "key", "data"}
  BY <1>3 DEF FrameByte
<1>6. header' \in WsHeader /\ header'.of = fragment[1].of
  BY <1>1, <1>5 DEF NoHeader, WsHeader, KeyLength
<1>7. ParserOK'
  <2>1. WsTypeOK'
    <3>1. step' \in {"fixed", "len", "ext", "key", "data", "lost"} /\ keyPos' \in 0 .. KeyLength /\ extPos' \in 0 .. 2
      BY <1>1, <1>4 DEF KeyLength
    <3> QED BY <1>1, <1>2, <3>1, KeepsTypes
  <2>2. payload' \in WsPayload /\ payload' = Nothing /\ delivered' \in Seq(WsDelivered) /\ keyPos' = 0 /\ extPos' = 0
    BY <1>1, <1>4 DEF WsPayload, Nothing
  <2>3. step' \in {"len", "lost"} /\ header'.of \in 1 .. Len(WsSent')
    BY <1>1, <1>3, <1>5, <1>6
  <2> QED BY <1>6, <2>1, <2>2, <2>3 DEF ParserOK
<1>8. FramesAsSent'
  <2>1. FramesAsSent /\ wsSends' = wsSends
    BY <1>3 DEF WsInv, WsSent
  <2> QED BY <1>1, <1>3, <2>1, NoFrameComes
<1>9. (InStep \/ OutOfStep)'
  <2>1. CASE OutOfStep
    <3>1. Len(delivered) \in Nat /\ Len(delivered') = Len(delivered) /\ wsSends' = wsSends
      BY <1>1, <1>3, <1>4 DEF WsSent
    <3> QED BY <1>3, <2>1, <3>1, StaysOut
  <2>2. CASE InStep
    <3>1. /\ fragment[1] = Expected /\ RunTo(WsSent, Rest', NextByte(WsSent, fragment[1]), StreamEnd(WsSent))
      BY <1>1, <1>2, <2>2, ParseExpected
    <3>2. Expected = Byte(This, "type", 0) /\ This' = This
      BY <1>1, <1>3 DEF Expected, This
    <3>3. fragment[1].what = "type" /\ fragment[1].of = This /\ NextByte(WsSent, fragment[1]) = Byte(This, "len", 0)
      <4>1. fragment[1] = Byte(This, "type", 0)
        BY <3>1, <3>2
      <4>2. Byte(This, "type", 0).what = "type" /\ Byte(This, "type", 0).of = This
        BY DEF Byte
      <4> QED BY <4>1, <4>2, NextByteKinds
    <3>4. Expected' = Byte(This, "len", 0) /\ step' = "len"
      BY <1>1, <3>2, <3>3 DEF Expected
    <3>5. (RunTo(WsSent, Rest, Expected, StreamEnd(WsSent)))'
      BY <1>3, <3>1, <3>3, <3>4 DEF StreamEnd
    <3>6. header'.of = This'
      BY <1>6, <3>2, <3>3
    <3> QED BY <3>4, <3>5, <3>6 DEF InStep
  <2> QED BY <1>3, <2>1, <2>2
<1> QED BY <1>1, <1>2, <1>7, <1>8, <1>9, ParseKeeps

LEMMA MisparseStep ==
  ASSUME WsInv, Misparse
  PROVE  WsInv'
<1>1. Parsing("lost") /\ Take(Len(fragment)) /\ UNCHANGED parseVars
  BY DEF Misparse
<1>2. Len(fragment) \in 1 .. Len(fragment)
  <2>1. fragment # <<>> /\ fragment \in Seq(FrameByte(WsSent) \cup {Handshaken})
    BY <1>1 DEF Parsing, WsInv, StreamOK
  <2> QED BY <2>1, EmptySeq
<1>3. step = "lost" /\ (InStep \/ OutOfStep) /\ WsSent' = WsSent /\ wsCuts' = wsCuts /\ wsSends' = wsSends
  <2>1. step = "lost" /\ (InStep \/ OutOfStep) /\ WsSent' = WsSent /\ wsCuts' = wsCuts
    BY <1>1, <1>2, ParseStep
  <2> QED BY <2>1 DEF WsSent
<1>4. UNCHANGED <<step, header, keyPos, extPos, payload, delivered>>
  BY <1>1 DEF parseVars
<1>5. ParserOK'
  <2>1. WsTypeOK'
    <3>1. step' \in {"fixed", "len", "ext", "key", "data", "lost"} /\ keyPos' \in 0 .. KeyLength /\ extPos' \in 0 .. 2
      BY <1>4 DEF WsInv, ParserOK, WsTypeOK
    <3> QED BY <1>1, <1>2, <3>1, KeepsTypes
  <2> QED BY <1>3, <1>4, <2>1 DEF WsInv, ParserOK
<1>6. FramesAsSent'
  BY <1>3, <1>4, NoFrameComes DEF WsInv
<1>7. OutOfStep'
  <2>1. OutOfStep /\ Len(delivered) \in Nat
    BY <1>3 DEF InStep, WsInv, ParserOK
  <2> QED BY <1>3, <1>4, <2>1, StaysOut
<1> QED BY <1>1, <1>2, <1>5, <1>6, <1>7, ParseKeeps

\* A frame is given out, and the parser starts again.
LEMMA Delivers ==
  ASSUME WsInv, NEW s, Parsing(s), NEW n \in 1 .. Len(fragment), Take(n),
         NEW f \in Nat, NEW bytes \in WsPayload, Deliver(f, bytes),
         Framed(This) => /\ f = This /\ bytes.len = WsSent[This].len
                         /\ ~Cut(This, "bytes") => bytes.right,
         \/ OutOfStep \/ ~Framed(This + 1)
         \/ RunTo(WsSent, Rest', Byte(This + 1, "type", 0), StreamEnd(WsSent))
  PROVE  WsInv'
<1> DEFINE x == [of |-> f, len |-> bytes.len, right |-> bytes.right]
<1>1. /\ delivered' = Append(delivered, x)
      /\ step' = "fixed" /\ keyPos' = 0 /\ extPos' = 0 /\ payload' = Nothing /\ header' = NoHeader
  BY DEF Deliver
<1>2. x \in WsDelivered /\ x.of = f /\ x.len = bytes.len /\ x.right = bytes.right
  BY DEF WsDelivered, WsPayload
<1>3. /\ delivered \in Seq(WsDelivered) /\ FramesAsSent /\ WsSent' = WsSent /\ wsCuts' = wsCuts /\ wsSends' = wsSends
  <2>1. WsSent' = WsSent /\ wsCuts' = wsCuts
    BY ParseStep
  <2> QED BY <2>1 DEF WsInv, ParserOK, WsSent
<1> HIDE DEF x
<1>4. /\ delivered' \in Seq(WsDelivered) /\ Len(delivered') = Len(delivered) + 1 /\ Len(delivered) \in Nat
  BY <1>1, <1>2, <1>3, AppendProperties
<1>5. This' = This + 1 /\ This \in Nat
  BY <1>4 DEF This
<1>6. WsTypeOK'
  <2>1. step' \in {"fixed", "len", "ext", "key", "data", "lost"} /\ keyPos' \in 0 .. KeyLength /\ extPos' \in 0 .. 2
    BY <1>1 DEF KeyLength
  <2> QED BY <2>1, KeepsTypes
<1>7. ParserOK'
  <2>1. NoHeader \in WsHeader /\ Nothing \in WsPayload
    BY DEF NoHeader, WsHeader, Nothing, WsPayload, KeyLength
  <2> QED BY <1>1, <1>4, <1>6, <2>1 DEF ParserOK
<1>8. FramesAsSent'
  BY <1>1, <1>2, <1>3, FrameComes
<1>9. (InStep \/ OutOfStep)'
  <2>1. CASE OutOfStep
    BY <1>3, <1>4, <2>1, StaysOut
  <2>2. CASE ~Framed(This + 1)
    <3>1. PICK g : g = This + 1
      OBVIOUS
    <3>2. ~Framed(g)'
      BY <1>3, <2>2, <3>1, StaysUnframed
    <3>3. g \in 1 .. This'
      BY <1>5, <3>1
    <3> QED BY <3>2, <3>3 DEF OutOfStep
  <2>3. CASE RunTo(WsSent, Rest', Byte(This + 1, "type", 0), StreamEnd(WsSent))
    <3>1. Expected' = Byte(This + 1, "type", 0)
      BY <1>1, <1>5 DEF Expected
    <3>2. (RunTo(WsSent, Rest, Expected, StreamEnd(WsSent)))'
      BY <1>3, <2>3, <3>1 DEF StreamEnd
    <3> QED BY <1>1, <3>2 DEF InStep
  <2> QED BY <2>1, <2>2, <2>3
<1> QED BY <1>7, <1>8, <1>9, ParseKeeps

\* Nothing is given out, and the parser goes on.
LEMMA GoesOn ==
  ASSUME WsInv, NEW s, Parsing(s), NEW n \in 1 .. Len(fragment), Take(n),
         delivered' = delivered, ParserOK',
         OutOfStep \/ ~Framed(This) \/ InStep'
  PROVE  WsInv'
<1>1. /\ delivered \in Seq(WsDelivered) /\ FramesAsSent /\ WsSent' = WsSent /\ wsCuts' = wsCuts /\ wsSends' = wsSends
  <2>1. WsSent' = WsSent /\ wsCuts' = wsCuts
    BY ParseStep
  <2> QED BY <2>1 DEF WsInv, ParserOK, WsSent
<1>2. FramesAsSent'
  BY <1>1, NoFrameComes
<1>3. (InStep \/ OutOfStep)'
  <2>1. This \in Nat /\ This \in 1 .. This /\ Len(delivered) \in Nat
    BY <1>1 DEF This
  <2>2. ~Framed(This) => OutOfStep
    BY <2>1 DEF OutOfStep
  <2> QED BY <1>1, <2>1, <2>2, StaysOut
<1> QED BY <1>2, <1>3, ParseKeeps

LEMMA PayloadLenStep ==
  ASSUME WsInv, PayloadLen
  PROVE  WsInv'
<1>1. Parsing("len") /\ Take(1)
  BY DEF PayloadLen
<1>2. 1 \in 1 .. Len(fragment)
  <2>1. fragment # <<>> /\ fragment \in Seq(FrameByte(WsSent) \cup {Handshaken})
    BY <1>1 DEF Parsing, WsInv, StreamOK
  <2> QED BY <2>1, EmptySeq
<1>3. step = "len" /\ (InStep \/ OutOfStep) /\ WsSent' = WsSent
  BY <1>1, <1>2, ParseStep
<1> DEFINE f == header.of
           h == WsSent[f]
<1>4. /\ f \in 1 .. Len(WsSent) /\ f \in Nat /\ header \in WsHeader /\ payload = Nothing /\ keyPos = 0 /\ extPos = 0
      /\ delivered \in Seq(WsDelivered) /\ This \in Nat
  <2>1. f \in 1 .. Len(WsSent) /\ header \in WsHeader /\ payload = Nothing /\ keyPos = 0 /\ extPos = 0
    BY <1>3 DEF WsInv, ParserOK
  <2>2. delivered \in Seq(WsDelivered)
    BY DEF WsInv, ParserOK
  <2>3. This \in Nat
    BY <2>2 DEF This
  <2> QED BY <2>1, <2>2, <2>3
<1>5. h.len \in Nat /\ h.long \in BOOLEAN /\ h.masked \in BOOLEAN /\ (h.long => h.len > 0)
  BY <1>4, FrameTypes DEF WsInv, ParserOK, WsTypeOK
<1>6. HeaderFrame = h
  BY DEF HeaderFrame, WsSent
<1>7. ASSUME InStep
      PROVE  f = This /\ RunTo(WsSent, Rest', AfterLen(WsSent, This), StreamEnd(WsSent))
  <2>1. /\ fragment[1] = Expected /\ RunTo(WsSent, Rest', NextByte(WsSent, fragment[1]), StreamEnd(WsSent))
    BY <1>1, <1>2, <1>7, ParseExpected
  <2>2. Expected = Byte(This, "len", 0) /\ f = This
    BY <1>3, <1>7 DEF Expected, InStep
  <2>3. NextByte(WsSent, Byte(This, "len", 0)) = AfterLen(WsSent, This)
    BY NextByteKinds
  <2> QED BY <2>1, <2>2, <2>3
<1>8. OutOfStep => ~Framed(This)
  <2>1. ASSUME OutOfStep PROVE ~Framed(This)
    BY <1>4, <2>1, FramedDown DEF OutOfStep
  <2> QED BY <2>1
<1> HIDE DEF f, h
<1>9. CASE h.len = 0
  <2>1. Deliver(f, Nothing)
    BY <1>6, <1>9 DEF PayloadLen, f
  <2>2. Nothing \in WsPayload /\ Nothing.len = 0 /\ Nothing.right
    BY DEF Nothing, WsPayload
  <2>3. Framed(This) => InStep
    BY <1>3, <1>8
  <2>4. Framed(This) => f = This /\ Nothing.len = WsSent[This].len
    BY <1>7, <1>9, <2>2, <2>3 DEF h
  <2>5. ASSUME InStep
        PROVE  \/ ~Framed(This + 1)
               \/ RunTo(WsSent, Rest', Byte(This + 1, "type", 0), StreamEnd(WsSent))
    <3>1. f = This /\ RunTo(WsSent, Rest', AfterLen(WsSent, This), StreamEnd(WsSent)) /\ ~h.long /\ h = WsSent[This]
      BY <1>5, <1>7, <1>9, <2>5 DEF h
    <3>2. CASE h.masked
      <4>1. This \in 1 .. ((This + 1) - 1)
        BY <1>4, <1>7, <2>5
      <4> QED BY <1>9, <3>1, <3>2, <4>1 DEF Framed, WsSent
    <3>3. CASE ~h.masked
      <4>1. AfterLen(WsSent, This) = Byte(This + 1, "type", 0)
        BY <1>9, <3>1, <3>3 DEF AfterLen, AfterExt, AfterKey
      <4> QED BY <3>1, <4>1
    <3> QED BY <3>2, <3>3
  <2> QED BY <1>1, <1>2, <1>3, <1>4, <2>1, <2>2, <2>4, <2>5, Delivers
<1>10. CASE h.len # 0
  <2>1. /\ header' = [header EXCEPT !.len = h.len] /\ step' = IF h.long THEN "ext" ELSE IF h.masked THEN "key" ELSE "data"
        /\ UNCHANGED <<keyPos, extPos, payload, delivered>>
    BY <1>6, <1>10 DEF PayloadLen, AfterLength
  <2>2. header' \in WsHeader /\ header'.len = h.len /\ header'.of = f
    BY <1>4, <1>5, <2>1 DEF WsHeader, f
  <2>3. step' \in {"ext", "key", "data"} /\ payload.len = 0 /\ payload.right /\ 0 < h.len
    BY <1>4, <1>5, <1>10, <2>1 DEF Nothing
  <2>4. WsTypeOK'
    <3>1. step' \in {"fixed", "len", "ext", "key", "data", "lost"} /\ keyPos' \in 0 .. KeyLength /\ extPos' \in 0 .. 2
      BY <1>4, <2>1, <2>3 DEF KeyLength
    <3> QED BY <1>1, <1>2, <3>1, KeepsTypes
  <2>5. ParserOK'
    <3>1. payload' = Nothing /\ payload' \in WsPayload /\ delivered' \in Seq(WsDelivered) /\ keyPos' = 0 /\ extPos' = 0
      BY <1>4, <2>1 DEF WsPayload, Nothing
    <3>2. header'.of \in 1 .. Len(WsSent')
      BY <1>3, <1>4, <2>2
    <3>3. payload'.len < header'.len
      BY <2>1, <2>2, <2>3
    <3>4. keyPos' < KeyLength /\ extPos' < 2
      BY <3>1 DEF KeyLength
    <3> QED BY <2>2, <2>3, <2>4, <3>1, <3>2, <3>3, <3>4 DEF ParserOK
  <2>6. ASSUME InStep PROVE InStep'
    <3>1. f = This /\ RunTo(WsSent, Rest', AfterLen(WsSent, This), StreamEnd(WsSent)) /\ h = WsSent[This] /\ This' = This
      BY <1>7, <2>1, <2>6 DEF h, This
    <3>2. AfterLen(WsSent, This) = Expected'
      BY <1>4, <1>5, <1>10, <2>1, <2>3, <3>1 DEF AfterLen, AfterExt, AfterKey, Expected
    <3>3. (RunTo(WsSent, Rest, Expected, StreamEnd(WsSent)))'
      BY <1>3, <3>1, <3>2 DEF StreamEnd
    <3>4. (step = "ext" => extPos = 0 /\ WsSent[This].long)'
      BY <1>3, <1>4, <1>5, <2>1, <3>1
    <3>5. (step = "key" => WsSent[This].masked /\ (keyPos # 0 => Cut(This, "bytes")))'
      BY <1>3, <1>4, <1>5, <2>1, <3>1
    <3>6. (step = "data" => payload.right /\ ~WsSent[This].masked)'
      BY <1>3, <1>4, <1>5, <2>1, <2>3, <3>1
    <3>7. (header.of = This)' /\ (header.len = WsSent[This].len)' /\ step' # "lost"
      BY <1>3, <2>2, <2>3, <3>1
    <3> QED BY <3>3, <3>4, <3>5, <3>6, <3>7 DEF InStep
  <2> QED BY <1>1, <1>2, <1>3, <2>1, <2>5, <2>6, GoesOn
<1> QED BY <1>9, <1>10

\* The parser takes as many bytes as it needs, or all there are.
LEMMA TakesSome ==
  ASSUME WsInv, NEW s, Parsing(s), NEW k \in Nat \ {0}
  PROVE  /\ Least(k, Len(fragment)) \in 1 .. Len(fragment) /\ Least(k, Len(fragment)) \in 1 .. k
         /\ Least(k, Len(fragment)) < k => Least(k, Len(fragment)) = Len(fragment)
         /\ Len(fragment) \in Nat /\ step = s
<1>1. fragment # <<>> /\ fragment \in Seq(FrameByte(WsSent) \cup {Handshaken}) /\ step = s
  BY DEF Parsing, WsInv, StreamOK
<1>2. Len(fragment) \in Nat \ {0}
  BY <1>1, EmptySeq
<1> QED BY <1>1, <1>2 DEF Least

LEMMA HarmOf ==
  ASSUME NEW b, b.i % KeyLength # 0
  PROVE  /\ b.what = "ext" => <<b.of, "length">> \in Harm(b)
         /\ b.what # "ext" /\ Coded(b) => <<b.of, "bytes">> \in Harm(b)
<1> DEFINE D == {d \in {b} : (d.what = "ext" \/ Coded(d)) /\ d.i % KeyLength # 0}
<1>1. b.what = "ext" \/ Coded(b) => b \in D
  OBVIOUS
<1>2. Harm(b) = {<<c.of, IF c.what = "ext" THEN "length" ELSE "bytes">> : c \in D}
  BY DEF Harm
<1> HIDE DEF D
<1>3. ASSUME b.what = "ext" PROVE <<b.of, "length">> \in Harm(b)
  BY <1>1, <1>2, <1>3
<1>4. ASSUME b.what # "ext", Coded(b) PROVE <<b.of, "bytes">> \in Harm(b)
  BY <1>1, <1>2, <1>4
<1> QED BY <1>3, <1>4

\* What was known of the cut behind the last byte that has arrived.
LEMMA CutKnown ==
  ASSUME WsInv, NEW s, Parsing(s), NEW n \in 1 .. Len(fragment), Take(n), InStep, n = Len(fragment),
         NextByte(WsSent, fragment[n]).what # "type"
  PROVE  Harm(NextByte(WsSent, fragment[n])) \subseteq wsCuts
<1> DEFINE b == NextByte(WsSent, fragment[n])
<1>1. RunTo(WsSent, Rest', b, StreamEnd(WsSent))
  BY ParseExpected
<1>2. StreamEnd(WsSent).what = "type"
  BY DEF StreamEnd, Byte
<1>3. Rest' = wsStream
  <2>1. fragment' \in Seq(FrameByte(WsSent) \cup {Handshaken}) /\ Len(fragment') = Len(fragment) - n
    BY ParseStep
  <2>2. Len(fragment) \in Nat
    BY DEF WsInv, StreamOK
  <2>3. Len(fragment') = 0
    BY <2>1, <2>2
  <2>4. fragment' = <<>>
    BY <2>1, <2>3, EmptySeq
  <2>5. wsStream' = wsStream /\ wsStream \in Seq(FrameByte(WsSent) \cup {Handshaken})
    BY DEF Take, peerVars, WsInv, StreamOK
  <2>6. <<>> \o wsStream = wsStream
    BY <2>5
  <2> QED BY <2>4, <2>5, <2>6 DEF Rest
<1> HIDE DEF b
<1>4. b # StreamEnd(WsSent)
  BY <1>2 DEF b
<1>5. wsStream # <<>> /\ wsStream[1] = b
  BY <1>1, <1>3, <1>4 DEF RunTo
<1> QED BY <1>5 DEF WsInv, StreamOK, b

LEMMA ExtendedLenStep ==
  ASSUME WsInv, ExtendedLen
  PROVE  WsInv'
<1> DEFINE n == Least(2 - extPos, Len(fragment))
           h == WsSent[header.of]
<1>0. Parsing("ext")
  BY DEF ExtendedLen
<1>1. step = "ext" /\ extPos \in 0 .. 1 /\ keyPos = 0
  BY <1>0 DEF Parsing, WsInv, ParserOK, WsTypeOK
<1>2. 2 - extPos \in Nat \ {0}
  BY <1>1
<1>3. /\ n \in 1 .. Len(fragment) /\ n \in 1 .. 2 - extPos /\ Len(fragment) \in Nat
      /\ n < 2 - extPos => n = Len(fragment)
  BY <1>0, <1>2, TakesSome
<1>4. /\ Take(n) /\ extPos' = extPos + n
      /\ header' = [header EXCEPT !.len = IF extPos + n < 2 \/ n = 2 THEN @ ELSE Huge]
      /\ step' = IF extPos + n = 2 THEN (IF h.masked THEN "key" ELSE "data") ELSE step
      /\ UNCHANGED <<keyPos, payload, delivered>>
  BY DEF ExtendedLen, AfterLength, HeaderFrame, WsSent
<1>5. (InStep \/ OutOfStep) /\ WsSent' = WsSent
  BY <1>0, <1>3, <1>4, ParseStep
<1>6. /\ header \in WsHeader /\ header.of \in 1 .. Len(WsSent) /\ payload = Nothing /\ payload.len < header.len
      /\ delivered \in Seq(WsDelivered) /\ h.masked \in BOOLEAN
  <2>1. header.of \in 1 .. Len(WsSent)
    BY <1>1 DEF WsInv, ParserOK
  <2> QED BY <1>1, <2>1, FrameTypes DEF WsInv, ParserOK, WsTypeOK
<1> HIDE DEF n, h
<1>7. /\ header' \in WsHeader /\ header'.of = header.of
      /\ header'.len = (IF extPos + n < 2 \/ n = 2 THEN header.len ELSE Huge)
  <2>1. Huge \in Nat
    BY DEF Huge
  <2> QED BY <1>4, <1>6, <2>1 DEF WsHeader
<1>8. extPos' \in 1 .. 2 /\ step' \in {"ext", "key", "data"} /\ (step' = "ext" <=> extPos' # 2)
  BY <1>1, <1>3, <1>4, <1>6
<1>9. ParserOK'
  <2>1. WsTypeOK'
    <3>1. step' \in {"fixed", "len", "ext", "key", "data", "lost"} /\ keyPos' \in 0 .. KeyLength /\ extPos' \in 0 .. 2
      BY <1>1, <1>4, <1>8 DEF KeyLength
    <3> QED BY <1>0, <1>3, <1>4, <3>1, KeepsTypes
  <2>2. payload' = Nothing /\ payload' \in WsPayload /\ delivered' \in Seq(WsDelivered) /\ keyPos' = 0
    BY <1>1, <1>4, <1>6 DEF WsPayload, Nothing
  <2>3. header'.of \in 1 .. Len(WsSent') /\ payload'.len < header'.len
    <3>1. Huge > 0 /\ payload.len = 0
      BY <1>6 DEF Huge, Nothing
    <3>2. payload'.len = 0 /\ 0 < header'.len
      BY <1>4, <1>6, <1>7, <3>1
    <3> QED BY <1>5, <1>6, <1>7, <3>2
  <2>4. (step' = "ext" => extPos' < 2) /\ keyPos' < KeyLength
    BY <1>8, <2>2 DEF KeyLength
  <2> QED BY <1>7, <1>8, <2>1, <2>2, <2>3, <2>4 DEF ParserOK
<1>10. ASSUME InStep PROVE ~Framed(This) \/ InStep'
  <2>1. /\ fragment[1] = Expected /\ RunTo(WsSent, Rest', NextByte(WsSent, fragment[n]), StreamEnd(WsSent)) /\ This \in 1 .. Len(WsSent)
    BY <1>0, <1>3, <1>4, <1>10, ParseExpected
  <2>2. Expected = Byte(This, "ext", 0) /\ extPos = 0 /\ header.of = This /\ header.len = WsSent[This].len
    BY <1>1, <1>10 DEF Expected, InStep
  <2>3. n \in {1, 2}
    BY <1>3, <2>2
  <2>4. CASE n = 1
    <3>1. NextByte(WsSent, fragment[n]) = Byte(This, "ext", 1)
      BY <2>1, <2>2, <2>4, NextByteKinds
    <3>2. Byte(This, "ext", 1).what = "ext" /\ Byte(This, "ext", 1).of = This /\ Byte(This, "ext", 1).i = 1
      BY DEF Byte
    <3>3. n = Len(fragment)
      BY <1>3, <2>2, <2>4
    <3>4. Harm(Byte(This, "ext", 1)) \subseteq wsCuts
      BY <1>0, <1>3, <1>4, <1>10, <3>1, <3>2, <3>3, CutKnown
    <3>5. 1 % KeyLength # 0
      BY DEF KeyLength
    <3>6. <<This, "length">> \in wsCuts
      BY <3>2, <3>4, <3>5, HarmOf
    <3>7. This \in 1 .. This
      BY <2>1
    <3> QED BY <3>6, <3>7 DEF Framed
  <2>5. CASE n = 2
    <3>1. fragment[2] = Byte(This, "ext", 1)
      <4>1. /\ n \in 1 .. Len(Rest) /\ \A i \in 1 .. n : fragment[i] = Rest[i]
        BY <1>0, <1>3, <1>4, ParseStep
      <4>2. 1 \in 1 .. Len(Rest) - 1 /\ 2 \in 1 .. n /\ 1 \in 1 .. n
        <5>1. Len(Rest) \in Nat
          BY <1>10 DEF InStep, RunTo
        <5> QED BY <2>5, <4>1, <5>1
      <4>3. Rest[1 + 1] = NextByte(WsSent, Rest[1])
        BY <1>10, <4>2 DEF InStep, RunTo
      <4>4. 1 + 1 = 2
        OBVIOUS
      <4>5. fragment[2] = NextByte(WsSent, fragment[1])
        BY <4>1, <4>2, <4>3, <4>4
      <4>6. fragment[1] = Byte(This, "ext", 0)
        BY <2>1, <2>2
      <4>7. NextByte(WsSent, Byte(This, "ext", 0)) = Byte(This, "ext", 1)
        BY NextByteKinds
      <4> QED BY <4>5, <4>6, <4>7
    <3>2. RunTo(WsSent, Rest', AfterExt(WsSent, This), StreamEnd(WsSent))
      BY <2>1, <2>5, <3>1, NextByteKinds
    <3>3. step' = (IF h.masked THEN "key" ELSE "data") /\ h = WsSent[This] /\ This' = This /\ header'.len = header.len
      BY <1>4, <1>7, <2>2, <2>5 DEF h, This
    <3>4. keyPos' = 0 /\ payload' = Nothing /\ Nothing.len = 0 /\ Nothing.right /\ WsSent[This].len > 0
      BY <1>1, <1>4, <1>6, <2>2 DEF Nothing
    <3>5. AfterExt(WsSent, This) = Expected'
      BY <3>3, <3>4 DEF AfterExt, AfterKey, Expected
    <3>6. (RunTo(WsSent, Rest, Expected, StreamEnd(WsSent)))'
      BY <1>5, <3>2, <3>5 DEF StreamEnd
    <3>7. (header.of = This)' /\ (header.len = WsSent[This].len)' /\ step' \in {"key", "data"}
      BY <1>5, <1>7, <2>2, <3>3
    <3>8. (step = "key" => WsSent[This].masked /\ (keyPos # 0 => Cut(This, "bytes")))'
      BY <1>5, <3>3, <3>4
    <3>9. (step = "data" => payload.right /\ ~WsSent[This].masked)'
      BY <1>5, <1>6, <3>3, <3>4
    <3> QED BY <3>6, <3>7, <3>8, <3>9 DEF InStep
  <2> QED BY <2>3, <2>4, <2>5
<1> QED BY <1>0, <1>3, <1>4, <1>5, <1>9, <1>10, GoesOn

\* In a part of a frame that is i bytes in, the parser takes n bytes of it.
LEMMA ParsePart ==
  ASSUME WsInv, NEW s, Parsing(s), NEW n \in 1 .. Len(fragment), Take(n), InStep,
         NEW what, NEW i \in Nat, Expected = Byte(This, what, i),
         \A k \in Nat : k >= i /\ k < i + n - 1 => NextByte(WsSent, Byte(This, what, k)) = Byte(This, what, k + 1)
  PROVE  \A j \in 1 .. n : fragment[j] = Byte(This, what, i + j - 1)
<1>1. /\ n \in 1 .. Len(Rest) /\ \A j \in 1 .. n : fragment[j] = Rest[j]
  BY ParseStep
<1>2. RunTo(WsSent, Rest, Byte(This, what, i), StreamEnd(WsSent))
  BY DEF InStep
<1> DEFINE f == This
           r == Rest
           w == WsSent
           e == StreamEnd(WsSent)
<1>3. \A j \in 1 .. n : r[j] = Byte(f, what, i + j - 1)
  <2>1. RunTo(w, r, Byte(f, what, i), e) /\ n \in 1 .. Len(r)
    BY <1>1, <1>2
  <2>2. \A k \in Nat : k >= i /\ k < i + n - 1 => NextByte(w, Byte(f, what, k)) = Byte(f, what, k + 1)
    OBVIOUS
  <2> HIDE DEF f, r, w, e
  <2> QED BY <2>1, <2>2, RunInside
<1> QED BY <1>1, <1>3

LEMMA MaskingKeyStep ==
  ASSUME WsInv, MaskingKey
  PROVE  WsInv'
<1> DEFINE n == Least(KeyLength - keyPos, Len(fragment))
           h == WsSent[header.of]
<1>0. Parsing("key")
  BY DEF MaskingKey
<1>1. step = "key" /\ keyPos \in 0 .. 3
  BY <1>0 DEF Parsing, WsInv, ParserOK, WsTypeOK, KeyLength
<1>2. KeyLength - keyPos \in Nat \ {0} /\ KeyLength = 4
  BY <1>1 DEF KeyLength
<1>3. /\ n \in 1 .. Len(fragment) /\ n \in 1 .. 4 - keyPos /\ Len(fragment) \in Nat
      /\ n < 4 - keyPos => n = Len(fragment)
  BY <1>0, <1>2, TakesSome
<1>4. /\ Take(n) /\ keyPos' = keyPos + n
      /\ header' = [header EXCEPT !.key = CopyKey(n)]
      /\ step' = IF keyPos + n = 4 THEN "data" ELSE step
      /\ UNCHANGED <<extPos, payload, delivered>>
  BY <1>2 DEF MaskingKey
<1>5. (InStep \/ OutOfStep) /\ WsSent' = WsSent /\ wsCuts' = wsCuts
  BY <1>0, <1>3, <1>4, ParseStep
<1>6. /\ header \in WsHeader /\ header.of \in 1 .. Len(WsSent) /\ payload = Nothing /\ payload.len < header.len
      /\ delivered \in Seq(WsDelivered) /\ extPos \in 0 .. 2
  BY <1>1 DEF WsInv, ParserOK, WsTypeOK
<1> HIDE DEF n, h
<1>7. CopyKey(n) \in [0 .. (KeyLength - 1) -> Nat]
  <2>1. ASSUME NEW i \in 0 .. (KeyLength - 1) PROVE (IF i < n THEN fragment[i + 1].i ELSE header.key[i]) \in Nat
    <3>1. CASE i < n
      <4>1. i + 1 \in 1 .. n
        BY <1>2, <1>3, <3>1
      <4>2. fragment[i + 1] \in FrameByte(WsSent)
        BY <1>0, <1>3, <1>4, <4>1, ParseStep
      <4> QED BY <3>1, <4>2 DEF FrameByte
    <3>2. CASE ~(i < n)
      BY <1>6, <3>2 DEF WsHeader
    <3> QED BY <3>1, <3>2
  <2> QED BY <2>1 DEF CopyKey
<1>8. header' \in WsHeader /\ header'.of = header.of /\ header'.len = header.len /\ header'.key = CopyKey(n)
  BY <1>4, <1>6, <1>7 DEF WsHeader
<1>9. keyPos' \in 1 .. 4 /\ step' \in {"key", "data"} /\ (step' = "key" <=> keyPos' # 4)
  BY <1>1, <1>3, <1>4
<1>10. ParserOK'
  <2>1. WsTypeOK'
    <3>1. step' \in {"fixed", "len", "ext", "key", "data", "lost"} /\ keyPos' \in 0 .. KeyLength /\ extPos' \in 0 .. 2
      BY <1>2, <1>4, <1>6, <1>9
    <3> QED BY <1>0, <1>3, <1>4, <3>1, KeepsTypes
  <2>2. payload' = Nothing /\ payload' \in WsPayload /\ delivered' \in Seq(WsDelivered)
    BY <1>4, <1>6 DEF WsPayload, Nothing
  <2>3. header'.of \in 1 .. Len(WsSent') /\ payload'.len < header'.len
    BY <1>4, <1>5, <1>6, <1>8
  <2>4. (step' = "key" => keyPos' < KeyLength)
    BY <1>2, <1>9
  <2> QED BY <1>8, <1>9, <2>1, <2>2, <2>3, <2>4 DEF ParserOK
<1>11. ASSUME InStep PROVE InStep'
  <2>1. /\ RunTo(WsSent, Rest', NextByte(WsSent, fragment[n]), StreamEnd(WsSent)) /\ This \in 1 .. Len(WsSent)
    BY <1>0, <1>3, <1>4, <1>11, ParseExpected
  <2>2. /\ Expected = Byte(This, "key", keyPos) /\ header.of = This /\ header.len = WsSent[This].len /\ WsSent[This].masked
        /\ keyPos # 0 => Cut(This, "bytes")
    BY <1>1, <1>11 DEF Expected, InStep
  <2>3. \A j \in 1 .. n : fragment[j] = Byte(This, "key", keyPos + j - 1)
    <3>1. ASSUME NEW k \in Nat, k >= keyPos, k < keyPos + n - 1
          PROVE  NextByte(WsSent, Byte(This, "key", k)) = Byte(This, "key", k + 1)
      <4>1. k < KeyLength - 1
        BY <1>1, <1>2, <1>3, <3>1
      <4> QED BY <4>1, NextByteKinds
    <3>2. keyPos \in Nat
      BY <1>1
    <3> QED BY <1>0, <1>3, <1>4, <1>11, <2>2, <3>1, <3>2, ParsePart
  <2>4. fragment[n] = Byte(This, "key", keyPos + n - 1)
    <3>1. n \in 1 .. n
      BY <1>3
    <3> QED BY <2>3, <3>1
  <2>5. This' = This /\ (header.of = This)' /\ (header.len = WsSent[This].len)' /\ (WsSent[This].masked)'
    <3>1. This' = This
      BY <1>4 DEF This
    <3> QED BY <1>5, <1>8, <2>2, <3>1
  <2>6. CASE keyPos + n < 4
    <3>1. keyPos + n - 1 < KeyLength - 1 /\ (keyPos + n - 1) + 1 = keyPos + n
      BY <1>1, <1>2, <1>3, <2>6
    <3>2. NextByte(WsSent, fragment[n]) = Byte(This, "key", keyPos + n)
      BY <2>4, <3>1, NextByteKinds
    <3>3. Byte(This, "key", keyPos + n).what = "key" /\ Byte(This, "key", keyPos + n).of = This
          /\ Byte(This, "key", keyPos + n).i = keyPos + n
      BY DEF Byte
    <3>4. n = Len(fragment)
      BY <1>1, <1>3, <2>6
    <3>5. Harm(Byte(This, "key", keyPos + n)) \subseteq wsCuts
      BY <1>0, <1>3, <1>4, <1>11, <3>2, <3>3, <3>4, CutKnown
    <3>6. (keyPos + n) % KeyLength # 0
      BY <1>1, <1>2, <1>3, <2>6
    <3>7. Coded(Byte(This, "key", keyPos + n))
      BY <3>3 DEF Coded
    <3>8. <<This, "bytes">> \in wsCuts
      BY <3>3, <3>5, <3>6, <3>7, HarmOf
    <3>9. step' = "key" /\ Expected' = Byte(This, "key", keyPos + n)
      BY <1>1, <1>3, <1>4, <2>5, <2>6 DEF Expected
    <3>10. (RunTo(WsSent, Rest, Expected, StreamEnd(WsSent)))'
      BY <1>5, <2>1, <3>2, <3>9 DEF StreamEnd
    <3>11. Cut(This, "bytes")'
      BY <1>5, <2>5, <3>8 DEF Cut
    <3> QED BY <2>5, <3>9, <3>10, <3>11 DEF InStep
  <2>7. CASE keyPos + n = 4
    <3>1. ~(keyPos + n - 1 < KeyLength - 1) /\ payload'.len = 0 /\ payload'.right /\ WsSent[This].len > 0
      <4>1. ~(keyPos + n - 1 < KeyLength - 1)
        BY <1>1, <1>2, <1>3, <2>7
      <4>2. WsSent[This].len > 0
        BY <1>6, <2>2 DEF Nothing
      <4> QED BY <1>4, <1>6, <4>1, <4>2 DEF Nothing
    <3>2. NextByte(WsSent, fragment[n]) = Byte(This, "data", 0)
      BY <2>4, <3>1, NextByteKinds DEF AfterKey
    <3>3. step' = "data" /\ Expected' = Byte(This, "data", 0)
      BY <1>4, <2>5, <2>7, <3>1 DEF Expected
    <3>4. (RunTo(WsSent, Rest, Expected, StreamEnd(WsSent)))'
      BY <1>5, <2>1, <3>2, <3>3 DEF StreamEnd
    <3>5. Cut(This, "bytes")' <=> Cut(This, "bytes")
      BY <1>5, <2>5 DEF Cut
    <3>6. ASSUME ~Cut(This, "bytes"), NEW i \in 0 .. (KeyLength - 1) PROVE header'.key[i] = i
      <4>1. keyPos = 0 /\ n = 4
        BY <1>1, <1>3, <2>2, <2>7, <3>6
      <4>2. i + 1 \in 1 .. n /\ i < n /\ 0 + (i + 1) - 1 = i
        BY <1>2, <4>1
      <4>3. fragment[i + 1] = Byte(This, "key", i)
        BY <2>3, <4>1, <4>2
      <4>4. header'.key[i] = fragment[i + 1].i
        BY <1>8, <4>2 DEF CopyKey
      <4> QED BY <4>3, <4>4 DEF Byte
    <3>7. payload'.len % KeyLength = 0
      BY <1>2, <3>1
    <3> QED BY <2>5, <3>1, <3>3, <3>4, <3>5, <3>6, <3>7 DEF InStep
  <2> QED BY <1>1, <1>3, <2>6, <2>7
<1> QED BY <1>0, <1>3, <1>4, <1>5, <1>10, <1>11, GoesOn

LEMMA PayloadDataStep ==
  ASSUME WsInv, PayloadData
  PROVE  WsInv'
<1> DEFINE n == Least(Remain, Len(fragment))
           right == payload.right /\ \A i \in 1 .. n : Decoded(i)
           bytes == [len |-> payload.len + n, right |-> right]
           p == payload.len
           m == header.len
<1>0. Parsing("data")
  BY DEF PayloadData
<1>1. step = "data" /\ header \in WsHeader /\ payload \in WsPayload /\ p < m /\ header.of \in 1 .. Len(WsSent)
      /\ delivered \in Seq(WsDelivered) /\ keyPos \in 0 .. KeyLength /\ extPos \in 0 .. 2
  BY <1>0 DEF Parsing, WsInv, ParserOK, WsTypeOK
<1>2. p \in Nat /\ m \in Nat /\ Remain = m - p /\ m - p \in Nat \ {0} /\ payload.right \in BOOLEAN
  <2>1. p \in Nat /\ m \in Nat /\ Remain = m - p /\ payload.right \in BOOLEAN
    BY <1>1 DEF WsHeader, WsPayload, Remain
  <2> HIDE DEF p, m
  <2> QED BY <1>1, <2>1
<1>3. /\ n \in 1 .. Len(fragment) /\ n \in 1 .. m - p /\ Len(fragment) \in Nat
      /\ n < m - p => n = Len(fragment)
  BY <1>0, <1>2, TakesSome
<1>4. /\ Take(n)
      /\ IF bytes.len >= header.len THEN Deliver(header.of, bytes)
         ELSE payload' = bytes /\ UNCHANGED <<step, header, keyPos, extPos, delivered>>
  BY DEF PayloadData
<1>5. (InStep \/ OutOfStep) /\ WsSent' = WsSent /\ wsCuts' = wsCuts
  BY <1>0, <1>3, <1>4, ParseStep
<1>6. right \in BOOLEAN
  OBVIOUS
<1>7. bytes \in WsPayload /\ bytes.len = p + n /\ bytes.right = right
  <2> HIDE DEF n, right, p
  <2>1. p + n \in Nat
    BY <1>2, <1>3
  <2> QED BY <1>6, <2>1 DEF WsPayload, p
<1> HIDE DEF n, right, bytes, p, m
<1>8. This \in Nat
  BY <1>1 DEF This
<1>9. ASSUME InStep
      PROVE  /\ header.of = This /\ m = WsSent[This].len /\ This \in 1 .. Len(WsSent)
             /\ ~Cut(This, "bytes") =>
                  /\ payload.right
                  /\ WsSent[This].masked => p % KeyLength = 0 /\ \A i \in 0 .. (KeyLength - 1) : header.key[i] = i
             /\ \A j \in 1 .. n : fragment[j] = Byte(This, "data", p + j - 1)
             /\ RunTo(WsSent, Rest', IF p + n < m THEN Byte(This, "data", p + n) ELSE Byte(This + 1, "type", 0), StreamEnd(WsSent))
  <2>1. /\ RunTo(WsSent, Rest', NextByte(WsSent, fragment[n]), StreamEnd(WsSent)) /\ This \in 1 .. Len(WsSent)
    BY <1>0, <1>3, <1>4, <1>9, ParseExpected
  <2>2. /\ Expected = Byte(This, "data", p) /\ header.of = This /\ m = WsSent[This].len
        /\ ~Cut(This, "bytes") =>
             /\ payload.right
             /\ WsSent[This].masked => p % KeyLength = 0 /\ \A i \in 0 .. (KeyLength - 1) : header.key[i] = i
    BY <1>1, <1>9 DEF Expected, InStep, p, m
  <2>3. \A j \in 1 .. n : fragment[j] = Byte(This, "data", p + j - 1)
    <3>1. ASSUME NEW k \in Nat, k >= p, k < p + n - 1
          PROVE  NextByte(WsSent, Byte(This, "data", k)) = Byte(This, "data", k + 1)
      <4>1. k + 1 < m
        BY <1>2, <1>3, <3>1
      <4> QED BY <2>2, <4>1, NextByteKinds
    <3>2. \A k \in Nat : k >= p /\ k < p + n - 1 => NextByte(WsSent, Byte(This, "data", k)) = Byte(This, "data", k + 1)
      BY <3>1
    <3>3. Expected = Byte(This, "data", p) /\ p \in Nat
      BY <1>2, <2>2
    <3> QED BY <1>0, <1>3, <1>4, <1>9, <3>2, <3>3, ParsePart
  <2>4. fragment[n] = Byte(This, "data", p + n - 1)
    <3>1. n \in 1 .. n
      BY <1>3
    <3> QED BY <2>3, <3>1
  <2>5. NextByte(WsSent, fragment[n]) = IF p + n < m THEN Byte(This, "data", p + n) ELSE Byte(This + 1, "type", 0)
    <3>1. (p + n - 1) + 1 = p + n
      BY <1>2, <1>3
    <3> QED BY <2>2, <2>4, <3>1, NextByteKinds
  <2> QED BY <2>1, <2>2, <2>3, <2>5
<1>10. ASSUME InStep, ~Cut(This, "bytes") PROVE right
  <2>1. ASSUME NEW i \in 1 .. n, WsSent[This].masked
        PROVE  header.key[(i - 1) % KeyLength] = fragment[i].i % KeyLength
    <3>1. fragment[i].i = p + i - 1
      <4>1. fragment[i] = Byte(This, "data", p + i - 1)
        BY <1>9, <1>10
      <4> QED BY <4>1 DEF Byte
    <3>2. KeyLength = 4 /\ p % 4 = 0
      BY <1>9, <1>10, <2>1 DEF KeyLength
    <3>3. (i - 1) % 4 \in 0 .. 3 /\ (p + i - 1) % 4 = (i - 1) % 4
      BY <1>2, <1>3, <3>2
    <3>4. header.key[(i - 1) % 4] = (i - 1) % 4
      <4>1. \A k \in 0 .. 3 : header.key[k] = k
        BY <1>9, <1>10, <2>1, <3>2
      <4> QED BY <3>3, <4>1
    <3> QED BY <3>1, <3>2, <3>3, <3>4
  <2>2. HeaderFrame = WsSent[This]
    BY <1>9, <1>10 DEF HeaderFrame, WsSent
  <2>3. \A i \in 1 .. n : Decoded(i)
    BY <2>1, <2>2 DEF Decoded
  <2> QED BY <1>9, <1>10, <2>3 DEF right
<1>11. OutOfStep => ~Framed(This)
  <2>1. ASSUME OutOfStep PROVE ~Framed(This)
    BY <1>8, <2>1, FramedDown DEF OutOfStep
  <2> QED BY <2>1
<1>12. CASE p + n >= m
  <2>1. Deliver(header.of, bytes)
    BY <1>4, <1>7, <1>12 DEF m
  <2>2. p + n = m /\ ~(p + n < m) /\ header.of \in Nat
    BY <1>1, <1>2, <1>3, <1>12 DEF WsHeader
  <2>3. ASSUME Framed(This)
        PROVE  /\ header.of = This /\ bytes.len = WsSent[This].len
               /\ ~Cut(This, "bytes") => bytes.right
    <3>1. InStep
      BY <1>5, <1>11, <2>3
    <3> QED BY <1>7, <1>9, <1>10, <2>2, <3>1
  <2>4. ASSUME InStep PROVE RunTo(WsSent, Rest', Byte(This + 1, "type", 0), StreamEnd(WsSent))
    BY <1>9, <2>2, <2>4
  <2> QED BY <1>0, <1>3, <1>4, <1>5, <1>7, <2>1, <2>2, <2>3, <2>4, Delivers
<1>13. CASE ~(p + n >= m)
  <2>1. payload' = bytes /\ UNCHANGED <<step, header, keyPos, extPos, delivered>>
    BY <1>4, <1>7, <1>13 DEF m
  <2>2. p + n < m /\ n = Len(fragment)
    BY <1>2, <1>3, <1>13
  <2>3. ParserOK'
    <3>1. WsTypeOK'
      <4>1. step' \in {"fixed", "len", "ext", "key", "data", "lost"} /\ keyPos' \in 0 .. KeyLength /\ extPos' \in 0 .. 2
        BY <1>1, <2>1
      <4> QED BY <1>0, <1>3, <1>4, <4>1, KeepsTypes
    <3>2. payload'.len < header'.len /\ step' = "data" /\ header'.of \in 1 .. Len(WsSent')
      BY <1>1, <1>5, <1>7, <2>1, <2>2 DEF m
    <3> QED BY <1>1, <1>7, <2>1, <3>1, <3>2 DEF ParserOK
  <2>4. ASSUME InStep PROVE InStep'
    <3>1. This' = This /\ payload'.len = p + n /\ payload'.right = right /\ step' = "data" /\ header' = header
      BY <1>1, <1>7, <2>1 DEF This
    <3>2. Expected' = Byte(This, "data", p + n)
      BY <3>1 DEF Expected
    <3>3. (RunTo(WsSent, Rest, Expected, StreamEnd(WsSent)))'
      BY <1>5, <1>9, <2>2, <2>4, <3>2 DEF StreamEnd
    <3>4. Cut(This, "bytes")' <=> Cut(This, "bytes")
      BY <1>5, <3>1 DEF Cut
    <3>5. ASSUME WsSent[This].masked, ~Cut(This, "bytes") PROVE (p + n) % KeyLength = 0
      <4>0. SUFFICES ASSUME (p + n) % KeyLength # 0 PROVE FALSE
        OBVIOUS
      <4>1. NextByte(WsSent, fragment[n]) = Byte(This, "data", p + n)
        <5>1. fragment[n] = Byte(This, "data", p + n - 1) /\ (p + n - 1) + 1 = p + n
          <6>1. n \in 1 .. n /\ (p + n - 1) + 1 = p + n
            BY <1>2, <1>3
          <6> QED BY <1>9, <2>4, <6>1
        <5> QED BY <1>9, <2>2, <2>4, <5>1, NextByteKinds
      <4> DEFINE b == Byte(This, "data", p + n)
      <4>2. b.what = "data" /\ b.of = This /\ b.i = p + n
        BY DEF Byte
      <4> HIDE DEF b
      <4>3. Harm(b) \subseteq wsCuts
        BY <1>0, <1>3, <1>4, <2>2, <2>4, <4>1, <4>2, CutKnown DEF b
      <4>4. Coded(b)
        BY <3>5, <4>2 DEF Coded, WsSent
      <4>5. <<This, "bytes">> \in wsCuts
        BY <4>0, <4>2, <4>3, <4>4, HarmOf
      <4> QED BY <3>5, <4>5 DEF Cut
    <3>6. (header.of = This)' /\ (header.len = WsSent[This].len)'
      BY <1>5, <1>9, <2>4, <3>1 DEF m
    <3>7. (step = "data" /\ ~Cut(This, "bytes") =>
             /\ payload.right
             /\ WsSent[This].masked => payload.len % KeyLength = 0 /\ \A i \in 0 .. (KeyLength - 1) : header.key[i] = i)'
      BY <1>5, <1>9, <1>10, <2>4, <3>1, <3>4, <3>5
    <3> QED BY <3>1, <3>3, <3>6, <3>7 DEF InStep
  <2> QED BY <1>0, <1>3, <1>4, <1>5, <2>1, <2>3, <2>4, GoesOn
<1> QED BY <1>12, <1>13

-----------------------------------------------------------------------------
(* Sending.                                                                *)

LEMMA ConcatAppend ==
  ASSUME NEW S, NEW s \in Seq(S), NEW t \in Seq(S), NEW x \in S
  PROVE  /\ s \o t \in Seq(S) /\ Append(t, x) \in Seq(S)
         /\ s \o Append(t, x) = Append(s \o t, x)
<1>1. Append(t, x) = t \o <<x>> /\ <<x>> \in Seq(S) /\ s \o t \in Seq(S) /\ Append(t, x) \in Seq(S)
  BY AppendIsConcat, ConcatProperties, AppendProperties
<1>2. (s \o t) \o <<x>> = s \o (t \o <<x>>)
  BY <1>1, ConcatAssociative
<1>3. Append(s \o t, x) = (s \o t) \o <<x>>
  BY <1>1, AppendIsConcat
<1> QED BY <1>1, <1>2, <1>3

\* What is sent comes behind all that was.
LEMMA SendDataAppends ==
  ASSUME NEW out \in Seq(WsItem), NEW sending \in Seq(WsItem), NEW list \in Seq(WsItem), NEW x \in WsItem,
         sending = <<>> => list = <<>>, Len(sending) <= 1
  PROVE  /\ SendData(list, sending, x).list \in Seq(WsItem) /\ SendData(list, sending, x).sending \in Seq(WsItem)
         /\ SendData(list, sending, x).sending # <<>> /\ Len(SendData(list, sending, x).sending) <= 1
         /\ out \o SendData(list, sending, x).sending \o SendData(list, sending, x).list
              = Append(out \o sending \o list, x)
<1>0. <<x>> \in Seq(WsItem) /\ <<>> \in Seq(WsItem) /\ out \o sending \in Seq(WsItem) /\ Len(<<x>>) = 1 /\ <<x>> # <<>>
  BY ConcatProperties
<1>1. CASE sending = <<>>
  <2>1. SendData(list, sending, x) = [list |-> <<>>, sending |-> <<x>>]
    BY <1>1 DEF SendData
  <2>2. out \o <<x>> \o <<>> = Append(out, x)
    <3>1. out \o <<x>> \in Seq(WsItem) /\ Append(out, x) = out \o <<x>>
      BY <1>0, ConcatProperties, AppendIsConcat
    <3> QED BY <3>1, ConcatEmptySeq
  <2>3. out \o sending \o list = out
    BY <1>0, <1>1, ConcatEmptySeq
  <2> QED BY <1>0, <2>1, <2>2, <2>3
<1>2. CASE sending # <<>>
  <2>1. SendData(list, sending, x) = [list |-> Append(list, x), sending |-> sending]
    BY <1>2 DEF SendData
  <2>2. (out \o sending) \o Append(list, x) = Append((out \o sending) \o list, x) /\ Append(list, x) \in Seq(WsItem)
    BY <1>0, ConcatAppend
  <2> QED BY <1>2, <2>1, <2>2
<1> QED BY <1>1, <1>2

\* The n texts behind the first a.
TextsFrom(a, n) == [i \in 1 .. n |-> Text(a + i)]

Answers ==
  IF ~handshake THEN <<>>
  ELSE CASE refuses = "no"  -> <<Answer("101")>>
         [] refuses = "key" -> <<Answer("404")>>
         [] OTHER           -> <<Answer("404"), Answer("101")>>

LEMMA TextsTypes ==
  ASSUME NEW a \in Nat, NEW n \in Nat
  PROVE  /\ TextsFrom(a, n) \in Seq(WsItem) /\ Len(TextsFrom(a, n)) = n
         /\ TextsFrom(a, n + 1) = Append(TextsFrom(a, n), Text(a + n + 1)) /\ Text(a + n + 1) \in WsItem
         /\ TextsFrom(a, 0) = <<>>
<1> DEFINE s == TextsFrom(a, n)
           t == TextsFrom(a, n + 1)
           x == Text(a + n + 1)
           r == Append(s, x)
<1>1. \A k \in Nat : Text(k) \in WsItem
  BY DEF WsItem
<1>2. \A i \in 1 .. n + 1 : Text(a + i) \in WsItem
  BY <1>1
<1>3. s \in Seq(WsItem) /\ Len(s) = n /\ \A i \in 1 .. n : s[i] = Text(a + i)
  BY <1>2 DEF TextsFrom
<1>4. t \in Seq(WsItem) /\ Len(t) = n + 1 /\ \A i \in 1 .. n + 1 : t[i] = Text(a + i)
  BY <1>2 DEF TextsFrom
<1>5. x \in WsItem /\ x = Text(a + (n + 1))
  <2>1. a + n + 1 \in Nat /\ a + n + 1 = a + (n + 1)
    OBVIOUS
  <2> QED BY <1>1, <2>1
<1>6. TextsFrom(a, 0) = <<>>
  BY DEF TextsFrom
<1> HIDE DEF s, t, x
<1>7. r \in Seq(WsItem) /\ Len(r) = n + 1 /\ r[n + 1] = x /\ \A i \in 1 .. n : r[i] = s[i]
  BY <1>3, <1>5, AppendProperties
<1> HIDE DEF r
<1>8. ASSUME NEW i \in 1 .. n + 1 PROVE t[i] = r[i]
  <2>1. CASE i = n + 1
    BY <1>4, <1>5, <1>7, <2>1
  <2>2. CASE i # n + 1
    <3>1. i \in 1 .. n
      BY <2>2
    <3> QED BY <1>3, <1>4, <1>7, <3>1
  <2> QED BY <2>1, <2>2
<1>9. t = r
  <2>1. Len(t) = Len(r)
    BY <1>4, <1>7
  <2> QED BY <1>4, <1>7, <1>8, <2>1, SeqEqual
<1> QED BY <1>3, <1>5, <1>6, <1>9 DEF s, t, x, r

LEMMA TextsOne ==
  ASSUME NEW a \in Nat
  PROVE  [i \in 1 .. a |-> Text(i)] = TextsFrom(0, a)
<1>1. \A i \in 1 .. a : 0 + i = i
  OBVIOUS
<1> QED BY <1>1 DEF TextsFrom

LEMMA AnswersTypes == Answers \in Seq(WsItem)
<1>1. Answer("101") \in WsItem /\ Answer("404") \in WsItem
  BY DEF WsItem
<1>2. <<>> \in Seq(WsItem) /\ <<Answer("101")>> \in Seq(WsItem) /\ <<Answer("404")>> \in Seq(WsItem)
      /\ <<Answer("404"), Answer("101")>> \in Seq(WsItem)
  BY <1>1
<1> QED BY <1>2 DEF Answers

LEMMA SendTextStep ==
  ASSUME WsInv, SendText
  PROVE  WsInv'
<1> DEFINE s == SendData(outList, wsSending, Text(texts + 1))
           a == answerAfter
           n == texts - a
<1>1. /\ texts < MaxText /\ wsState = "open" /\ texts' = texts + 1 /\ outList' = s.list /\ wsSending' = s.sending
      /\ UNCHANGED <<wsSends, wsStream, refuses, wsCuts, fragment, handshake, step, header, keyPos, extPos, payload,
                     delivered, wsState, closeTold, wsOut, answerAfter>>
  BY DEF SendText, peerVars, parseVars
<1>2. texts \in 0 .. MaxText /\ MaxText \in Nat /\ a \in 0 .. texts
  BY FramesAssumption DEF WsInv, ParserOK, WsTypeOK
<1>3. a \in Nat /\ n \in Nat /\ texts' \in 0 .. MaxText /\ answerAfter' \in 0 .. texts' /\ texts' - a = n + 1 /\ texts + 1 = a + n + 1
  BY <1>1, <1>2
<1>4. /\ wsOut \in Seq(WsItem) /\ wsSending \in Seq(WsItem) /\ outList \in Seq(WsItem)
      /\ Len(wsSending) <= 1 /\ (wsSending = <<>> => outList = <<>>) /\ OutInOrder
      /\ (~handshake => answerAfter = 0)
  BY DEF WsInv, SendOK
<1> HIDE DEF s, n
<1>5. /\ TextsFrom(a, n) \in Seq(WsItem) /\ TextsFrom(a, n + 1) = Append(TextsFrom(a, n), Text(texts + 1))
      /\ Text(texts + 1) \in WsItem /\ TextsFrom(0, a) \in Seq(WsItem)
  BY <1>3, TextsTypes
<1>6. /\ s.list \in Seq(WsItem) /\ s.sending \in Seq(WsItem) /\ s.sending # <<>> /\ Len(s.sending) <= 1
      /\ wsOut \o s.sending \o s.list = Append(wsOut \o wsSending \o outList, Text(texts + 1))
  <2> DEFINE x == Text(texts + 1)
             o == wsOut
             p == wsSending
             l == outList
  <2>1. o \in Seq(WsItem) /\ p \in Seq(WsItem) /\ l \in Seq(WsItem) /\ x \in WsItem /\ (p = <<>> => l = <<>>) /\ Len(p) <= 1
    BY <1>4, <1>5
  <2>2. /\ SendData(l, p, x).list \in Seq(WsItem) /\ SendData(l, p, x).sending \in Seq(WsItem)
        /\ SendData(l, p, x).sending # <<>> /\ Len(SendData(l, p, x).sending) <= 1
        /\ o \o SendData(l, p, x).sending \o SendData(l, p, x).list = Append(o \o p \o l, x)
    <3> HIDE DEF x, o, p, l
    <3> QED BY <2>1, SendDataAppends
  <2> QED BY <2>2 DEF s
<1>7. wsOut \o wsSending \o outList = TextsFrom(0, a) \o Answers \o TextsFrom(a, n)
  <2>1. wsOut \o wsSending \o outList = [i \in 1 .. a |-> Text(i)] \o Answers \o TextsFrom(a, n)
    BY <1>4 DEF OutInOrder, TextsFrom, Answers, n
  <2> QED BY <1>3, <2>1, TextsOne
<1>8. TextsFrom(0, a) \o Answers \o TextsFrom(a, n + 1) = Append(TextsFrom(0, a) \o Answers \o TextsFrom(a, n), Text(texts + 1))
  <2>1. TextsFrom(0, a) \o Answers \in Seq(WsItem)
    BY <1>5, AnswersTypes, ConcatProperties
  <2> DEFINE u == TextsFrom(0, a) \o Answers
             t == TextsFrom(a, n)
             x == Text(texts + 1)
  <2>2. u \o Append(t, x) = Append(u \o t, x)
    <3>1. u \in Seq(WsItem) /\ t \in Seq(WsItem) /\ x \in WsItem
      BY <1>5, <2>1
    <3> HIDE DEF u, t, x
    <3> QED BY <3>1, ConcatAppend
  <2> QED BY <1>5, <2>2
<1>9. OutInOrder'
  <2>1. Answers' = Answers /\ answerAfter' = a
    BY <1>1 DEF Answers
  <2>2. (wsOut \o wsSending \o outList)' = wsOut \o s.sending \o s.list
    BY <1>1
  <2>3. wsOut' \o wsSending' \o outList' = [i \in 1 .. a |-> Text(i)] \o Answers \o TextsFrom(a, n + 1)
    BY <1>3, <1>6, <1>7, <1>8, <2>2, TextsOne
  <2> QED BY <1>3, <2>1, <2>3 DEF OutInOrder, TextsFrom, Answers
<1>10. SendOK'
  BY <1>1, <1>4, <1>6, <1>9 DEF SendOK
<1>11. ParserOK'
  BY <1>1, <1>3 DEF WsInv, ParserOK, WsTypeOK, WsSent
<1>12. StreamOK'
  BY <1>1 DEF WsInv, StreamOK, Rest, WsSent, Harm, Coded, InStep, OutOfStep, Framed, Cut, This, Expected
<1>13. CloseOK'
  BY <1>1 DEF WsInv, CloseOK
<1>14. FramesAsSent'
  BY <1>1, NoFrameComes DEF WsInv
<1> QED BY <1>10, <1>11, <1>12, <1>13, <1>14 DEF WsInv

LEMMA SendCallbackStep ==
  ASSUME WsInv, SendCallback
  PROVE  WsInv'
<1>1. /\ wsSending # <<>> /\ wsOut' = wsOut \o wsSending
      /\ IF outList = <<>> THEN wsSending' = <<>> /\ outList' = outList
         ELSE wsSending' = <<Head(outList)>> /\ outList' = Tail(outList)
      /\ UNCHANGED <<wsSends, wsStream, refuses, wsCuts, fragment, handshake, step, header, keyPos, extPos, payload,
                     delivered, wsState, closeTold, texts, answerAfter>>
  BY DEF SendCallback, peerVars, parseVars
<1>2. /\ wsOut \in Seq(WsItem) /\ wsSending \in Seq(WsItem) /\ outList \in Seq(WsItem) /\ OutInOrder
      /\ (~handshake => answerAfter = 0)
  BY DEF WsInv, SendOK
<1>3. wsOut' \in Seq(WsItem)
  BY <1>1, <1>2, ConcatProperties
<1>4. /\ wsSending' \in Seq(WsItem) /\ outList' \in Seq(WsItem) /\ Len(wsSending') <= 1 /\ (wsSending' = <<>> => outList' = <<>>)
      /\ wsSending' \o outList' = outList
  <2>1. CASE outList = <<>>
    <3>1. wsSending' = <<>> /\ outList' = <<>>
      BY <1>1, <2>1
    <3>2. <<>> \o outList = outList /\ <<>> \in Seq(WsItem) /\ Len(<<>>) = 0
      BY <1>2, ConcatEmptySeq
    <3> QED BY <2>1, <3>1, <3>2
  <2>2. CASE outList # <<>>
    <3>1. wsSending' = <<Head(outList)>> /\ outList' = Tail(outList)
      BY <1>1, <2>2
    <3>2. Head(outList) \in WsItem /\ Tail(outList) \in Seq(WsItem) /\ Len(Tail(outList)) = Len(outList) - 1
          /\ (\A i \in 1 .. Len(outList) - 1 : Tail(outList)[i] = outList[i + 1]) /\ Len(outList) \in Nat \ {0}
      BY <1>2, <2>2, HeadTailProperties, EmptySeq
    <3> DEFINE h == Head(outList)
               t == Tail(outList)
               r == <<h>> \o t
    <3>3. <<h>> \in Seq(WsItem) /\ Len(<<h>>) = 1 /\ <<h>>[1] = h /\ h = outList[1] /\ <<h>> # <<>>
      BY <3>2
    <3> HIDE DEF h, t
    <3>4. r \in Seq(WsItem) /\ Len(r) = 1 + Len(t) /\ \A i \in 1 .. 1 + Len(t) : r[i] = IF i <= 1 THEN <<h>>[i] ELSE t[i - 1]
      <4>1. t \in Seq(WsItem)
        BY <3>2 DEF t
      <4> QED BY <3>3, <4>1, ConcatProperties
    <3> HIDE DEF r
    <3>5. ASSUME NEW i \in 1 .. Len(outList) PROVE r[i] = outList[i]
      <4>1. i \in 1 .. 1 + Len(t)
        BY <3>2 DEF t
      <4>2. CASE i = 1
        BY <3>3, <3>4, <4>1, <4>2
      <4>3. CASE i # 1
        <5>1. i - 1 \in 1 .. Len(outList) - 1 /\ (i - 1) + 1 = i /\ ~(i <= 1)
          BY <3>2, <4>3
        <5>2. t[i - 1] = outList[i]
          BY <3>2, <5>1 DEF t
        <5> QED BY <3>4, <4>1, <5>1, <5>2
      <4> QED BY <4>2, <4>3
    <3>6. r = outList
      <4>1. Len(r) = Len(outList)
        BY <3>2, <3>4 DEF t
      <4> QED BY <1>2, <3>4, <3>5, <4>1, SeqEqual
    <3> QED BY <3>1, <3>2, <3>3, <3>6 DEF h, t, r
  <2> QED BY <2>1, <2>2
<1>5. wsOut' \o wsSending' \o outList' = wsOut \o wsSending \o outList
  <2> DEFINE o == wsOut'
             p == wsSending'
             l == outList'
  <2>a. o \in Seq(WsItem) /\ p \in Seq(WsItem) /\ l \in Seq(WsItem)
    BY <1>3, <1>4
  <2>1. (o \o p) \o l = o \o (p \o l)
    <3> HIDE DEF o, p, l
    <3> QED BY <2>a, ConcatAssociative
  <2> QED BY <1>1, <1>4, <2>1
<1>6. SendOK'
  <2>1. OutInOrder'
    BY <1>1, <1>2, <1>5 DEF OutInOrder
  <2> QED BY <1>1, <1>2, <1>3, <1>4, <2>1 DEF SendOK
<1>7. ParserOK'
  BY <1>1 DEF WsInv, ParserOK, WsTypeOK, WsSent
<1>8. StreamOK'
  BY <1>1 DEF WsInv, StreamOK, Rest, WsSent, Harm, Coded, InStep, OutOfStep, Framed, Cut, This, Expected
<1>9. CloseOK'
  BY <1>1 DEF WsInv, CloseOK
<1>10. FramesAsSent'
  BY <1>1, NoFrameComes DEF WsInv
<1> QED BY <1>6, <1>7, <1>8, <1>9, <1>10 DEF WsInv

-----------------------------------------------------------------------------
(* The connection.                                                         *)

LEMMA OnCloseStep ==
  ASSUME WsInv, OnClose
  PROVE  WsInv'
<1>1. /\ wsState = "open" /\ wsState' = "closed" /\ closeTold' = closeTold + 1
      /\ UNCHANGED <<wsSends, wsStream, refuses, wsCuts, fragment, handshake, step, header, keyPos, extPos, payload,
                     delivered, outList, wsSending, wsOut, texts, answerAfter>>
  BY DEF OnClose, peerVars, parseVars, outVars
<1>2. closeTold = 0 /\ closeTold' = 1
  BY <1>1 DEF WsInv, CloseOK
<1>3. SendOK'
  BY <1>1 DEF WsInv, SendOK, OutInOrder
<1>4. ParserOK'
  BY <1>1, <1>2 DEF WsInv, ParserOK, WsTypeOK, WsSent
<1>5. StreamOK'
  BY <1>1 DEF WsInv, StreamOK, WsSent, Harm, Coded
<1>6. CloseOK'
  BY <1>1, <1>2 DEF WsInv, CloseOK
<1>7. FramesAsSent'
  BY <1>1, NoFrameComes DEF WsInv
<1> QED BY <1>3, <1>4, <1>5, <1>6, <1>7 DEF WsInv

LEMMA ArriveStep ==
  ASSUME WsInv, NEW n \in 1 .. Len(wsStream), Arrive(n)
  PROVE  WsInv'
<1> DEFINE S == FrameByte(WsSent) \cup {Handshaken}
<1>1. /\ wsState = "open" /\ wsState' = "parses"
      /\ fragment' = SubSeq(wsStream, 1, n) /\ wsStream' = SubSeq(wsStream, n + 1, Len(wsStream))
      /\ wsCuts' = IF n = Len(wsStream) THEN wsCuts ELSE wsCuts \union Harm(wsStream[n + 1])
      /\ UNCHANGED <<wsSends, handshake, refuses, step, header, keyPos, extPos, payload,
                     delivered, closeTold, outList, wsSending, wsOut, texts, answerAfter>>
  BY DEF Arrive, parseVars, outVars
<1>2. wsStream \in Seq(S) /\ WsSent' = WsSent /\ fragment = <<>> /\ wsCuts \subseteq wsCuts'
  BY <1>1 DEF WsInv, StreamOK, ParserOK, WsTypeOK, WsSent
<1>3. Len(wsStream) \in Nat /\ n \in 0 .. Len(wsStream)
  BY <1>2
<1>4. /\ fragment' \in Seq(S) /\ wsStream' \in Seq(S) /\ Len(wsStream') = Len(wsStream) - n
      /\ \A i \in 1 .. Len(wsStream) - n : wsStream'[i] = wsStream[n + i]
      /\ fragment' \o wsStream' = wsStream
  <2> HIDE DEF S
  <2> QED BY <1>1, <1>2, <1>3, SplitConcat
<1>5. Rest' = Rest
  <2>1. <<>> \o wsStream = wsStream
    BY <1>2
  <2> QED BY <1>2, <1>4, <2>1 DEF Rest
<1>6. wsStream' # <<>> => (Harm(wsStream[1]))' \subseteq wsCuts'
  <2> SUFFICES ASSUME wsStream' # <<>> PROVE (Harm(wsStream[1]))' \subseteq wsCuts'
    OBVIOUS
  <2>1. Len(wsStream') # 0
    BY <1>4, EmptySeq
  <2>2. 1 \in 1 .. Len(wsStream) - n /\ n # Len(wsStream)
    BY <1>3, <1>4, <2>1
  <2>3. wsStream'[1] = wsStream[n + 1]
    BY <1>4, <2>2
  <2>4. (Harm(wsStream[1]))' = Harm(wsStream[n + 1])
    BY <1>1, <2>3 DEF Harm, Coded
  <2> QED BY <1>1, <2>2, <2>4
<1>7. This' = This /\ Expected' = Expected
  BY <1>1 DEF This, Expected
<1>8. handshake /\ (InStep \/ OutOfStep) => (InStep \/ OutOfStep)'
  <2>1. ASSUME OutOfStep PROVE OutOfStep'
    <3>1. Len(delivered) \in Nat
      BY DEF WsInv, ParserOK
    <3> QED BY <1>1, <1>2, <2>1, <3>1, StaysOut
  <2>2. ASSUME InStep PROVE InStep'
    <3>1. (RunTo(WsSent, Rest, Expected, StreamEnd(WsSent)))'
      BY <1>2, <1>5, <1>7, <2>2 DEF InStep, StreamEnd
    <3>2. \A f, how : Cut(f, how) => Cut(f, how)'
      BY <1>2 DEF Cut
    <3> QED BY <1>1, <1>2, <1>7, <2>2, <3>1, <3>2 DEF InStep
  <2> QED BY <2>1, <2>2
<1>9. StreamOK'
  <2>1. S' = S /\ (Rest # <<>>)' = (Rest # <<>>) /\ (Rest[1])' = Rest[1] /\ Handshaken' = Handshaken
    BY <1>2, <1>5 DEF FrameByte, Handshaken
  <2>2. (fragment \in Seq(S))' /\ (wsStream \in Seq(S))'
    BY <1>4, <2>1
  <2>3. \/ handshake' /\ Rest' \in Seq(FrameByte(WsSent)') /\ (InStep \/ OutOfStep)'
        \/ ~handshake'
    BY <1>1, <1>2, <1>5, <1>8 DEF WsInv, StreamOK, FrameByte
  <2>4. ~handshake => /\ Rest' # <<>> /\ Rest'[1] = Handshaken
                      /\ RunTo(WsSent', SubSeq(Rest', 2, Len(Rest')), Byte(1, "type", 0), StreamEnd(WsSent'))
                      /\ step' = "fixed" /\ header' = NoHeader
    BY <1>1, <1>2, <1>5 DEF WsInv, StreamOK
  <2> QED BY <1>1, <1>6, <2>1, <2>2, <2>3, <2>4 DEF StreamOK, FrameByte, StreamEnd
<1>10. SendOK'
  BY <1>1 DEF WsInv, SendOK, OutInOrder
<1>11. ParserOK'
  BY <1>1 DEF WsInv, ParserOK, WsTypeOK, WsSent
<1>12. CloseOK'
  BY <1>1 DEF WsInv, CloseOK
<1>13. FramesAsSent'
  BY <1>1, <1>2, NoFrameComes DEF WsInv
<1> QED BY <1>9, <1>10, <1>11, <1>12, <1>13 DEF WsInv

LEMMA PairConcat ==
  ASSUME NEW S, NEW x \in S, NEW y \in S
  PROVE  <<x>> \o <<y>> = <<x, y>>
<1> DEFINE a == <<x>>
           b == <<y>>
           c == <<x, y>>
           r == a \o b
<1>1. /\ a \in Seq(S) /\ Len(a) = 1 /\ a[1] = x /\ b \in Seq(S) /\ Len(b) = 1 /\ b[1] = y
      /\ c \in Seq(S) /\ Len(c) = 2 /\ c[1] = x /\ c[2] = y
  OBVIOUS
<1> HIDE DEF a, b, c
<1>2. r \in Seq(S) /\ Len(r) = Len(a) + Len(b)
      /\ \A i \in 1 .. Len(a) + Len(b) : r[i] = IF i <= Len(a) THEN a[i] ELSE b[i - Len(a)]
  BY <1>1, ConcatProperties
<1> HIDE DEF r
<1>3. Len(r) = 2 /\ r[1] = x /\ r[2] = y
  <2>1. 1 \in 1 .. Len(a) + Len(b) /\ 2 \in 1 .. Len(a) + Len(b) /\ Len(a) + Len(b) = 2 /\ 2 - Len(a) = 1
        /\ 1 <= Len(a) /\ ~(2 <= Len(a))
    BY <1>1
  <2> QED BY <1>1, <1>2, <2>1
<1>4. \A i \in 1 .. 2 : i = 1 \/ i = 2
  OBVIOUS
<1>5. \A i \in 1 .. Len(r) : r[i] = c[i]
  BY <1>1, <1>3, <1>4
<1>6. r = c
  BY <1>1, <1>2, <1>3, <1>5, SeqEqual
<1> QED BY <1>6 DEF a, b, c, r

LEMMA HandshakeStep ==
  ASSUME WsInv, Handshake
  PROVE  WsInv'
<1> DEFINE S == FrameByte(WsSent) \cup {Handshaken}
           x == Answer(IF refuses = "no" THEN "101" ELSE "404")
           s == SendData(outList, wsSending, x)
<1>1. /\ wsState = "parses" /\ fragment # <<>> /\ fragment[1].what = "handshake"
      /\ handshake' = TRUE /\ answerAfter' = texts
      /\ wsSending' = s.sending /\ outList' = IF refuses = "upgrade" THEN Append(s.list, Answer("101")) ELSE s.list
      /\ closeTold' = IF refuses = "no" THEN 0 ELSE 1
      /\ fragment' = IF refuses = "key" THEN <<>> ELSE Tail(fragment)
      /\ wsState' = CASE fragment' # <<>> -> "parses"
                      [] fragment' = <<>> -> IF refuses = "no" THEN "open" ELSE "closed"
      /\ UNCHANGED <<wsSends, wsStream, refuses, wsCuts, step, header, keyPos, extPos, payload, delivered, wsOut, texts>>
  BY DEF Handshake, peerVars, parseVars
<1>2. /\ fragment \in Seq(S) /\ wsStream \in Seq(S) /\ WsSent' = WsSent
      /\ refuses \in {"no", "key", "upgrade"}
  BY <1>1 DEF WsInv, StreamOK, CloseOK, WsSent
<1>3. Len(fragment) \in Nat \ {0} /\ 1 \in 0 .. Len(fragment)
  BY <1>1, <1>2, EmptySeq
<1>4. /\ SubSeq(fragment, 2, Len(fragment)) \in Seq(S)
      /\ \A i \in 1 .. Len(fragment) : Rest[i] = fragment[i]
      /\ SubSeq(Rest, 2, Len(Rest)) = SubSeq(fragment, 2, Len(fragment)) \o wsStream
      /\ Rest # <<>> /\ Len(Rest) \in Nat
  <2> HIDE DEF S
  <2>1. /\ SubSeq(fragment, 1 + 1, Len(fragment)) \in Seq(S)
        /\ fragment \o wsStream \in Seq(S) /\ Len(fragment \o wsStream) = Len(fragment) + Len(wsStream)
        /\ \A i \in 1 .. Len(fragment) : (fragment \o wsStream)[i] = fragment[i]
        /\ SubSeq(fragment \o wsStream, 1 + 1, Len(fragment \o wsStream)) = SubSeq(fragment, 1 + 1, Len(fragment)) \o wsStream
    BY <1>2, <1>3, DropConcat
  <2>2. 1 + 1 = 2
    OBVIOUS
  <2>3. Len(Rest) # 0 /\ Len(Rest) \in Nat
    <3>1. Len(wsStream) \in Nat
      BY <1>2
    <3> QED BY <1>3, <2>1, <3>1 DEF Rest
  <2>4. Rest # <<>>
    BY <2>3
  <2> QED BY <2>1, <2>2, <2>3, <2>4 DEF Rest
<1>5. ~handshake
  <2>1. ASSUME handshake PROVE FALSE
    <3>1. Rest \in Seq(FrameByte(WsSent))
      BY <1>1, <2>1 DEF WsInv, StreamOK
    <3>2. Rest[1] \in FrameByte(WsSent) /\ Rest[1] = fragment[1]
      BY <1>3, <1>4, <3>1
    <3> QED BY <1>1, <3>2 DEF FrameByte
  <2> QED BY <2>1
<1>6. /\ RunTo(WsSent, SubSeq(Rest, 2, Len(Rest)), Byte(1, "type", 0), StreamEnd(WsSent))
      /\ step = "fixed" /\ header = NoHeader /\ delivered = <<>> /\ answerAfter = 0
  BY <1>1, <1>5 DEF WsInv, StreamOK, CloseOK, SendOK
<1>7. refuses # "key" => fragment' = SubSeq(fragment, 2, Len(fragment)) /\ Rest' = SubSeq(Rest, 2, Len(Rest))
  BY <1>1, <1>4 DEF Rest
<1>8. wsState' = IF fragment' # <<>> THEN "parses" ELSE IF refuses = "no" THEN "open" ELSE "closed"
  BY <1>1
<1>9. fragment' \in Seq(S)
  <2>1. CASE refuses = "key"
    <3>1. fragment' = <<>>
      BY <1>1, <2>1
    <3> QED BY <3>1
  <2>2. CASE refuses # "key"
    BY <1>4, <1>7, <2>2
  <2> QED BY <2>1, <2>2
<1> HIDE DEF s
<1>10. ParserOK'
  <2>1. WsTypeOK
    BY DEF WsInv, ParserOK
  <2>2. closeTold' \in 0 .. 2 /\ answerAfter' \in 0 .. texts' /\ wsState' \in {"open", "parses", "closed"}
        /\ (wsState' # "parses" => fragment' = <<>>) /\ handshake' \in BOOLEAN
    <3>1. texts \in Nat
      BY <2>1, FramesAssumption DEF WsTypeOK
    <3> QED BY <1>1, <1>8, <3>1
  <2>3. WsTypeOK'
    BY <1>1, <2>1, <2>2 DEF WsTypeOK
  <2> QED BY <1>1, <1>2, <2>3 DEF WsInv, ParserOK
<1>11. StreamOK'
  <2>1. S' = S
    BY <1>2 DEF FrameByte, Handshaken
  <2>2. wsStream # <<>> => (Harm(wsStream[1]) \subseteq wsCuts)'
    BY <1>1 DEF WsInv, StreamOK, Harm, Coded
  <2>3. ASSUME wsState' # "closed" PROVE Rest' \in Seq(FrameByte(WsSent)') /\ InStep'
    <3>1. refuses # "key"
      BY <1>1, <1>8, <2>3
    <3>2. Rest' = SubSeq(Rest, 2, Len(Rest)) /\ Rest' \in Seq(FrameByte(WsSent))
      BY <1>6, <1>7, <3>1 DEF RunTo
    <3>3. Expected' = Byte(1, "type", 0)
      <4>1. This' = 1
        <5>1. Len(<<>>) + 1 = 1
          OBVIOUS
        <5> QED BY <1>1, <1>6, <5>1 DEF This
      <4> QED BY <1>1, <1>6, <4>1 DEF Expected
    <3>4. (RunTo(WsSent, Rest, Expected, StreamEnd(WsSent)))'
      BY <1>2, <1>6, <3>2, <3>3 DEF StreamEnd
    <3>5. step' = "fixed"
      BY <1>1, <1>6
    <3> QED BY <1>2, <3>2, <3>4, <3>5 DEF InStep, FrameByte
  <2>4. (fragment \in Seq(S))' /\ (wsStream \in Seq(S))' /\ handshake'
    BY <1>1, <1>2, <1>9, <2>1
  <2> QED BY <1>1, <2>2, <2>3, <2>4 DEF StreamOK
<1>12. CloseOK'
  <2>1. wsState' = "open" => refuses = "no"
    BY <1>8
  <2>2. wsState' = "closed" => refuses # "no"
    BY <1>8
  <2>3. refuses = "key" => wsState' = "closed"
    BY <1>1, <1>8
  <2> QED BY <1>1, <1>2, <1>6, <2>1, <2>2, <2>3 DEF CloseOK
<1>13. FramesAsSent'
  BY <1>1, NoFrameComes DEF WsInv
<1>14. SendOK'
  <2> DEFINE o == wsOut
             p == wsSending
             l == outList
             y == Answer("101")
  <2>1. /\ o \in Seq(WsItem) /\ p \in Seq(WsItem) /\ l \in Seq(WsItem) /\ (p = <<>> => l = <<>>) /\ Len(p) <= 1 /\ OutInOrder
        /\ x \in WsItem /\ y \in WsItem
    <3>1. x \in WsItem /\ y \in WsItem
      BY DEF WsItem
    <3> QED BY <3>1 DEF WsInv, SendOK
  <2>2. texts \in Nat
    BY FramesAssumption DEF WsInv, ParserOK, WsTypeOK
  <2> DEFINE t == TextsFrom(0, texts)
             z == SendData(l, p, x)
             u == IF refuses = "upgrade" THEN Append(z.list, y) ELSE z.list
  <2>3. t \in Seq(WsItem)
    BY <2>2, TextsTypes
  <2>4. o \o p \o l = t
    <3>1. [i \in 1 .. 0 |-> Text(i)] = <<>> /\ Answers = <<>>
      BY <1>5 DEF Answers
    <3>2. o \o p \o l = <<>> \o <<>> \o TextsFrom(0, texts - 0)
      <4>1. o \o p \o l = [i \in 1 .. answerAfter |-> Text(i)] \o Answers \o TextsFrom(answerAfter, texts - answerAfter)
        BY <2>1 DEF OutInOrder, TextsFrom, Answers
      <4> QED BY <1>6, <3>1, <4>1
    <3>3. texts - 0 = texts /\ <<>> \o <<>> = <<>>
      BY <2>2
    <3> HIDE DEF t
    <3>4. <<>> \o t = t
      BY <2>3
    <3> QED BY <3>2, <3>3, <3>4 DEF t
  <2>5. /\ z.list \in Seq(WsItem) /\ z.sending \in Seq(WsItem) /\ z.sending # <<>> /\ Len(z.sending) <= 1
        /\ o \o z.sending \o z.list = Append(o \o p \o l, x)
    <3> HIDE DEF o, p, l, x
    <3> QED BY <2>1, SendDataAppends
  <2>6. wsOut' = o /\ wsSending' = z.sending /\ outList' = u
    BY <1>1 DEF s
  <2> HIDE DEF z, x, y, o, p, l, t
  <2>7. Append(t, x) \in Seq(WsItem) /\ o \o z.sending \in Seq(WsItem) /\ u \in Seq(WsItem)
        /\ (o \o z.sending) \o Append(z.list, y) = Append((o \o z.sending) \o z.list, y)
        /\ Append(z.list, y) \in Seq(WsItem)
    <3>1. o \o z.sending \in Seq(WsItem) /\ Append(z.list, y) \in Seq(WsItem) /\ Append(t, x) \in Seq(WsItem)
      BY <2>1, <2>3, <2>5, ConcatProperties, AppendProperties
    <3> DEFINE v == o \o z.sending
               zl == z.list
    <3>2. v \o Append(zl, y) = Append(v \o zl, y)
      <4>1. v \in Seq(WsItem) /\ zl \in Seq(WsItem)
        BY <2>5, <3>1
      <4> HIDE DEF v, zl
      <4> QED BY <2>1, <4>1, ConcatAppend
    <3> QED BY <2>5, <3>1, <3>2
  <2>8. wsOut' \o wsSending' \o outList' = IF refuses = "upgrade" THEN Append(Append(t, x), y) ELSE Append(t, x)
    BY <2>4, <2>5, <2>6, <2>7
  <2>9. Answers' = IF refuses = "upgrade" THEN <<x, y>> ELSE <<x>>
    BY <1>1, <1>2 DEF Answers, x, y
  <2>10. t \o Answers' \o TextsFrom(texts, 0) = IF refuses = "upgrade" THEN Append(Append(t, x), y) ELSE Append(t, x)
    <3>1. TextsFrom(texts, 0) = <<>>
      BY <2>2, TextsTypes
    <3>2. Append(t, x) = t \o <<x>> /\ Append(Append(t, x), y) = Append(t, x) \o <<y>>
      BY <2>1, <2>3, <2>7, AppendIsConcat
    <3>3. (t \o <<x>>) \o <<y>> = t \o (<<x>> \o <<y>>)
      <4>1. <<x>> \in Seq(WsItem) /\ <<y>> \in Seq(WsItem)
        BY <2>1
      <4> QED BY <2>3, <4>1, ConcatAssociative
    <3>4. <<x>> \o <<y>> = <<x, y>>
      BY <2>1, PairConcat
    <3>5. t \o Answers' = IF refuses = "upgrade" THEN Append(Append(t, x), y) ELSE Append(t, x)
      BY <2>9, <3>2, <3>3, <3>4
    <3>6. t \o Answers' \in Seq(WsItem)
      <4>1. Append(Append(t, x), y) \in Seq(WsItem)
        BY <2>1, <2>7, AppendProperties
      <4> QED BY <2>7, <3>5, <4>1
    <3>7. (t \o Answers') \o <<>> = t \o Answers'
      BY <3>6, ConcatEmptySeq
    <3> QED BY <3>1, <3>5, <3>7
  <2>11. OutInOrder'
    <3>1. answerAfter' = texts /\ texts' - answerAfter' = 0
      BY <1>1, <2>2
    <3>2. [i \in 1 .. texts |-> Text(i)] = t
      BY <2>2, TextsOne DEF t
    <3>3. wsOut' \o wsSending' \o outList' = [i \in 1 .. texts |-> Text(i)] \o Answers' \o TextsFrom(texts, 0)
      BY <2>8, <2>10, <3>2
    <3> QED BY <3>1, <3>3 DEF OutInOrder, TextsFrom, Answers
  <2> QED BY <1>1, <2>1, <2>5, <2>6, <2>7, <2>11 DEF SendOK, o
<1> QED BY <1>10, <1>11, <1>12, <1>13, <1>14 DEF WsInv

-----------------------------------------------------------------------------
(* The whole.                                                              *)

LEMMA WsInitInv == WsInit => WsInv
<1> SUFFICES ASSUME WsInit PROVE WsInv
  OBVIOUS
<1> DEFINE S == FrameByte(WsSent) \cup {Handshaken}
           q == FlattenSeq([f \in 1 .. Len(WsSent) |-> MakeFrame(f, WsSent[f])])
<1>1. /\ wsSends \in Frames /\ refuses \in {"no", "key", "upgrade"} /\ wsStream = <<Handshaken>> \o q
      /\ fragment = <<>> /\ handshake = FALSE
      /\ step = "fixed" /\ header = NoHeader /\ keyPos = 0 /\ extPos = 0 /\ payload = Nothing
      /\ wsState = "open" /\ delivered = <<>> /\ closeTold = 0
      /\ outList = <<>> /\ wsSending = <<>> /\ wsOut = <<>> /\ texts = 0 /\ answerAfter = 0 /\ wsCuts = {}
  BY DEF WsInit, Handshaken, WsSent
<1>2. RunTo(WsSent, q, Byte(1, "type", 0), StreamEnd(WsSent))
  BY <1>1, FrameTypes, RunStream
<1> HIDE DEF q
<1>3. q \in Seq(FrameByte(WsSent)) /\ q \in Seq(S) /\ <<Handshaken>> \in Seq(S)
  <2>1. q \in Seq(FrameByte(WsSent))
    BY <1>2 DEF RunTo
  <2> QED BY <2>1
<1> HIDE DEF S
<1>4. /\ wsStream \in Seq(S) /\ Len(wsStream) = 1 + Len(q) /\ Len(q) \in Nat
      /\ wsStream[1] = Handshaken /\ SubSeq(wsStream, 2, Len(wsStream)) = q /\ wsStream # <<>>
  <2>1. 1 \in 0 .. Len(<<Handshaken>>) /\ Len(<<Handshaken>>) = 1 /\ 1 + 1 = 2 /\ 1 \in 1 .. 1 /\ <<Handshaken>>[1] = Handshaken
        /\ SubSeq(<<Handshaken>>, 2, 1) = <<>>
    OBVIOUS
  <2> DEFINE h == <<Handshaken>>
  <2>2. h \in Seq(S) /\ Len(h) = 1 /\ 1 \in 0 .. Len(h) /\ h[1] = Handshaken
    BY <1>3, <2>1
  <2> HIDE DEF h
  <2>3. /\ h \o q \in Seq(S) /\ Len(h \o q) = Len(h) + Len(q)
        /\ \A i \in 1 .. Len(h) : (h \o q)[i] = h[i]
        /\ SubSeq(h \o q, 1 + 1, Len(h \o q)) = SubSeq(h, 1 + 1, Len(h)) \o q
    <3>1. PICK n \in 0 .. Len(h) : n = 1
      BY <2>2
    <3>2. h \in Seq(S) /\ q \in Seq(S)
      BY <1>3, <2>2
    <3>3. /\ h \o q \in Seq(S) /\ Len(h \o q) = Len(h) + Len(q)
          /\ \A i \in 1 .. Len(h) : (h \o q)[i] = h[i]
          /\ SubSeq(h \o q, n + 1, Len(h \o q)) = SubSeq(h, n + 1, Len(h)) \o q
      BY <3>2, DropConcat
    <3> QED BY <3>1, <3>3
  <2>4. <<>> \o q = q
    BY <1>3
  <2>5. wsStream = h \o q
    BY <1>1 DEF h
  <2>6. SubSeq(wsStream, 2, Len(wsStream)) = q
    BY <2>1, <2>2, <2>3, <2>4, <2>5 DEF h
  <2>7. Len(q) \in Nat
    BY <1>3
  <2>8. wsStream[1] = Handshaken /\ wsStream \in Seq(S) /\ Len(wsStream) = 1 + Len(q)
    BY <2>1, <2>2, <2>3, <2>5
  <2>9. wsStream # <<>>
    BY <2>7, <2>8, EmptySeq
  <2> QED BY <2>6, <2>7, <2>8, <2>9
<1>5. Rest = wsStream
  BY <1>1, <1>4 DEF Rest
<1>6. ParserOK
  <2>1. NoHeader \in WsHeader /\ Nothing \in WsPayload
    BY DEF NoHeader, WsHeader, Nothing, WsPayload, KeyLength
  <2>2. WsTypeOK
    <3>1. 0 \in 0 .. MaxText /\ 0 \in 0 .. 0 /\ 0 \in 0 .. 2 /\ 0 \in 0 .. KeyLength
      BY FramesAssumption DEF KeyLength
    <3> QED BY <1>1, <3>1 DEF WsTypeOK
  <2>3. delivered \in Seq(WsDelivered)
    BY <1>1
  <2> QED BY <1>1, <2>1, <2>2, <2>3 DEF ParserOK
<1>7. StreamOK
  <2>1. Harm(Handshaken) = {}
    BY DEF Harm, Coded, Handshaken, Byte
  <2>2. fragment \in Seq(S)
    BY <1>1
  <2> QED BY <1>1, <1>2, <1>4, <1>5, <2>1, <2>2 DEF StreamOK, S
<1>8. FramesAsSent
  BY <1>1 DEF FramesAsSent
<1>9. SendOK
  <2>1. OutInOrder
    <3>1. [i \in 1 .. 0 |-> Text(i)] = <<>> /\ [i \in 1 .. 0 - 0 |-> Text(0 + i)] = <<>> /\ <<>> \o <<>> \o <<>> = <<>>
      OBVIOUS
    <3> QED BY <1>1, <3>1 DEF OutInOrder
  <2>2. <<>> \in Seq(WsItem) /\ Len(<<>>) <= 1
    OBVIOUS
  <2> QED BY <1>1, <2>1, <2>2 DEF SendOK
<1>10. CloseOK
  BY <1>1 DEF CloseOK
<1> QED BY <1>6, <1>7, <1>8, <1>9, <1>10 DEF WsInv

LEMMA WsNextInv == WsInv /\ [WsNext]_wsVars => WsInv'
<1> SUFFICES ASSUME WsInv, [WsNext]_wsVars PROVE WsInv'
  OBVIOUS
<1>1. CASE UNCHANGED wsVars
  <2>1. UNCHANGED <<wsSends, wsStream, refuses, wsCuts, fragment, handshake, step, header, keyPos, extPos, payload,
                    delivered, wsState, closeTold, outList, wsSending, wsOut, texts, answerAfter>>
    BY <1>1 DEF wsVars
  <2>2. SendOK'
    BY <2>1 DEF WsInv, SendOK, OutInOrder
  <2>3. ParserOK'
    BY <2>1 DEF WsInv, ParserOK, WsTypeOK, WsSent
  <2>4. StreamOK'
    BY <2>1 DEF WsInv, StreamOK, Rest, WsSent, Harm, Coded, InStep, OutOfStep, Framed, Cut, This, Expected
  <2>5. CloseOK'
    BY <2>1 DEF WsInv, CloseOK
  <2>6. FramesAsSent'
    BY <2>1, NoFrameComes DEF WsInv
  <2> QED BY <2>2, <2>3, <2>4, <2>5, <2>6 DEF WsInv
<1>2. CASE WsNext
  <2>1. ASSUME NEW n \in 1 .. Len(wsStream), Arrive(n) PROVE WsInv'
    BY <2>1, ArriveStep
  <2> QED BY <1>2, <2>1, SendTextStep, SendCallbackStep, OnCloseStep, HandshakeStep, FixedHeaderStep, MisparseStep,
             PayloadLenStep, ExtendedLenStep, MaskingKeyStep, PayloadDataStep DEF WsNext
<1> QED BY <1>1, <1>2

LEMMA WsInvSafe == WsInv => WebSocketSafe
<1> SUFFICES ASSUME WsInv PROVE WebSocketSafe
  OBVIOUS
<1>1. AllParsed
  <2> SUFFICES ASSUME wsState = "open", wsStream = <<>>, NEW f \in 1 .. Len(wsSends), Framed(f)
               PROVE  Len(delivered) >= f
    BY DEF AllParsed
  <2>1. Rest = <<>>
    <3>1. fragment = <<>>
      BY DEF WsInv, ParserOK, WsTypeOK
    <3> QED BY <3>1 DEF Rest
  <2>2. InStep \/ OutOfStep
    BY <2>1 DEF WsInv, StreamOK
  <2>3. Len(delivered) \in Nat /\ Len(wsSends) \in Nat
    <3>1. Len(WsSent) \in Nat
      BY FrameTypes DEF WsInv, ParserOK, WsTypeOK
    <3> QED BY <3>1 DEF WsInv, ParserOK, WsSent
  <2>4. CASE InStep
    <3>1. Expected = StreamEnd(WsSent) /\ step \in {"fixed", "len", "ext", "key", "data"}
      BY <2>1, <2>4 DEF InStep, RunTo, WsInv, ParserOK, WsTypeOK
    <3>2. Expected.of = This /\ StreamEnd(WsSent).of = Len(WsSent) + 1
      BY <3>1 DEF Expected, StreamEnd, Byte
    <3>3. Len(delivered) + 1 = Len(wsSends) + 1
      BY <3>1, <3>2 DEF This, WsSent
    <3> QED BY <2>3, <3>3
  <2>5. CASE OutOfStep
    <3>1. PICK g \in 1 .. This : ~Framed(g)
      BY <2>5 DEF OutOfStep
    <3>2. ~(g \in 1 .. f)
      BY <2>3, <3>1, FramedDown
    <3> QED BY <2>3, <3>1, <3>2 DEF This
  <2> QED BY <2>2, <2>4, <2>5
<1>2. ClosedOnce
  BY DEF WsInv, CloseOK, ClosedOnce
<1> QED BY <1>1, <1>2 DEF WsInv, ParserOK, SendOK, WebSocketSafe

\* WebSocketSafe: however the stream is cut, the frames of the peer that can be
\* found are given out as they were sent and none is kept back, what the user
\* sends leaves in the order of the calls, and the end is told once.
THEOREM WebSocketIsSafe == WsSpec => []WebSocketSafe
<1>1. WsInv /\ [WsNext]_wsVars => WsInv'
  BY WsNextInv
<1> QED BY <1>1, WsInitInv, WsInvSafe, PTL DEF WsSpec

-----------------------------------------------------------------------------
(* The clients of a Redis cluster.                                         *)

Range_ == [id : Master, min : 0 .. LastSlot, max : 0 .. LastSlot]

\* The last listing that named a master.
Named(id) == {i \in DOMAIN layouts : \E m \in ToSet(layouts[i]) : m.id = id}
Latest(id, i) == i \in Named(id) /\ \A j \in Named(id) : j <= i

\* Clients a map may hold: each under the last slot of its range, one of an
\* identity, and those of the masters in told as they are there.
ClientMap(c) ==
  /\ DOMAIN c \subseteq 0 .. LastSlot
  /\ \A k \in DOMAIN c : c[k] \in Range_ /\ c[k].max = k
  /\ \A k, l \in DOMAIN c : c[k].id = c[l].id => k = l

AsTold(c, m) == \A k \in DOMAIN c : c[k].id = m.id => c[k] = m

\* Every client is as the last listing told that named its master, and what was
\* told last is remembered.
ClusterInv ==
  /\ layouts \in Seq(Listings) /\ Len(layouts) <= MaxUpdates
  /\ masterInfos = IF layouts = <<>> THEN <<>> ELSE layouts[Len(layouts)]
  /\ ClientMap(clients)
  /\ \A k \in DOMAIN clients : \E i \in DOMAIN layouts :
       Latest(clients[k].id, i) /\ clients[k] \in ToSet(layouts[i])
  /\ Len(layouts) = 1 =>
       \A m \in ToSet(layouts[1]) : m.max \in DOMAIN clients /\ clients[m.max] = m

\* A listing has one master or two, whose ranges follow one another.
LEMMA ListingShape ==
  ASSUME NEW w \in Listings
  PROVE  \/ \E a \in Range_ : w = <<a>> /\ a.min = 0 /\ a.max = LastSlot
         \/ \E a, b \in Range_ :
              /\ a.id # b.id /\ a.min = 0 /\ b.min = a.max + 1 /\ b.max = LastSlot /\ a.max < b.max
              /\ w = <<a, b>> \/ w = <<b, a>>
<1>1. CASE \E a \in Master : w = <<Low(a, LastSlot)>>
  <2>1. PICK a \in Master : w = <<Low(a, LastSlot)>>
    BY <1>1
  <2>2. Low(a, LastSlot) \in Range_ /\ Low(a, LastSlot).min = 0 /\ Low(a, LastSlot).max = LastSlot
    BY ClusterAssumption DEF Range_, Low
  <2> QED BY <2>1, <2>2
<1>2. CASE \E a, b \in Master, s \in 0 .. LastSlot - 1 :
             w \in {<<Low(a, s), High(b, s)>>, <<High(b, s), Low(a, s)>>} /\ w[1].id # w[2].id
  <2>1. PICK a, b \in Master, s \in 0 .. LastSlot - 1 :
             w \in {<<Low(a, s), High(b, s)>>, <<High(b, s), Low(a, s)>>} /\ w[1].id # w[2].id
    BY <1>2
  <2> DEFINE p == Low(a, s)
             q == High(b, s)
  <2>2. p \in Range_ /\ q \in Range_ /\ p.min = 0 /\ q.min = p.max + 1 /\ q.max = LastSlot /\ p.max < q.max
    BY ClusterAssumption DEF Range_, Low, High
  <2>3. w = <<p, q>> \/ w = <<q, p>>
    BY <2>1
  <2> HIDE DEF p, q
  <2>4. p.id # q.id
    BY <2>1, <2>3
  <2> QED BY <2>2, <2>3, <2>4
<1>3. QED BY <1>1, <1>2 DEF Listings

-----------------------------------------------------------------------------
(* The fold over a listing.                                                *)

LEMMA FoldOne ==
  ASSUME NEW c, NEW a
  PROVE  UpdateClients(c, <<a>>) = UpdateClient(c, a)
<1> DEFINE seq == <<a>>
           S == DOMAIN seq
           g == [s \in SUBSET S |-> IF s = {} THEN c ELSE UpdateClient(c, a)]
           P(f) == f = [s \in SUBSET S |-> IF s = {} THEN c
                          ELSE UpdateClient(f[s \ {Max(s)}], seq[Max(s)])]
           f == CHOOSE f : P(f)
<1>1. S = {1} /\ SUBSET S = {{}, {1}}
  <2>1. S = {1}
    OBVIOUS
  <2> HIDE DEF S
  <2> QED BY <2>1
<1>2. Max({1}) = 1
  BY DEF Max
<1>3. ASSUME NEW s \in SUBSET S
      PROVE  g[s] = IF s = {} THEN c ELSE UpdateClient(g[s \ {Max(s)}], seq[Max(s)])
  <2>1. CASE s = {}
    BY <2>1
  <2>2. CASE s = {1}
    <3>1. g[s] = UpdateClient(c, a) /\ Max(s) = 1 /\ s \ {1} = {} /\ seq[1] = a
      BY <2>2, <1>1, <1>2
    <3>2. g[{}] = c
      OBVIOUS
    <3> HIDE DEF g, seq
    <3> QED BY <3>1, <3>2, <2>2
  <2> QED BY <2>1, <2>2, <1>1
<1>4. P(g)
  <2> HIDE DEF g
  <2>1. g = [s \in SUBSET S |-> g[s]]
    BY DEF g
  <2> QED BY <1>3, <2>1
<1>5. P(f)
  <2> HIDE DEF g, P
  <2> QED BY <1>4
<1>6. f[{1}] = UpdateClient(c, a)
  <2>1. {1} \ {1} = {} /\ {1} # {} /\ seq[1] = a
    OBVIOUS
  <2>2. ASSUME NEW s \in SUBSET S
        PROVE  f[s] = IF s = {} THEN c ELSE UpdateClient(f[s \ {Max(s)}], seq[Max(s)])
    <3> HIDE DEF f
    <3> QED BY <1>5
  <2> HIDE DEF f, seq, S
  <2>3. f[{}] = c
    BY <2>2, <1>1
  <2> QED BY <2>1, <2>2, <2>3, <1>1, <1>2
<1>7. UpdateClients(c, seq) = f[S]
  BY DEF UpdateClients, FoldLeft, MapThenFoldSet
<1> QED BY <1>1, <1>6, <1>7

LEMMA FoldTwo ==
  ASSUME NEW c, NEW a, NEW b, NEW d, d = UpdateClient(c, a)
  PROVE  UpdateClients(c, <<a, b>>) = UpdateClient(d, b)
<1> DEFINE seq == <<a, b>>
           S == DOMAIN seq
           g == [s \in SUBSET S |->
                   IF s = {} THEN c ELSE IF s = {1} THEN UpdateClient(c, a)
                   ELSE IF s = {2} THEN UpdateClient(c, b)
                   ELSE UpdateClient(UpdateClient(c, a), b)]
           P(f) == f = [s \in SUBSET S |-> IF s = {} THEN c
                          ELSE UpdateClient(f[s \ {Max(s)}], seq[Max(s)])]
           f == CHOOSE f : P(f)
<1>1. S = {1, 2} /\ SUBSET S = {{}, {1}, {2}, {1, 2}}
  <2>1. S = {1, 2}
    OBVIOUS
  <2> HIDE DEF S
  <2> QED BY <2>1
<1>2. Max({1}) = 1 /\ Max({2}) = 2 /\ Max({1, 2}) = 2
  BY DEF Max
<1>3. g[{}] = c /\ g[{1}] = UpdateClient(c, a) /\ g[{2}] = UpdateClient(c, b)
      /\ g[{1, 2}] = UpdateClient(UpdateClient(c, a), b)
  <2>1. {1} # {2} /\ {1, 2} # {1} /\ {1, 2} # {2} /\ {1} # {} /\ {2} # {} /\ {1, 2} # {}
    <3>1. 2 \in {1, 2} /\ 2 \notin {1} /\ 1 \in {1, 2} /\ 1 \notin {2} /\ 1 \in {1} /\ 2 \in {2}
      OBVIOUS
    <3> QED BY <3>1
  <2>2. {} \in SUBSET S /\ {1} \in SUBSET S /\ {2} \in SUBSET S /\ {1, 2} \in SUBSET S
    BY <1>1
  <2> HIDE DEF S
  <2> QED BY <2>1, <2>2
<1>4. ASSUME NEW s \in SUBSET S
      PROVE  g[s] = IF s = {} THEN c ELSE UpdateClient(g[s \ {Max(s)}], seq[Max(s)])
  <2>0. seq[1] = a /\ seq[2] = b
    OBVIOUS
  <2> HIDE DEF g, seq, S
  <2>1. CASE s = {}
    BY <2>1, <1>3
  <2>2. CASE s = {1}
    <3>1. s \ {1} = {} /\ s # {}
      BY <2>2
    <3> QED BY <3>1, <2>2, <1>2, <1>3, <2>0
  <2>3. CASE s = {2}
    <3>1. s \ {2} = {} /\ s # {}
      BY <2>3
    <3> QED BY <3>1, <2>3, <1>2, <1>3, <2>0
  <2>4. CASE s = {1, 2}
    <3>1. s \ {2} = {1} /\ s # {}
      BY <2>4
    <3> QED BY <3>1, <2>4, <1>2, <1>3, <2>0
  <2> QED BY <2>1, <2>2, <2>3, <2>4, <1>1
<1>5. P(g)
  <2>1. g = [s \in SUBSET S |-> g[s]]
    BY DEF g
  <2> HIDE DEF g
  <2> QED BY <1>4, <2>1
<1>6. P(f)
  <2> HIDE DEF g, P
  <2> QED BY <1>5
<1>7. f[{1, 2}] = UpdateClient(UpdateClient(c, a), b)
  <2>1. seq[1] = a /\ seq[2] = b
    OBVIOUS
  <2>2. ASSUME NEW s \in SUBSET S
        PROVE  f[s] = IF s = {} THEN c ELSE UpdateClient(f[s \ {Max(s)}], seq[Max(s)])
    <3> HIDE DEF f
    <3> QED BY <1>6
  <2>3. {1} \ {1} = {} /\ {1, 2} \ {2} = {1} /\ {1} # {} /\ {1, 2} # {}
    OBVIOUS
  <2> HIDE DEF f, seq, S
  <2>4. f[{}] = c
    BY <2>2, <1>1
  <2>5. f[{1}] = UpdateClient(c, a)
    BY <2>1, <2>2, <2>3, <2>4, <1>1, <1>2
  <2>6. f[{1, 2}] = UpdateClient(f[{1, 2} \ {Max({1, 2})}], seq[Max({1, 2})])
    BY <2>2, <2>3, <1>1
  <2> QED BY <2>1, <2>3, <2>5, <2>6, <1>2
<1>8. UpdateClients(c, seq) = f[S]
  BY DEF UpdateClients, FoldLeft, MapThenFoldSet
<1> QED BY <1>1, <1>7, <1>8

-----------------------------------------------------------------------------
(* What one master of a listing does to the clients.                       *)

LEMMA KeepRight ==
  ASSUME NEW c, ClientMap(c), NEW m \in Range_, \A k \in DOMAIN c : c[k].id = m.id => k = m.max
  PROVE  /\ ClientMap(Keep(c, m.max, m))
         /\ DOMAIN Keep(c, m.max, m) = DOMAIN c \cup {m.max}
         /\ \A k \in DOMAIN Keep(c, m.max, m) :
              Keep(c, m.max, m)[k] = IF k = m.max THEN m ELSE c[k]
<1> DEFINE x == m.max
           d == Keep(c, x, m)
<1>1. /\ DOMAIN d = DOMAIN c \cup {x} /\ \A k \in DOMAIN d : d[k] = IF k = x THEN m ELSE c[k]
  BY DEF Keep
<1>2. x \in 0 .. LastSlot
  BY DEF Range_
<1>3. /\ DOMAIN c \subseteq 0 .. LastSlot
      /\ \A k \in DOMAIN c : c[k] \in Range_ /\ c[k].max = k
      /\ \A k, l \in DOMAIN c : c[k].id = c[l].id => k = l
      /\ \A k \in DOMAIN c : c[k].id = m.id => k = x
  BY DEF ClientMap
<1>4. m \in Range_ /\ m.max = x
  OBVIOUS
<1> HIDE DEF x, d
<1>5. ASSUME NEW k \in DOMAIN d PROVE d[k] \in Range_ /\ d[k].max = k
  BY <1>1, <1>3, <1>4
<1>6. ASSUME NEW k \in DOMAIN d, NEW l \in DOMAIN d, d[k].id = d[l].id PROVE k = l
  BY <1>1, <1>3, <1>6
<1>7. ClientMap(d)
  BY <1>1, <1>2, <1>3, <1>5, <1>6 DEF ClientMap
<1> QED BY <1>1, <1>7 DEF d, x

LEMMA DropRight ==
  ASSUME NEW c, ClientMap(c), NEW k
  PROVE  /\ ClientMap(Drop(c, k)) /\ DOMAIN Drop(c, k) = DOMAIN c \ {k}
         /\ \A j \in DOMAIN Drop(c, k) : Drop(c, k)[j] = c[j]
BY DEF ClientMap, Drop

\* From c to d: no client of the master m is left but as m says, and if nothing
\* stands in its way there is one.
Updated(c, m, d) ==
  /\ ClientMap(d)
  /\ \A k \in DOMAIN d : d[k] = m \/ (k \in DOMAIN c /\ d[k] = c[k] /\ c[k].id # m.id)
  /\ (\A k \in DOMAIN c : c[k].id # m.id /\ k # m.max) =>
       /\ DOMAIN d = DOMAIN c \cup {m.max} /\ d[m.max] = m
       /\ \A k \in DOMAIN c : d[k] = c[k]

LEMMA UpdateRight ==
  ASSUME NEW c, ClientMap(c), NEW m \in Range_
  PROVE  Updated(c, m, UpdateClient(c, m))
<1> DEFINE d == UpdateClient(c, m)
           held == {k \in DOMAIN c : c[k].id = m.id}
           h == CHOOSE k \in held : TRUE
<1> SUFFICES Updated(c, m, d)
  OBVIOUS
<1>1. d = IF held = {} THEN Emplace(c, m.max, m)
          ELSE IF c[h].max = m.max THEN Keep(c, h, m) ELSE Emplace(Drop(c, h), m.max, m)
  BY DEF UpdateClient
<1>2. CASE held = {}
  <2>1. \A k \in DOMAIN c : c[k].id # m.id
    BY <1>2
  <2>2. CASE m.max \in DOMAIN c
    <3>1. d = c
      BY <1>1, <1>2, <2>2 DEF Emplace
    <3> HIDE DEF d
    <3> QED BY <2>1, <2>2, <3>1 DEF Updated
  <2>3. CASE m.max \notin DOMAIN c
    <3>1. d = Keep(c, m.max, m)
      BY <1>1, <1>2, <2>3 DEF Emplace
    <3>2. /\ ClientMap(d) /\ DOMAIN d = DOMAIN c \cup {m.max}
          /\ \A k \in DOMAIN d : d[k] = IF k = m.max THEN m ELSE c[k]
      <4> HIDE DEF d
      <4>1. \A k \in DOMAIN c : c[k].id = m.id => k = m.max
        BY <2>1
      <4> QED BY <3>1, <4>1, KeepRight
    <3> HIDE DEF d
    <3> QED BY <2>1, <2>3, <3>2 DEF Updated
  <2> QED BY <2>2, <2>3
<1>3. CASE held # {}
  <2>1. h \in DOMAIN c /\ c[h].id = m.id
    BY <1>3
  <2> HIDE DEF h
  <2>2. c[h].max = h /\ \A k \in DOMAIN c : c[k].id = m.id => k = h
    BY <2>1 DEF ClientMap
  <2>3. CASE h = m.max
    <3>1. d = Keep(c, m.max, m)
      BY <1>1, <1>3, <2>2, <2>3
    <3>2. /\ ClientMap(d) /\ DOMAIN d = DOMAIN c \cup {m.max}
          /\ \A k \in DOMAIN d : d[k] = IF k = m.max THEN m ELSE c[k]
      <4> HIDE DEF d
      <4>1. \A k \in DOMAIN c : c[k].id = m.id => k = m.max
        BY <2>2, <2>3
      <4> QED BY <3>1, <4>1, KeepRight
    <3> HIDE DEF d
    <3> QED BY <2>1, <2>2, <2>3, <3>2 DEF Updated
  <2>4. CASE h # m.max
    <3> DEFINE e == Drop(c, h)
    <3>1. d = Emplace(e, m.max, m)
      BY <1>1, <1>3, <2>2, <2>4
    <3>2. ClientMap(e) /\ DOMAIN e = DOMAIN c \ {h} /\ \A j \in DOMAIN e : e[j] = c[j]
      BY DropRight
    <3> HIDE DEF e
    <3>3. \A j \in DOMAIN e : e[j].id # m.id
      BY <2>2, <3>2
    <3>4. CASE m.max \in DOMAIN e
      <4>1. d = e
        BY <3>1, <3>4 DEF Emplace
      <4> HIDE DEF d
      <4> QED BY <2>1, <3>2, <3>3, <4>1 DEF Updated
    <3>5. CASE m.max \notin DOMAIN e
      <4>1. d = Keep(e, m.max, m)
        BY <3>1, <3>5 DEF Emplace
      <4>2. /\ ClientMap(d) /\ DOMAIN d = DOMAIN e \cup {m.max}
            /\ \A k \in DOMAIN d : d[k] = IF k = m.max THEN m ELSE e[k]
        BY <3>2, <3>3, <4>1, KeepRight
      <4> HIDE DEF d
      <4> QED BY <2>1, <3>2, <3>3, <4>2 DEF Updated
    <3> QED BY <3>4, <3>5
  <2> QED BY <2>3, <2>4
<1> QED BY <1>2, <1>3

\* What a listing does to the clients: those of the masters it names become as
\* it says or are gone, the others stay or are gone.
Told(c, w, e) ==
  /\ ClientMap(e)
  /\ \A k \in DOMAIN e :
       e[k] \in ToSet(w) \/ (k \in DOMAIN c /\ e[k] = c[k] /\ \A m \in ToSet(w) : m.id # c[k].id)
  /\ DOMAIN c = {} => \A m \in ToSet(w) : m.max \in DOMAIN e /\ e[m.max] = m

LEMMA ListingRight ==
  ASSUME NEW c, ClientMap(c), NEW w \in Listings
  PROVE  Told(c, w, UpdateClients(c, w))
<1> DEFINE e == UpdateClients(c, w)
<1> SUFFICES Told(c, w, e)
  OBVIOUS
<1>1. ASSUME NEW a \in Range_, w = <<a>> PROVE Told(c, w, e)
  <2>1. ToSet(w) = {a}
    BY <1>1 DEF ToSet
  <2>2. e = UpdateClient(c, a)
    BY <1>1, FoldOne
  <2> HIDE DEF e
  <2>3. Updated(c, a, e)
    BY <2>2, UpdateRight
  <2> QED BY <2>1, <2>3 DEF Updated, Told
<1>2. ASSUME NEW a \in Range_, NEW b \in Range_, w = <<a, b>>, a.id # b.id, a.max # b.max
      PROVE  Told(c, w, e)
  <2>1. ToSet(w) = {a, b}
    <3>1. DOMAIN w = {1, 2} /\ w[1] = a /\ w[2] = b
      BY <1>2
    <3> QED BY <3>1 DEF ToSet
  <2> DEFINE d == UpdateClient(c, a)
  <2>2. e = UpdateClient(d, b)
    <3>1. PICK f : f = d
      OBVIOUS
    <3>2. UpdateClients(c, <<a, b>>) = UpdateClient(f, b)
      BY <3>1, FoldTwo
    <3> QED BY <1>2, <3>1, <3>2
  <2>3. Updated(c, a, d)
    BY UpdateRight
  <2> HIDE DEF d, e
  <2>4. Updated(d, b, e)
    <3>1. ClientMap(d)
      BY <2>3 DEF Updated
    <3> QED BY <2>2, <3>1, UpdateRight
  <2>5. ASSUME DOMAIN c = {} PROVE e[a.max] = a /\ e[b.max] = b /\ a.max \in DOMAIN e /\ b.max \in DOMAIN e
    <3>1. DOMAIN d = {a.max} /\ d[a.max] = a
      BY <2>3, <2>5 DEF Updated
    <3>2. \A k \in DOMAIN d : d[k].id # b.id /\ k # b.max
      BY <1>2, <3>1
    <3>3. DOMAIN e = DOMAIN d \cup {b.max} /\ e[b.max] = b /\ \A k \in DOMAIN d : e[k] = d[k]
      BY <2>4, <3>2 DEF Updated
    <3> QED BY <3>1, <3>3
  <2>6. ASSUME NEW k \in DOMAIN e, e[k] \notin {a, b}
        PROVE  k \in DOMAIN c /\ e[k] = c[k] /\ c[k].id # a.id /\ c[k].id # b.id
    <3>1. k \in DOMAIN d /\ e[k] = d[k] /\ d[k].id # b.id
      BY <2>4, <2>6 DEF Updated
    <3>2. k \in DOMAIN c /\ d[k] = c[k] /\ c[k].id # a.id
      BY <2>3, <2>6, <3>1 DEF Updated
    <3> QED BY <3>1, <3>2
  <2>7. ClientMap(e)
    BY <2>4 DEF Updated
  <2> QED BY <2>1, <2>5, <2>6, <2>7 DEF Told
<1>3. ASSUME NEW a \in Range_, NEW b \in Range_, a.max < b.max PROVE a.max # b.max
  BY <1>3 DEF Range_
<1> HIDE DEF e
<1> QED BY <1>1, <1>2, <1>3, ListingShape

-----------------------------------------------------------------------------
(* The invariant and what follows from it.                                 *)

LEMMA ClusterStarts == ClusterInit => ClusterInv
<1> SUFFICES ASSUME ClusterInit PROVE ClusterInv
  OBVIOUS
<1>1. layouts = <<>> /\ masterInfos = <<>> /\ clients = <<>> /\ MaxUpdates \in Nat
  BY ClusterAssumption DEF ClusterInit
<1>2. DOMAIN clients = {} /\ Len(layouts) = 0 /\ layouts \in Seq(Listings)
  BY <1>1
<1> QED BY <1>1, <1>2 DEF ClusterInv, ClientMap

LEMMA ClusterKept == ClusterInv /\ [ClusterNext]_clusterVars => ClusterInv'
<1> SUFFICES ASSUME ClusterInv, [ClusterNext]_clusterVars PROVE ClusterInv'
  OBVIOUS
<1>1. CASE UNCHANGED clusterVars
  BY <1>1 DEF ClusterInv, ClientMap, Latest, Named, clusterVars
<1>2. ASSUME NEW w \in Listings, NodesCallback(w) PROVE ClusterInv'
  <2> DEFINE n == Len(layouts)
  <2>1. /\ layouts \in Seq(Listings) /\ n < MaxUpdates /\ layouts' = Append(layouts, w) /\ n \in Nat
        /\ ClientMap(clients)
    BY <1>2, ClusterAssumption DEF ClusterInv, NodesCallback
  <2>2. /\ layouts' \in Seq(Listings) /\ Len(layouts') = n + 1 /\ layouts' # <<>>
        /\ DOMAIN layouts = 1 .. n /\ DOMAIN layouts' = 1 .. n + 1
        /\ layouts'[n + 1] = w /\ \A i \in 1 .. n : layouts'[i] = layouts[i]
    <3>1. layouts' \in Seq(Listings) /\ Len(layouts') = n + 1
      BY <2>1, AppendProperties
    <3>2. layouts'[n + 1] = w /\ \A i \in 1 .. n : layouts'[i] = layouts[i]
      BY <2>1, AppendProperties
    <3> QED BY <2>1, <3>1, <3>2
  <2>3. Len(layouts') <= MaxUpdates
    BY <2>1, <2>2, ClusterAssumption
  <2>4. masterInfos' = w
    BY <1>2 DEF NodesCallback
  <2>5. (clients' = clients /\ w = masterInfos) \/ clients' = UpdateClients(clients, w)
    BY <1>2 DEF NodesCallback
  <2>6. \E a \in Range_ : a \in ToSet(w)
    <3>1. ASSUME NEW a, NEW b, w = <<a>> \/ w = <<a, b>> PROVE a \in ToSet(w)
      <4>1. 1 \in DOMAIN w /\ w[1] = a
        BY <3>1
      <4> QED BY <4>1 DEF ToSet
    <3> QED BY <3>1, ListingShape
  <2>7. w # <<>>
    BY <2>6 DEF ToSet
  <2>8. ClientMap(clients')
    BY <2>1, <2>5, ListingRight DEF Told
  <2>9. ASSUME NEW k \in DOMAIN clients'
        PROVE  \E i \in DOMAIN layouts' : (Latest(clients[k].id, i) /\ clients[k] \in ToSet(layouts[i]))'
    <3>0. PICK c : c = clients'[k]
      OBVIOUS
    <3>1. Named(c.id)' = {i \in 1 .. n + 1 : \E m \in ToSet(layouts'[i]) : m.id = c.id}
      BY <2>2 DEF Named
    <3>2. CASE c \in ToSet(w)
      <4>1. n + 1 \in Named(c.id)'
        BY <2>1, <2>2, <3>1, <3>2
      <4>2. \A j \in Named(c.id)' : j <= n + 1
        BY <2>1, <3>1
      <4>3. c \in ToSet(layouts'[n + 1]) /\ n + 1 \in DOMAIN layouts'
        BY <2>1, <2>2, <3>2
      <4> QED BY <3>0, <4>1, <4>2, <4>3 DEF Latest
    <3>3. CASE k \in DOMAIN clients /\ c = clients[k] /\ \A m \in ToSet(w) : m.id # c.id
      <4>1. PICK i \in DOMAIN layouts : Latest(c.id, i) /\ c \in ToSet(layouts[i])
        BY <3>0, <3>3 DEF ClusterInv
      <4>2. i \in 1 .. n
        BY <2>2, <4>1
      <4>3. Named(c.id) = {j \in 1 .. n : \E m \in ToSet(layouts[j]) : m.id = c.id}
        BY <2>2 DEF Named
      <4>4. ASSUME NEW j \in Named(c.id)' PROVE j \in Named(c.id)
        <5>1. j # n + 1
          BY <2>2, <3>1, <3>3
        <5>2. j \in 1 .. n
          BY <2>1, <3>1, <5>1
        <5> QED BY <2>2, <3>1, <4>3, <5>2
      <4>5. i \in Named(c.id)'
        <5>1. i \in 1 .. n + 1
          BY <2>1, <4>2
        <5> QED BY <2>2, <3>1, <4>1, <4>2, <4>3, <5>1 DEF Latest
      <4>6. \A j \in Named(c.id)' : j <= i
        BY <4>1, <4>4 DEF Latest
      <4>7. i \in DOMAIN layouts' /\ c \in ToSet(layouts'[i])
        BY <2>1, <2>2, <4>1, <4>2
      <4> QED BY <3>0, <4>5, <4>6, <4>7 DEF Latest
    <3>4. CASE clients' = clients /\ w = masterInfos
      <4>1. n # 0 /\ w = layouts[n]
        BY <2>7, <3>4, EmptySeq, <2>1 DEF ClusterInv
      <4>2. PICK i \in DOMAIN layouts : Latest(c.id, i) /\ c \in ToSet(layouts[i])
        BY <2>9, <3>0, <3>4 DEF ClusterInv
      <4>3. Named(c.id) = {j \in 1 .. n : \E m \in ToSet(layouts[j]) : m.id = c.id}
        BY <2>2 DEF Named
      <4>4. CASE \E m \in ToSet(w) : m.id = c.id
        <5>1. n \in Named(c.id)
          BY <2>1, <4>1, <4>3, <4>4
        <5>2. i = n
          BY <2>1, <4>2, <4>3, <5>1 DEF Latest
        <5> QED BY <3>2, <4>1, <4>2, <5>2
      <4>5. CASE \A m \in ToSet(w) : m.id # c.id
        BY <2>9, <3>0, <3>3, <3>4, <4>5
      <4> QED BY <4>4, <4>5
    <3>5. clients' = UpdateClients(clients, w) =>
            c \in ToSet(w) \/ (k \in DOMAIN clients /\ c = clients[k] /\ \A m \in ToSet(w) : m.id # c.id)
      BY <2>1, <2>9, <3>0, ListingRight DEF Told
    <3> QED BY <2>5, <3>2, <3>3, <3>4, <3>5
  <2>10. ASSUME Len(layouts') = 1
         PROVE  \A m \in ToSet(layouts'[1]) : m.max \in DOMAIN clients' /\ clients'[m.max] = m
    <3>1. n = 0 /\ layouts'[1] = w
      BY <2>1, <2>2, <2>10
    <3>2. layouts = <<>>
      BY <2>1, <3>1, EmptySeq
    <3>3. masterInfos = <<>> /\ DOMAIN clients = {}
      <4>1. DOMAIN layouts = {}
        BY <3>2
      <4>2. \A k \in DOMAIN clients : \E i \in DOMAIN layouts : Latest(clients[k].id, i)
        BY DEF ClusterInv
      <4> QED BY <3>2, <4>1, <4>2 DEF ClusterInv
    <3>4. clients' = UpdateClients(clients, w)
      BY <2>5, <2>7, <3>3
    <3> QED BY <2>1, <3>1, <3>3, <3>4, ListingRight DEF Told
  <2> QED BY <2>2, <2>3, <2>4, <2>8, <2>9, <2>10 DEF ClusterInv
<1>3. ASSUME ClusterNext PROVE ClusterInv'
  <2>1. PICK w \in Listings : NodesCallback(w)
    BY <1>3 DEF ClusterNext
  <2> QED BY <1>2, <2>1
<1> QED BY <1>1, <1>3

\* In a listing no slot has two owners.
LEMMA OwnerOnly ==
  ASSUME NEW w \in Listings, NEW s \in Nat, NEW m \in ToSet(w), m.min <= s, s <= m.max
  PROVE  m = Owner(w, s)
<1>1. ASSUME NEW a \in Range_, w = <<a>> PROVE ToSet(w) = {a}
  BY <1>1 DEF ToSet
<1>2. ASSUME NEW a \in Range_, NEW b \in Range_, w = <<a, b>> \/ w = <<b, a>> PROVE ToSet(w) = {a, b}
  <2>1. DOMAIN w = {1, 2} /\ ((w[1] = a /\ w[2] = b) \/ (w[1] = b /\ w[2] = a))
    BY <1>2
  <2> QED BY <2>1 DEF ToSet
<1>3. \A x, y \in ToSet(w) : x.min <= s /\ s <= x.max /\ y.min <= s /\ s <= y.max => x = y
  <2>1. CASE \E a \in Range_ : w = <<a>>
    BY <1>1, <2>1
  <2>2. ASSUME NEW a \in Range_, NEW b \in Range_, w = <<a, b>> \/ w = <<b, a>>, b.min = a.max + 1
        PROVE  \A x, y \in ToSet(w) : x.min <= s /\ s <= x.max /\ y.min <= s /\ s <= y.max => x = y
    <3>1. a.max \in Nat
      BY ClusterAssumption DEF Range_
    <3>2. ~(s <= a.max /\ b.min <= s)
      BY <2>2, <3>1
    <3> QED BY <1>2, <2>2, <3>2
  <2> QED BY <2>1, <2>2, ListingShape
<1> QED BY <1>3 DEF Owner

\* The range that ends first begins no later than any other place in it.
LEMMA Ranges ==
  ASSUME NEW w \in Listings, NEW m \in ToSet(w), NEW o \in ToSet(w), o.max <= m.max, o # m
  PROVE  o.min = 0
<1>1. CASE \E a \in Range_ : w = <<a>>
  BY <1>1 DEF ToSet
<1>2. ASSUME NEW a \in Range_, NEW b \in Range_, w = <<a, b>> \/ w = <<b, a>>, a.min = 0, a.max < b.max
      PROVE  o.min = 0
  <2>1. DOMAIN w = {1, 2} /\ ((w[1] = a /\ w[2] = b) \/ (w[1] = b /\ w[2] = a))
    BY <1>2
  <2>2. ToSet(w) = {a, b}
    BY <2>1 DEF ToSet
  <2>3. a.max \in Nat /\ b.max \in Nat
    BY ClusterAssumption DEF Range_
  <2>4. o = a
    BY <1>2, <2>2, <2>3
  <2> QED BY <1>2, <2>4
<1> QED BY <1>1, <1>2, ListingShape

\* Every slot has an owner.
LEMMA OwnerIs ==
  ASSUME NEW w \in Listings, NEW s \in 0 .. LastSlot
  PROVE  \E m \in ToSet(w) : m \in Range_ /\ m.min <= s /\ s <= m.max
<1>1. ASSUME NEW a \in Range_, w = <<a>> PROVE a \in ToSet(w)
  BY <1>1 DEF ToSet
<1>2. ASSUME NEW a \in Range_, NEW b \in Range_, w = <<a, b>> \/ w = <<b, a>> PROVE a \in ToSet(w) /\ b \in ToSet(w)
  <2>1. DOMAIN w = {1, 2} /\ ((w[1] = a /\ w[2] = b) \/ (w[1] = b /\ w[2] = a))
    BY <1>2
  <2> QED BY <2>1 DEF ToSet
<1>3. ASSUME NEW a \in Range_ PROVE a.min \in Nat /\ a.max \in Nat
  BY ClusterAssumption DEF Range_
<1>4. CASE \E a \in Range_ : w = <<a>> /\ a.min = 0 /\ a.max = LastSlot
  BY <1>1, <1>4, ClusterAssumption
<1>5. ASSUME NEW a \in Range_, NEW b \in Range_, w = <<a, b>> \/ w = <<b, a>>,
             a.min = 0, b.min = a.max + 1, b.max = LastSlot
      PROVE  \E m \in ToSet(w) : m \in Range_ /\ m.min <= s /\ s <= m.max
  <2>1. s <= a.max \/ b.min <= s
    BY <1>3, <1>5, ClusterAssumption
  <2> QED BY <1>2, <1>5, <2>1, ClusterAssumption
<1> QED BY <1>4, <1>5, ListingShape

THEOREM ClusterIsSafe == ClusterSpec => []ClusterSafe
<1>1. ClusterInv => ClusterSafe
  <2> SUFFICES ASSUME ClusterInv PROVE ClusterSafe
    OBVIOUS
  <2>1. ClusterTypeOK
    BY DEF ClusterTypeOK, ClusterInv, ClientMap, Range_
  <2>2. Slots \subseteq 0 .. LastSlot - 1
    BY ClusterAssumption DEF Slots, GetSlot
  \* Who is found for a slot has it.
  <2>3. ASSUME NEW s \in Slots, GetClient(s) # Nobody
        PROVE  \E k \in DOMAIN clients : /\ GetClient(s) = clients[k] /\ clients[k].min <= s /\ s <= k
                                         /\ \A l \in DOMAIN clients : l >= s => k <= l
    <3> DEFINE above == {k \in DOMAIN clients : k >= s}
    <3>1. above # {} /\ above \in SUBSET Nat
      BY <2>3, <2>1, ClusterAssumption DEF GetClient, ClusterTypeOK
    <3>2. PICK k \in above : \A l \in above : k <= l
      <4> HIDE DEF above
      <4> QED BY <3>1, LeastNumber
    <3>3. Min(above) \in above /\ \A l \in above : Min(above) <= l
      <4> HIDE DEF above
      <4> QED BY <3>2 DEF Min
    <3> DEFINE m == Min(above)
    <3>4. GetClient(s) = clients[m] /\ ~(clients[m].min > s)
      BY <2>3, <3>1 DEF GetClient
    <3> HIDE DEF m
    <3>5. m \in DOMAIN clients /\ m >= s /\ \A l \in DOMAIN clients : l >= s => m <= l
      BY <3>3 DEF m
    <3>6. clients[m].min \in Nat /\ s \in Nat /\ m \in Nat
      BY <2>2, <3>5, ClusterAssumption DEF ClusterInv, ClientMap, Range_
    <3> QED BY <3>4, <3>5, <3>6
  <2>4. ASSUME Len(layouts) = 1, NEW s \in Slots PROVE GetClient(s) = Owner(layouts[1], s)
    <3> DEFINE w == layouts[1]
    <3>1. w \in Listings
      BY <2>4 DEF ClusterInv
    <3>2. s \in 0 .. LastSlot /\ s \in Nat
      BY <2>2, ClusterAssumption
    <3> HIDE DEF w
    <3>3. PICK m \in ToSet(w) : m \in Range_ /\ m.min <= s /\ s <= m.max
      BY <3>1, <3>2, OwnerIs
    <3>4. m.max \in DOMAIN clients /\ clients[m.max] = m
      BY <2>4, <3>3 DEF ClusterInv, w
    <3> DEFINE above == {k \in DOMAIN clients : k >= s}
    <3>5. above \in SUBSET Nat /\ m.max \in above
      BY <2>1, <3>2, <3>3, <3>4, ClusterAssumption DEF ClusterTypeOK, Range_
    <3>6. PICK k \in above : \A l \in above : k <= l
      <4> HIDE DEF above
      <4> QED BY <3>5, LeastNumber
    <3>7. Min(above) \in above /\ \A l \in above : Min(above) <= l
      <4> HIDE DEF above
      <4> QED BY <3>6 DEF Min
    <3>8. PICK j : j = Min(above)
      OBVIOUS
    <3>9. GetClient(s) = IF clients[j].min > s THEN Nobody ELSE clients[j]
      BY <3>5, <3>8 DEF GetClient
    \* The listing is all that is known, so that the first client is its owner.
    <3>10. clients[j] \in ToSet(w) /\ clients[j].max = j /\ clients[j] \in Range_ /\ s <= j /\ j <= m.max
      <4>1. j \in DOMAIN clients /\ j >= s /\ j <= m.max
        BY <3>5, <3>7, <3>8
      <4>2. PICK i \in DOMAIN layouts : clients[j] \in ToSet(layouts[i])
        BY <4>1 DEF ClusterInv
      <4>3. i = 1
        BY <2>4, <4>2 DEF ClusterInv
      <4> QED BY <3>2, <4>1, <4>2, <4>3, ClusterAssumption DEF ClusterInv, ClientMap, w
    <3>11. clients[j].min <= s
      <4>1. ASSUME clients[j] # m PROVE clients[j].min <= s
        <5>1. j # m.max
          BY <3>4, <4>1
        <5> QED BY <3>1, <3>3, <3>10, <4>1, <5>1, <3>2, Ranges
      <4> QED BY <3>3, <4>1
    <3>12. GetClient(s) = clients[j]
      BY <3>2, <3>9, <3>10, <3>11, ClusterAssumption DEF Range_
    <3> QED BY <3>1, <3>2, <3>10, <3>11, <3>12, OwnerOnly DEF w
  <2>5. ASSUME NEW s \in Slots, GetClient(s) # Nobody
        PROVE  LET id == GetClient(s).id
                   naming == {i \in DOMAIN layouts : \E m \in ToSet(layouts[i]) : m.id = id}
               IN naming # {} /\ Owner(layouts[Max(naming)], s).id = id
    <3>1. PICK k \in DOMAIN clients : GetClient(s) = clients[k] /\ clients[k].min <= s /\ s <= k
      BY <2>3, <2>5
    <3>2. PICK c : c = clients[k]
      OBVIOUS
    <3> DEFINE naming == {i \in DOMAIN layouts : \E m \in ToSet(layouts[i]) : m.id = c.id}
    <3>3. PICK i \in DOMAIN layouts : Latest(c.id, i) /\ c \in ToSet(layouts[i])
      BY <3>1, <3>2 DEF ClusterInv
    <3>4. naming = Named(c.id)
      BY DEF Named
    <3>5. naming \in SUBSET Nat
      BY DEF ClusterInv
    <3> HIDE DEF naming
    <3>6. i \in naming /\ \A j \in naming : j <= i
      BY <3>3, <3>4 DEF Latest
    <3>7. Max(naming) = i
      <4>1. ASSUME NEW x \in naming, \A j \in naming : x >= j PROVE x = i
        <5>1. x \in Nat /\ i \in Nat /\ x >= i /\ x <= i
          BY <3>5, <3>6, <4>1
        <5> QED BY <5>1
      <4>2. i \in naming /\ \A j \in naming : i >= j
        BY <3>5, <3>6
      <4> QED BY <4>1, <4>2 DEF Max
    <3>8. layouts[i] \in Listings /\ s \in Nat /\ c.max = k
      BY <2>2, <3>1, <3>2, <3>3, ClusterAssumption DEF ClusterInv, ClientMap
    <3>9. Owner(layouts[i], s) = c
      BY <3>1, <3>2, <3>3, <3>8, OwnerOnly
    <3> QED BY <3>1, <3>2, <3>6, <3>7, <3>9 DEF naming
  <2> QED BY <2>1, <2>4, <2>5 DEF ClusterSafe, FirstWhole, RoutedAsTold
<1>2. QED BY <1>1, ClusterStarts, ClusterKept, PTL DEF ClusterSpec

-----------------------------------------------------------------------------
(* Sequences, for the answers of the HTTP server.                          *)

LEMMA FirstPart ==
  ASSUME NEW S, NEW v, NEW n \in Nat, \A i \in 1 .. n : v[i] \in S
  PROVE  /\ SubSeq(v, 1, n) \in Seq(S) /\ Len(SubSeq(v, 1, n)) = n
         /\ \A i \in 1 .. n : SubSeq(v, 1, n)[i] = v[i]
<1>1. n \in Int /\ 1 \in Int /\ n - 1 + 1 = n /\ \A i \in 1 .. n : 1 + i - 1 = i
  OBVIOUS
<1>2. /\ SubSeq(v, 1, n) \in Seq(S) /\ Len(SubSeq(v, 1, n)) = IF 1 <= n THEN n - 1 + 1 ELSE 0
      /\ \A i \in 1 .. n - 1 + 1 : SubSeq(v, 1, n)[i] = v[1 + i - 1]
  BY <1>1, SubSeqProperties
<1>3. Len(SubSeq(v, 1, n)) = n
  <2>1. (IF 1 <= n THEN n - 1 + 1 ELSE 0) = n
    OBVIOUS
  <2> QED BY <1>2, <2>1
<1> QED BY <1>1, <1>2, <1>3

LEMMA HeadTailConcat ==
  ASSUME NEW S, NEW s \in Seq(S), s # <<>>
  PROVE  Head(s) \in S /\ Tail(s) \in Seq(S) /\ <<Head(s)>> \o Tail(s) = s
<1> DEFINE x == Head(s)
           r == Tail(s)
           a == <<x>>
           t == a \o r
<1>1. /\ x \in S /\ r \in Seq(S) /\ Len(r) = Len(s) - 1 /\ \A i \in 1 .. Len(r) : r[i] = s[i + 1]
      /\ Len(s) \in Nat /\ Len(s) # 0
  BY HeadTailProperties, EmptySeq
<1>2. x = s[1]
  OBVIOUS
<1> HIDE DEF x, r
<1>3. a \in Seq(S) /\ Len(a) = 1 /\ a[1] = x
  BY <1>1
<1> HIDE DEF a
<1>4. t \in Seq(S) /\ Len(t) = Len(s) /\ \A i \in 1 .. Len(s) : t[i] = IF i <= 1 THEN a[i] ELSE r[i - 1]
  <2>0. r \in Seq(S) /\ a \in Seq(S)
    BY <1>1, <1>3
  <2>1. /\ t \in Seq(S) /\ Len(t) = Len(a) + Len(r)
        /\ \A i \in 1 .. Len(a) + Len(r) : t[i] = IF i <= Len(a) THEN a[i] ELSE r[i - Len(a)]
    BY <2>0, ConcatProperties
  <2>2. Len(a) + Len(r) = Len(s)
    BY <1>1, <1>3
  <2> HIDE DEF t
  <2> QED BY <1>3, <2>1, <2>2
<1> HIDE DEF t
<1>5. ASSUME NEW i \in 1 .. Len(s) PROVE t[i] = s[i]
  <2>1. CASE i = 1
    BY <1>2, <1>3, <1>4, <2>1
  <2>2. CASE i # 1
    <3>1. i - 1 \in 1 .. Len(r) /\ (i - 1) + 1 = i /\ ~(i <= 1)
      BY <1>1, <2>2
    <3> QED BY <1>1, <1>4, <3>1
  <2> QED BY <2>1, <2>2
<1>6. t = s
  BY <1>4, <1>5, SeqEqual
<1> QED BY <1>1, <1>6 DEF x, r, a, t

LEMMA ToSetConcat ==
  ASSUME NEW S, NEW s \in Seq(S), NEW t \in Seq(S)
  PROVE  ToSet(s \o t) = ToSet(s) \cup ToSet(t)
<1> DEFINE r == s \o t
           n == Len(s)
           m == Len(t)
<1>1. /\ r \in Seq(S) /\ Len(r) = n + m /\ n \in Nat /\ m \in Nat
      /\ \A i \in 1 .. n + m : r[i] = IF i <= n THEN s[i] ELSE t[i - n]
  BY ConcatProperties
<1>2. DOMAIN s = 1 .. n /\ DOMAIN t = 1 .. m
  OBVIOUS
<1> HIDE DEF r, n, m
<1>3. DOMAIN r = 1 .. n + m
  BY <1>1
<1>4. ASSUME NEW x \in ToSet(r) PROVE x \in ToSet(s) \cup ToSet(t)
  <2>1. PICK i \in 1 .. n + m : x = r[i]
    BY <1>3, <1>4 DEF ToSet
  <2>2. CASE i <= n
    <3>1. i \in 1 .. n /\ x = s[i]
      BY <1>1, <2>1, <2>2
    <3> QED BY <1>2, <3>1 DEF ToSet
  <2>3. CASE ~(i <= n)
    <3>1. i - n \in 1 .. m /\ x = t[i - n]
      BY <1>1, <2>1, <2>3
    <3> QED BY <1>2, <3>1 DEF ToSet
  <2> QED BY <2>2, <2>3
<1>5. ASSUME NEW x \in ToSet(s) PROVE x \in ToSet(r)
  <2>1. PICK i \in 1 .. n : x = s[i]
    BY <1>2, <1>5 DEF ToSet
  <2>2. i \in 1 .. n + m /\ x = r[i]
    BY <1>1, <2>1
  <2> QED BY <1>3, <2>2 DEF ToSet
<1>6. ASSUME NEW x \in ToSet(t) PROVE x \in ToSet(r)
  <2>1. PICK i \in 1 .. m : x = t[i]
    BY <1>2, <1>6 DEF ToSet
  <2>2. i + n \in 1 .. n + m /\ ~(i + n <= n) /\ (i + n) - n = i
    BY <1>1
  <2>3. x = r[i + n]
    BY <1>1, <2>1, <2>2
  <2> QED BY <1>3, <2>2, <2>3 DEF ToSet
<1> QED BY <1>4, <1>5, <1>6 DEF r


-----------------------------------------------------------------------------
(* A connection of the HTTP server.                                        *)

Piece(c) == [what : {"head", "body"}, k : 1 .. Len(c)]
Blob == [what : {"answer", "block"}, k : Nat]

ServerState(c) ==
  [parser : Seq(Piece(c)), body : Nat, armed : {"none", "request", "body"}, sends : {"request", "download"},
   sending : {q \in Seq(Blob) : Len(q) <= 1}, buffers : Seq(Blob), isSend : BOOLEAN, isClose : BOOLEAN, inCallback : BOOLEAN,
   open : BOOLEAN, listed : BOOLEAN, run : {"none", "later", "body", "download"},
   begin : Nat, end : Nat, offset : Nat, crashed : BOOLEAN]

\* One answer is being sent as long as is_send_ is set, and none waits without.
Sendable(s) ==
  /\ s.isSend <=> s.sending # <<>>
  /\ Len(s.sending) <= 1
  /\ ~s.isSend => s.buffers = <<>>

HeadIn(q) == \E i \in 1 .. Len(q) : q[i].what = "head"

\* Where a living connection can be: between two requests, or in a handler that
\* waits, reads a body or sends a file.
Between(s) ==
  /\ s.run = "none" /\ ~s.inCallback /\ s.armed = "request" /\ s.sends = "request"
  /\ s.open /\ Sendable(s) /\ ~HeadIn(s.parser)
Waiting(s) ==
  /\ s.run = "later" /\ s.inCallback /\ s.armed = "none" /\ s.sends = "request"
  /\ s.open => Sendable(s)
Reading(s) ==
  /\ s.run = "body" /\ s.inCallback /\ s.sends = "request"
  /\ s.open => s.armed = "body" /\ Sendable(s)
  /\ ~s.open => s.armed = "none"
Loading(s) ==
  /\ s.run = "download" /\ s.inCallback /\ s.armed = "none" /\ s.sends = "download"
  /\ s.open /\ ~s.isSend /\ s.buffers = <<>> /\ Len(s.sending) <= 1 /\ s.begin = s.offset

Lives(s) == s.listed /\ ~s.crashed

ModeOK(s) ==
  /\ s.open /\ ~s.crashed => s.listed
  /\ Lives(s) => /\ Between(s) \/ Waiting(s) \/ Reading(s) \/ Loading(s)
                 /\ s.isClose <=> ~s.open
                 /\ ~s.open => s.sending = <<>>

\* The blocks of a file from b up to, without, e; the answer to the request k of c,
\* and those to the first n requests of h.
Blocks(b, e) == [i \in 1 .. e - b |-> Item("block", b + i - 1)]
FileEnd(r) == IF r[2] < FileSize THEN r[2] ELSE FileSize
AnswerTo(c, k) ==
  <<Item("answer", k)>> \o
    (IF c[k].does # "download" THEN <<>> ELSE Blocks(c[k].range[1], FileEnd(c[k].range)))
AnswersTo(c, h, n) == FlattenSeq([i \in 1 .. n |-> AnswerTo(c, h[i])])

InRange(c) == \A k \in 1 .. Len(c) : c[k].range[1] <= c[k].range[2]

\* What was sent and what is to be sent are the answers up to the request that is
\* being handled, which has sent a part of its file.
FlowOK(c, s, w, h) ==
  LET n == Len(h)
  IN CASE s.run = "none" -> w \o s.sending \o s.buffers = AnswersTo(c, h, n)
       [] s.run \in {"later", "body"} ->
            /\ n # 0 /\ c[h[n]].does # "download"
            /\ w \o s.sending \o s.buffers = AnswersTo(c, h, n - 1)
       [] s.run = "download" ->
            /\ n # 0 /\ c[h[n]].does = "download" /\ s.end = c[h[n]].range[2]
            /\ c[h[n]].range[1] <= s.offset /\ s.offset <= s.end
            /\ s.offset <= FileSize \/ s.offset = c[h[n]].range[1]
            /\ w \o s.sending =
                 AnswersTo(c, h, n - 1) \o (<<Item("answer", h[n])>> \o Blocks(c[h[n]].range[1], s.offset))

\* Every request handled has its answer, but for one whose handler waits.
EachTold(s, w, h) ==
  \A i \in 1 .. Len(h) :
    \/ Item("answer", h[i]) \in ToSet(w) \cup ToSet(s.sending) \cup ToSet(s.buffers)
    \/ i = Len(h) /\ s.run \in {"later", "body"}

AnswersOK(c, s, w, h) ==
  /\ h # <<>> \/ s.run = "none"
  /\ InRange(c) => IsPrefix(w, AnswersTo(c, h, Len(h)))
  /\ Lives(s) /\ s.open => (InRange(c) => FlowOK(c, s, w, h)) /\ EachTold(s, w, h)

WholeScript(c) == FlattenSeq([k \in DOMAIN c |-> Sent(c, k)])

ServerTyped(c, out, in, gone, s, w, h, hab) ==
  /\ c \in Scripts /\ s \in ServerState(c) /\ w \in Seq(Blob) /\ h \in Seq(1 .. Len(c))
  /\ in \in Seq(Piece(c)) /\ out \in Seq(Piece(c)) /\ gone \in BOOLEAN
  /\ hab \in [pipelined : BOOLEAN, waited : BOOLEAN, misread : BOOLEAN]

\* The process ends in known ways only.
Excused(s, hab) ==
  /\ Lives(s) /\ s.run = "body" => hab.waited
  /\ s.crashed => hab.waited \/ hab.pipelined

\* The first head is sent before anything else.
FirstSent(c, out, in, s, h) ==
  \/ Item("head", 1) \notin ToSet(out)
  \/ /\ out = WholeScript(c) /\ in = <<>> /\ h = <<>>
     /\ Lives(s) => s.run = "none" /\ s.sending = <<>>

\* A peer that does not pipeline has at most one head under way, first in what it
\* sent, while nothing is handled; every head is to be sent, or to be received, or
\* was handled.
InTurn(c, out, in, s, h, hab) ==
  ~hab.pipelined /\ Lives(s) =>
    /\ \A i \in 1 .. Len(in) : in[i].what = "head" => i = 1 /\ s.run = "none" /\ s.sending = <<>>
    /\ \A k \in 1 .. Len(c) : Item("head", k) \in ToSet(out) \cup ToSet(in) \/ k \in ToSet(h)

ServerInv ==
  /\ ServerTyped(script, outgoing, inbox, peerGone, srv, wire, handled, habits)
  /\ ModeOK(srv) /\ AnswersOK(script, srv, wire, handled) /\ Excused(srv, habits)
  /\ FirstSent(script, outgoing, inbox, srv, handled)
  /\ InTurn(script, outgoing, inbox, srv, handled, habits)


-----------------------------------------------------------------------------
(* The answers, one behind the other.                                      *)

LEMMA BlocksMade ==
  ASSUME NEW b \in Nat, NEW e \in Int
  PROVE  /\ Blocks(b, e) \in Seq(Blob)
         /\ Len(Blocks(b, e)) = IF e - b >= 0 THEN e - b ELSE 0
         /\ \A i \in 1 .. e - b : Blocks(b, e)[i] = Item("block", b + i - 1)
         /\ e <= b => Blocks(b, e) = <<>>
<1>1. CASE e <= b
  <2>1. 1 .. e - b = {}
    BY <1>1
  <2>2. Blocks(b, e) = <<>>
    BY <2>1 DEF Blocks
  <2> QED BY <1>1, <2>1, <2>2, EmptySeq
<1>2. CASE e > b
  <2> DEFINE n == e - b
  <2>1. n \in Nat
    BY <1>2
  <2>2. \A i \in 1 .. n : Item("block", b + i - 1) \in Blob
    BY <1>2 DEF Item, Blob
  <2>3. Blocks(b, e) = [i \in 1 .. n |-> Item("block", b + i - 1)]
    BY DEF Blocks
  <2> HIDE DEF n
  <2>4. Blocks(b, e) \in Seq(Blob) /\ Len(Blocks(b, e)) = n /\ \A i \in 1 .. n : Blocks(b, e)[i] = Item("block", b + i - 1)
    BY <2>1, <2>2, <2>3
  <2> QED BY <1>2, <2>4 DEF n
<1> QED BY <1>1, <1>2

LEMMA BlocksNext ==
  ASSUME NEW b \in Nat, NEW e \in Nat, b <= e
  PROVE  Blocks(b, e + 1) = Append(Blocks(b, e), Item("block", e))
<1> DEFINE s == Blocks(b, e)
           t == Blocks(b, e + 1)
           x == Item("block", e)
           u == Append(s, x)
           n == e - b
<1>1. n \in Nat /\ (e + 1) - b = n + 1 /\ e = b + n
  OBVIOUS
<1>2. s \in Seq(Blob) /\ Len(s) = n /\ \A i \in 1 .. n : s[i] = Item("block", b + i - 1)
  BY <1>1, BlocksMade
<1>3. t \in Seq(Blob) /\ Len(t) = n + 1 /\ \A i \in 1 .. n + 1 : t[i] = Item("block", b + i - 1)
  BY <1>1, BlocksMade
<1>4. x \in Blob
  BY DEF Blob, Item
<1>5. b + (n + 1) - 1 = e
  BY <1>1
<1> HIDE DEF s, t, x, n
<1>6. u \in Seq(Blob) /\ Len(u) = n + 1 /\ (\A i \in 1 .. n : u[i] = s[i]) /\ u[n + 1] = x
  BY <1>1, <1>2, <1>4, AppendProperties
<1> HIDE DEF u
<1>7. ASSUME NEW i \in 1 .. n + 1 PROVE t[i] = u[i]
  <2>1. CASE i = n + 1
    BY <1>1, <1>3, <1>5, <1>6, <2>1 DEF x
  <2>2. CASE i # n + 1
    <3>1. i \in 1 .. n
      BY <1>1, <2>2
    <3> QED BY <1>2, <1>3, <1>6, <3>1
  <2> QED BY <2>1, <2>2
<1>8. t = u
  BY <1>1, <1>3, <1>6, <1>7, SeqEqual
<1> QED BY <1>8 DEF s, t, x, u

\* The first blocks of a file are a part of all of them.
LEMMA BlocksFirst ==
  ASSUME NEW b \in Nat, NEW e \in Nat, NEW f \in Nat, e <= f \/ e = b
  PROVE  \E z \in Seq(Blob) : Blocks(b, f) = Blocks(b, e) \o z
<1>1. CASE e <= b
  <2>1. Blocks(b, e) = <<>> /\ Blocks(b, f) \in Seq(Blob)
    BY <1>1, BlocksMade
  <2> QED BY <2>1, ConcatEmptySeq
<1>2. CASE e > b
  <2> DEFINE s == Blocks(b, f)
             n == e - b
  <2>1. /\ s \in Seq(Blob) /\ Len(s) = f - b /\ n \in 0 .. f - b /\ f - b \in Nat
        /\ \A i \in 1 .. f - b : s[i] = Item("block", b + i - 1)
    BY <1>2, BlocksMade
  <2> DEFINE t == Blocks(b, e)
             u == SubSeq(s, 1, n)
  <2>2. t \in Seq(Blob) /\ Len(t) = n /\ \A i \in 1 .. n : t[i] = Item("block", b + i - 1)
    BY <1>2, BlocksMade
  <2> HIDE DEF s, t, n
  <2>3. /\ u \in Seq(Blob) /\ Len(u) = n /\ SubSeq(s, n + 1, Len(s)) \in Seq(Blob)
        /\ u \o SubSeq(s, n + 1, Len(s)) = s
    BY <2>1, SplitConcat
  <2>4. \A i \in 1 .. n : u[i] = s[i]
    <3>1. n \in Int /\ \A i \in 1 .. n : s[i] \in Blob
      BY <2>1
    <3>2. \A i \in 1 .. n - 1 + 1 : u[i] = s[1 + i - 1]
      BY <3>1, SubSeqProperties
    <3>3. n - 1 + 1 = n /\ \A i \in 1 .. n : 1 + i - 1 = i
      BY <3>1
    <3> QED BY <3>2, <3>3
  <2>5. \A i \in 1 .. n : u[i] = t[i]
    <3>1. \A i \in 1 .. n : i \in 1 .. f - b
      BY <2>1
    <3> QED BY <2>1, <2>2, <2>4, <3>1
  <2> HIDE DEF u
  <2>6. u = t
    BY <2>2, <2>3, <2>5, SeqEqual
  <2>7. \E z \in Seq(Blob) : s = t \o z
    BY <2>3, <2>6
  <2> QED BY <2>7 DEF s, t
<1>3. e <= b \/ e > b
  OBVIOUS
<1> QED BY <1>1, <1>2, <1>3, Zenon

LEMMA AnswerMade ==
  ASSUME NEW c \in Seq(Asked), NEW k \in 1 .. Len(c)
  PROVE  AnswerTo(c, k) \in Seq(Blob) /\ Item("answer", k) \in Blob /\ <<Item("answer", k)>> \in Seq(Blob)
<1>1. Item("answer", k) \in Blob
  BY DEF Item, Blob
<1>2. <<Item("answer", k)>> \in Seq(Blob)
  BY <1>1
<1>3. c[k] \in Asked
  OBVIOUS
<1>4. c[k].range[1] \in Nat /\ FileEnd(c[k].range) \in Int
  BY <1>3, ScriptsAssumption DEF Asked, FileEnd
<1>5. Blocks(c[k].range[1], FileEnd(c[k].range)) \in Seq(Blob) /\ <<>> \in Seq(Blob)
  <2>1. PICK b \in Nat, e \in Int : b = c[k].range[1] /\ e = FileEnd(c[k].range)
    BY <1>4
  <2>2. Blocks(b, e) \in Seq(Blob)
    BY BlocksMade
  <2> QED BY <2>1, <2>2
<1> QED BY <1>1, <1>2, <1>5, ConcatProperties DEF AnswerTo

\* Joining sequences up to the n-th.
OneMore(S, q, r, n) ==
  /\ n \in Nat /\ n > 0
  /\ Len(q) = n - 1 /\ Len(r) = n /\ (q = <<>> \/ n # 1)
  /\ \A i \in 1 .. n - 1 : q[i] = r[i]
  /\ \A i \in 1 .. n : r[i] \in Seq(S)

LEMMA FlattenNext ==
  ASSUME NEW S, NEW q, NEW r, NEW n, OneMore(S, q, r, n)
  PROVE  FlattenSeq(r) = FlattenSeq(q) \o r[n] /\ FlattenSeq(r) \in Seq(S)
<1>0. /\ n \in Nat /\ n > 0
      /\ Len(q) = n - 1 /\ Len(r) = n /\ (q = <<>> \/ n # 1)
      /\ \A i \in 1 .. n - 1 : q[i] = r[i]
      /\ \A i \in 1 .. n : r[i] \in Seq(S)
  BY DEF OneMore
<1>1. PICK g : /\ g[1] = r[1] /\ \A k \in 2 .. n : g[k] = g[k - 1] \o r[k]
               /\ FlattenSeq(r) = g[n]
  <2>1. Len(r) \in Nat /\ Len(r) # 0
    BY <1>0
  <2>2. PICK g : /\ g[1] = r[1] /\ \A k \in 2 .. Len(r) : g[k] = g[k - 1] \o r[k]
                 /\ FlattenSeq(r) = g[Len(r)]
    BY <2>1, FlattenSteps
  <2> QED BY <1>0, <2>2
<1>2. \A k \in 1 .. n : g[k] \in Seq(S)
  <2> DEFINE T == {k \in 1 .. n : g[k] \notin Seq(S)}
  <2>1. SUFFICES ASSUME T # {} PROVE FALSE
    OBVIOUS
  <2>2. PICK k \in T : \A j \in T : k <= j
    <3>1. T \in SUBSET Nat
      OBVIOUS
    <3> HIDE DEF T
    <3> QED BY <2>1, <3>1, LeastNumber
  <2>3. CASE k = 1
    BY <1>0, <1>1, <2>2, <2>3
  <2>4. CASE k # 1
    <3>1. k \in 2 .. n /\ k - 1 \in 1 .. n /\ k - 1 < k
      BY <1>0, <2>2, <2>4
    <3>2. g[k - 1] \in Seq(S)
      BY <2>2, <3>1
    <3>3. r[k] \in Seq(S) /\ g[k] = g[k - 1] \o r[k]
      BY <1>0, <1>1, <3>1
    <3>4. g[k] \in Seq(S)
      BY <3>2, <3>3, ConcatProperties
    <3> QED BY <2>2, <3>4
  <2> QED BY <2>3, <2>4
<1>3. CASE n = 1
  <2>1. FlattenSeq(q) = <<>>
    BY <1>0, <1>3 DEF FlattenSeq
  <2>2. FlattenSeq(r) = r[1] /\ r[1] \in Seq(S)
    BY <1>0, <1>1, <1>3
  <2> QED BY <1>3, <2>1, <2>2, ConcatEmptySeq
<1>4. CASE n # 1
  <2>1. PICK f : /\ f[1] = q[1] /\ \A k \in 2 .. n - 1 : f[k] = f[k - 1] \o q[k]
                 /\ FlattenSeq(q) = f[n - 1]
    <3>1. Len(q) \in Nat /\ Len(q) # 0
      BY <1>0, <1>4
    <3>2. PICK f : /\ f[1] = q[1] /\ \A k \in 2 .. Len(q) : f[k] = f[k - 1] \o q[k]
                   /\ FlattenSeq(q) = f[Len(q)]
      BY <3>1, FlattenSteps
    <3> QED BY <1>0, <3>2
  <2>2. \A k \in 1 .. n - 1 : f[k] = g[k]
    <3> DEFINE T == {k \in 1 .. n - 1 : f[k] # g[k]}
    <3>1. SUFFICES ASSUME T # {} PROVE FALSE
      OBVIOUS
    <3>2. PICK k \in T : \A j \in T : k <= j
      <4>1. T \in SUBSET Nat
        OBVIOUS
      <4> HIDE DEF T
      <4> QED BY <3>1, <4>1, LeastNumber
    <3>3. CASE k = 1
      BY <1>0, <1>1, <2>1, <3>2, <3>3
    <3>4. CASE k # 1
      <4>1. k \in 2 .. n - 1 /\ k - 1 \in 1 .. n - 1 /\ k - 1 < k /\ k \in 2 .. n
        BY <1>0, <3>2, <3>4
      <4>2. f[k - 1] = g[k - 1]
        BY <3>2, <4>1
      <4>3. f[k] = g[k]
        BY <1>0, <1>1, <2>1, <4>1, <4>2
      <4> QED BY <3>2, <4>3
    <3> QED BY <3>3, <3>4
  <2>3. n - 1 \in 1 .. n - 1 /\ n \in 2 .. n /\ n \in 1 .. n
    BY <1>0, <1>4
  <2>4. f[n - 1] = g[n - 1] /\ g[n] = g[n - 1] \o r[n] /\ g[n] \in Seq(S)
    BY <1>1, <1>2, <2>2, <2>3
  <2> QED BY <1>1, <2>1, <2>4
<1> QED BY <1>3, <1>4

LEMMA AnswersNone ==
  ASSUME NEW c, NEW h
  PROVE  AnswersTo(c, h, 0) = <<>>
<1>1. [i \in 1 .. 0 |-> AnswerTo(c, h[i])] = <<>>
  OBVIOUS
<1> QED BY <1>1 DEF AnswersTo, FlattenSeq

LEMMA AnswersNext ==
  ASSUME NEW c \in Seq(Asked), NEW h \in Seq(1 .. Len(c)), NEW n \in 1 .. Len(h)
  PROVE  AnswersTo(c, h, n) = AnswersTo(c, h, n - 1) \o AnswerTo(c, h[n]) /\ AnswersTo(c, h, n) \in Seq(Blob)
<1> DEFINE r == [i \in 1 .. n |-> AnswerTo(c, h[i])]
           q == [i \in 1 .. n - 1 |-> AnswerTo(c, h[i])]
<1>1. n \in Nat /\ n > 0 /\ n - 1 \in Nat
  OBVIOUS
<1>2. \A i \in 1 .. n : h[i] \in 1 .. Len(c)
  <2>1. \A i \in 1 .. n : i \in 1 .. Len(h)
    OBVIOUS
  <2> QED BY <2>1
<1>3. \A i \in 1 .. n : r[i] \in Seq(Blob)
  BY <1>2, AnswerMade
<1>4. Len(r) = n /\ Len(q) = n - 1 /\ (\A i \in 1 .. n - 1 : q[i] = r[i]) /\ r[n] = AnswerTo(c, h[n])
  BY <1>1
<1>5. q = <<>> \/ n # 1
  <2>1. n = 1 => 1 .. n - 1 = {}
    OBVIOUS
  <2> QED BY <2>1
<1>6. FlattenSeq(r) = AnswersTo(c, h, n) /\ FlattenSeq(q) = AnswersTo(c, h, n - 1)
  BY DEF AnswersTo
<1> HIDE DEF r, q
<1>7. FlattenSeq(r) = FlattenSeq(q) \o r[n] /\ FlattenSeq(r) \in Seq(Blob)
  <2>1. OneMore(Blob, q, r, n)
    BY <1>1, <1>3, <1>4, <1>5 DEF OneMore
  <2> QED BY <2>1, FlattenNext
<1> QED BY <1>4, <1>6, <1>7

LEMMA AnswersMade ==
  ASSUME NEW c \in Seq(Asked), NEW h \in Seq(1 .. Len(c)), NEW n \in 0 .. Len(h)
  PROVE  AnswersTo(c, h, n) \in Seq(Blob)
<1>1. CASE n = 0
  BY <1>1, AnswersNone, EmptySeq
<1>2. CASE n # 0
  <2>1. n \in 1 .. Len(h)
    BY <1>2
  <2> QED BY <2>1, AnswersNext
<1> QED BY <1>1, <1>2

\* One more request handled.
LEMMA AnswersMore ==
  ASSUME NEW c \in Seq(Asked), NEW h \in Seq(1 .. Len(c)), NEW k \in 1 .. Len(c)
  PROVE  /\ Append(h, k) \in Seq(1 .. Len(c)) /\ Len(Append(h, k)) = Len(h) + 1
         /\ Append(h, k)[Len(h) + 1] = k /\ \A i \in 1 .. Len(h) : Append(h, k)[i] = h[i]
         /\ AnswersTo(c, Append(h, k), Len(h)) = AnswersTo(c, h, Len(h))
         /\ AnswersTo(c, Append(h, k), Len(h) + 1) = AnswersTo(c, h, Len(h)) \o AnswerTo(c, k)
<1> DEFINE g == Append(h, k)
           n == Len(h)
<1>1. /\ g \in Seq(1 .. Len(c)) /\ Len(g) = n + 1 /\ g[n + 1] = k /\ \A i \in 1 .. n : g[i] = h[i]
      /\ n \in Nat
  BY AppendProperties
<1> HIDE DEF g, n
<1>2. [i \in 1 .. n |-> AnswerTo(c, g[i])] = [i \in 1 .. n |-> AnswerTo(c, h[i])]
  BY <1>1
<1>3. AnswersTo(c, g, n) = AnswersTo(c, h, n)
  BY <1>2 DEF AnswersTo
<1>4. n + 1 \in 1 .. Len(g) /\ (n + 1) - 1 = n
  BY <1>1
<1>5. AnswersTo(c, g, n + 1) = AnswersTo(c, g, n) \o AnswerTo(c, k)
  BY <1>1, <1>4, AnswersNext
<1> QED BY <1>1, <1>3, <1>5 DEF g, n

LEMMA PrefixGrows ==
  ASSUME NEW S, NEW s \in Seq(S), NEW t \in Seq(S), NEW u \in Seq(S), IsPrefix(s, t)
  PROVE  IsPrefix(s, t \o u)
<1> DEFINE n == Len(s)
           v == t \o u
<1>1. n \in Nat /\ Len(t) \in Nat /\ n <= Len(t) /\ SubSeq(s, 1, n) = SubSeq(t, 1, n)
  BY DEF IsPrefix
<1>2. v \in Seq(S) /\ Len(v) = Len(t) + Len(u) /\ Len(u) \in Nat
      /\ \A i \in 1 .. Len(t) : v[i] = t[i]
  <2>1. \A i \in 1 .. Len(t) : i \in 1 .. Len(t) + Len(u) /\ i <= Len(t)
    OBVIOUS
  <2> QED BY <2>1, ConcatProperties
<1> HIDE DEF v, n
<1>3. SubSeq(v, 1, n) = SubSeq(t, 1, n)
  <2>1. /\ SubSeq(v, 1, n) \in Seq(S) /\ Len(SubSeq(v, 1, n)) = n
        /\ \A i \in 1 .. n : SubSeq(v, 1, n)[i] = v[i]
    <3>1. \A i \in 1 .. n : v[i] \in S
      <4>1. \A i \in 1 .. n : i \in 1 .. Len(v)
        BY <1>1, <1>2
      <4> QED BY <1>2, <4>1
    <3> QED BY <1>1, <3>1, FirstPart
  <2>2. /\ SubSeq(t, 1, n) \in Seq(S) /\ Len(SubSeq(t, 1, n)) = n
        /\ \A i \in 1 .. n : SubSeq(t, 1, n)[i] = t[i]
    <3>1. \A i \in 1 .. n : t[i] \in S
      <4>1. \A i \in 1 .. n : i \in 1 .. Len(t)
        BY <1>1
      <4> QED BY <4>1
    <3> QED BY <1>1, <3>1, FirstPart
  <2>3. \A i \in 1 .. n : SubSeq(v, 1, n)[i] = SubSeq(t, 1, n)[i]
    <3>1. \A i \in 1 .. n : i \in 1 .. Len(t)
      BY <1>1
    <3> QED BY <1>2, <2>1, <2>2, <3>1
  <2> DEFINE a == SubSeq(v, 1, n)
             b == SubSeq(t, 1, n)
  <2> HIDE DEF a, b
  <2>4. a \in Seq(S) /\ b \in Seq(S) /\ Len(a) = n /\ Len(b) = n /\ \A i \in 1 .. n : a[i] = b[i]
    BY <2>1, <2>2, <2>3 DEF a, b
  <2>5. a = b
    BY <2>4, SeqEqual
  <2> QED BY <2>5 DEF a, b
<1>4. n <= Len(v)
  BY <1>1, <1>2
<1>5. SubSeq(s, 1, n) = SubSeq(v, 1, n)
  BY <1>1, <1>3
<1> QED BY <1>4, <1>5 DEF IsPrefix, n, v

LEMMA PrefixSelf ==
  ASSUME NEW S, NEW s \in Seq(S), NEW t \in Seq(S)
  PROVE  IsPrefix(s, s \o t)
<1>1. IsPrefix(s, s)
  BY DEF IsPrefix
<1> QED BY <1>1, PrefixGrows

-----------------------------------------------------------------------------
(* The steps handlers are made of.                                         *)

\* What sending leaves alone.
SameCall(s, t) ==
  /\ t.parser = s.parser /\ t.body = s.body /\ t.armed = s.armed /\ t.sends = s.sends
  /\ t.isClose = s.isClose /\ t.inCallback = s.inCallback /\ t.open = s.open /\ t.listed = s.listed
  /\ t.run = s.run /\ t.begin = s.begin /\ t.end = s.end /\ t.offset = s.offset /\ t.crashed = s.crashed

LEMMA TrySendRight ==
  ASSUME NEW c, NEW s \in ServerState(c), s.open, ~s.isClose, s.isSend <=> s.sending # <<>>, Len(s.sending) <= 1
  PROVE  /\ TrySend(s) \in ServerState(c) /\ SameCall(s, TrySend(s)) /\ Sendable(TrySend(s))
         /\ TrySend(s).sending \o TrySend(s).buffers = s.sending \o s.buffers
<1> DEFINE t == TrySend(s)
<1> SUFFICES t \in ServerState(c) /\ SameCall(s, t) /\ Sendable(t) /\ t.sending \o t.buffers = s.sending \o s.buffers
  OBVIOUS
<1>0. s.buffers \in Seq(Blob) /\ s.sending \in Seq(Blob)
  BY DEF ServerState
<1>1. CASE s.isSend \/ s.buffers = <<>>
  <2>1. t = s
    BY <1>1 DEF TrySend
  <2> HIDE DEF t
  <2> QED BY <1>1, <2>1 DEF SameCall, Sendable
<1>2. CASE ~s.isSend /\ s.buffers # <<>>
  <2> DEFINE b == s.buffers
             x == Head(b)
             r == Tail(b)
             u == [s EXCEPT !.isSend = TRUE, !.buffers = r]
  <2>1. b \in Seq(Blob) /\ x \in Blob /\ r \in Seq(Blob) /\ <<x>> \o r = b
    <3>1. b \in Seq(Blob) /\ b # <<>>
      BY <1>2 DEF ServerState
    <3> HIDE DEF b
    <3> QED BY <3>1, HeadTailConcat
  <2>2. s.sending = <<>>
    BY <1>2
  <2>3. t = AsyncSend(u, x)
    BY <1>2 DEF TrySend
  <2>4. u.open /\ u.sending = <<>>
    BY <2>2 DEF ServerState
  <2>5. t = [u EXCEPT !.sending = <<x>>]
    BY <2>3, <2>4 DEF AsyncSend
  <2> DEFINE y == <<x>>
  <2>6. y \in Seq(Blob) /\ Len(y) = 1 /\ Len(y) <= 1 /\ y # <<>>
    <3> HIDE DEF x
    <3> QED BY <2>1
  <2> HIDE DEF x, r, b, y
  <2>7. t = [s EXCEPT !.isSend = TRUE, !.buffers = r, !.sending = y]
    BY <2>5 DEF ServerState, y
  <2>8. t \in ServerState(c) /\ SameCall(s, t) /\ t.isSend /\ t.sending = y /\ t.buffers = r
    <3> HIDE DEF t
    <3> QED BY <2>1, <2>6, <2>7 DEF ServerState, SameCall
  <2> HIDE DEF t
  <2>9. t.sending \o t.buffers = s.sending \o s.buffers
    BY <1>0, <2>1, <2>2, <2>8, ConcatEmptySeq DEF b, y
  <2>10. Sendable(t)
    <3>1. t.sending # <<>> /\ Len(t.sending) <= 1
      <4>1. t.sending = y
        BY <2>8
      <4>2. y # <<>> /\ Len(y) <= 1
        BY <2>6
      <4> QED BY <4>1, <4>2
    <3> QED BY <2>8, <3>1 DEF Sendable
  <2> QED BY <2>8, <2>9, <2>10
<1>3. s.isSend \in BOOLEAN
  BY DEF ServerState
<1> HIDE DEF t
<1> QED BY <1>1, <1>2, <1>3

LEMMA DoneRight ==
  ASSUME NEW c, NEW s \in ServerState(c), s.open, ~s.isClose, Sendable(s), NEW k \in Nat
  PROVE  /\ Done(s, k) \in ServerState(c) /\ SameCall(s, Done(s, k)) /\ Sendable(Done(s, k))
         /\ Done(s, k).sending \o Done(s, k).buffers = (s.sending \o s.buffers) \o <<Item("answer", k)>>
<1> DEFINE x == Item("answer", k)
           b == Append(s.buffers, x)
           u == [s EXCEPT !.buffers = b]
<1>1. x \in Blob /\ s.buffers \in Seq(Blob) /\ s.sending \in Seq(Blob)
  BY DEF Blob, Item, ServerState
<1>2. Done(s, k) = TrySend(u)
  BY DEF Done
<1> HIDE DEF x
<1>3. b \in Seq(Blob)
  BY <1>1, AppendProperties
<1>4. s.sending \o b = (s.sending \o s.buffers) \o <<x>>
  <2> DEFINE p == s.sending
             q == s.buffers
  <2>1. p \in Seq(Blob) /\ q \in Seq(Blob) /\ x \in Blob
    BY <1>1
  <2> HIDE DEF p, q
  <2>2. p \o Append(q, x) = Append(p \o q, x) /\ p \o q \in Seq(Blob)
    BY <2>1, ConcatAppend
  <2>3. p \o Append(q, x) = (p \o q) \o <<x>>
    BY <2>1, <2>2, AppendIsConcat
  <2> QED BY <2>3 DEF p, q
<1> HIDE DEF b
<1>5. /\ u \in ServerState(c) /\ u.buffers = b /\ u.sending = s.sending /\ u.isSend = s.isSend /\ SameCall(s, u)
  BY <1>3 DEF ServerState, SameCall
<1> HIDE DEF u
<1>6. u.open /\ ~u.isClose /\ (u.isSend <=> u.sending # <<>>) /\ Len(u.sending) <= 1
  BY <1>5 DEF Sendable, SameCall
<1>7. /\ TrySend(u) \in ServerState(c) /\ SameCall(u, TrySend(u)) /\ Sendable(TrySend(u))
      /\ TrySend(u).sending \o TrySend(u).buffers = u.sending \o u.buffers
  BY <1>5, <1>6, TrySendRight
<1>8. SameCall(s, TrySend(u))
  BY <1>5, <1>7 DEF SameCall
<1> QED BY <1>2, <1>4, <1>5, <1>7, <1>8 DEF x

LEMMA EndRight ==
  ASSUME NEW c, NEW s \in ServerState(c), s.open, ~s.isClose, s.armed = "none"
  PROVE  LET t == EndHandler(s)
         IN /\ t \in ServerState(c) /\ t.parser = <<>> /\ t.armed = "request" /\ t.sends = "request" /\ t.run = "none"
            /\ ~t.isClose /\ ~t.inCallback /\ t.open /\ t.listed = s.listed /\ t.crashed = s.crashed
            /\ t.sending = s.sending /\ t.buffers = s.buffers /\ t.isSend = s.isSend
<1> DEFINE e == [s EXCEPT !.run = "none"]
           r == [e EXCEPT !.parser = <<>>, !.body = 0, !.isClose = FALSE, !.inCallback = FALSE]
           d == [r EXCEPT !.sends = "request"]
           t == [d EXCEPT !.armed = "request"]
<1>1. <<>> \in Seq(Piece(c))
  OBVIOUS
<1>2. e \in ServerState(c) /\ ~e.isClose /\ e.open /\ e.armed = "none" /\ e.listed = s.listed /\ e.crashed = s.crashed
      /\ e.sending = s.sending /\ e.buffers = s.buffers /\ e.isSend = s.isSend /\ e.run = "none"
  BY DEF ServerState
<1>3. EndHandler(s) = DoReceive(Reset(e))
  BY <1>2 DEF EndHandler
<1>4. Reset(e) = r
  BY DEF Reset
<1> HIDE DEF e
<1>5. r \in ServerState(c) /\ r.open /\ r.armed = "none" /\ r.listed = s.listed /\ r.crashed = s.crashed
      /\ r.sending = s.sending /\ r.buffers = s.buffers /\ r.isSend = s.isSend /\ r.run = "none"
      /\ r.parser = <<>> /\ ~r.isClose /\ ~r.inCallback
  BY <1>1, <1>2 DEF ServerState
<1> HIDE DEF r
<1>6. d \in ServerState(c) /\ d.open /\ d.armed = "none" /\ d.listed = s.listed /\ d.crashed = s.crashed
      /\ d.sending = s.sending /\ d.buffers = s.buffers /\ d.isSend = s.isSend /\ d.run = "none"
      /\ d.parser = <<>> /\ ~d.isClose /\ ~d.inCallback /\ d.sends = "request"
  BY <1>5 DEF ServerState
<1>7. DoReceive(r) = Arm(d, "request")
  BY DEF DoReceive
<1> HIDE DEF d
<1>8. Arm(d, "request") = t
  BY <1>6 DEF Arm
<1>9. t \in ServerState(c) /\ t.open /\ t.armed = "request" /\ t.listed = s.listed /\ t.crashed = s.crashed
      /\ t.sending = s.sending /\ t.buffers = s.buffers /\ t.isSend = s.isSend /\ t.run = "none"
      /\ t.parser = <<>> /\ ~t.isClose /\ ~t.inCallback /\ t.sends = "request"
  BY <1>6 DEF ServerState
<1> HIDE DEF t
<1>10. EndHandler(s) = t
  BY <1>3, <1>4, <1>7, <1>8
<1> QED BY <1>9, <1>10

\* A handler whose connection was closed meanwhile ends with it.
LEMMA EndClosed ==
  ASSUME NEW c, NEW s \in ServerState(c), s.isClose
  PROVE  EndHandler(s) \in ServerState(c) /\ ~EndHandler(s).listed /\ EndHandler(s).crashed = s.crashed
         /\ EndHandler(s).run = "none" /\ ~EndHandler(s).open
<1> DEFINE e == [s EXCEPT !.run = "none"]
           t == [e EXCEPT !.listed = FALSE, !.open = FALSE, !.armed = "none", !.sending = <<>>]
<1>1. <<>> \in Seq(Blob) /\ Len(<<>>) <= 1
  OBVIOUS
<1>2. e \in ServerState(c) /\ e.isClose /\ e.crashed = s.crashed /\ e.run = "none"
  BY DEF ServerState
<1>3. EndHandler(s) = t
  BY <1>2 DEF EndHandler, RemoveRequest
<1> HIDE DEF e
<1>4. t \in ServerState(c) /\ ~t.listed /\ t.crashed = s.crashed /\ t.run = "none" /\ ~t.open
  BY <1>1, <1>2 DEF ServerState
<1> QED BY <1>3, <1>4

LEMMA CloseRight ==
  ASSUME NEW c, NEW s \in ServerState(c)
  PROVE  LET t == Close(s)
         IN /\ t \in ServerState(c) /\ t.isClose /\ ~t.open /\ t.armed = "none" /\ t.crashed = s.crashed /\ t.run = s.run
            /\ t.inCallback = s.inCallback /\ t.sends = s.sends
            /\ s.inCallback => t.listed = s.listed /\ t.sending = s.sending
            /\ ~s.inCallback => ~t.listed
<1> DEFINE d == [s EXCEPT !.isClose = TRUE, !.open = FALSE, !.armed = "none"]
           t == [d EXCEPT !.listed = FALSE, !.open = FALSE, !.armed = "none", !.sending = <<>>]
<1>1. <<>> \in Seq(Blob) /\ Len(<<>>) <= 1
  OBVIOUS
<1>2. d \in ServerState(c) /\ d.isClose /\ ~d.open /\ d.armed = "none" /\ d.crashed = s.crashed /\ d.run = s.run
      /\ d.inCallback = s.inCallback /\ d.listed = s.listed /\ d.sending = s.sending /\ d.sends = s.sends
  BY DEF ServerState
<1>3. Close(s) = IF s.inCallback THEN d ELSE t
  BY DEF Close, RemoveRequest
<1> HIDE DEF d
<1>4. t \in ServerState(c) /\ ~t.listed /\ ~t.open /\ t.crashed = s.crashed /\ t.run = s.run /\ t.armed = "none" /\ t.isClose
      /\ t.inCallback = s.inCallback /\ t.sends = s.sends
  BY <1>1, <1>2 DEF ServerState
<1> HIDE DEF t
<1>5. s.inCallback \in BOOLEAN
  BY DEF ServerState
<1> QED BY <1>2, <1>3, <1>4, <1>5

\* Arming a connection that is open, or not, and sending on it.
ArmedBy(s, what, t) ==
  /\ t.sending = s.sending /\ t.buffers = s.buffers /\ t.isSend = s.isSend /\ t.parser = s.parser
  /\ t.body = s.body /\ t.sends = s.sends /\ t.isClose = s.isClose /\ t.inCallback = s.inCallback /\ t.open = s.open
  /\ t.listed = s.listed /\ t.run = s.run /\ t.begin = s.begin /\ t.end = s.end /\ t.offset = s.offset
  /\ s.open /\ s.armed = "none" => t.armed = what /\ t.crashed = s.crashed
  /\ ~(s.open /\ s.armed = "none") => t.armed = s.armed /\ t.crashed

LEMMA ArmRight ==
  ASSUME NEW c, NEW s \in ServerState(c), NEW what \in {"none", "request", "body"}
  PROVE  Arm(s, what) \in ServerState(c) /\ ArmedBy(s, what, Arm(s, what))
<1>1. CASE s.open /\ s.armed = "none"
  <2> DEFINE t == [s EXCEPT !.armed = what]
  <2>1. Arm(s, what) = t
    BY <1>1 DEF Arm
  <2> HIDE DEF t
  <2> QED BY <1>1, <2>1 DEF ServerState, ArmedBy, t
<1>2. CASE ~(s.open /\ s.armed = "none")
  <2> DEFINE t == [s EXCEPT !.crashed = TRUE]
  <2>1. Arm(s, what) = t
    BY <1>2 DEF Arm, Crash
  <2> HIDE DEF t
  <2> QED BY <1>2, <2>1 DEF ServerState, ArmedBy, t
<1> QED BY <1>1, <1>2

-----------------------------------------------------------------------------
(* What a handler leaves behind.                                           *)

\* The state s of a connection of the script c, to which w was sent and of
\* which h is handled.
Fine(c, s, w, h) ==
  /\ s \in ServerState(c) /\ ModeOK(s)
  /\ Lives(s) /\ s.open => (InRange(c) => FlowOK(c, s, w, h)) /\ EachTold(s, w, h)

\* Nothing is owed to the requests handled but what is about to be sent.
Settled(c, s, w, h) ==
  /\ InRange(c) => w \o s.sending \o s.buffers = AnswersTo(c, h, Len(h))
  /\ \A i \in 1 .. Len(h) : Item("answer", h[i]) \in ToSet(w) \cup ToSet(s.sending) \cup ToSet(s.buffers)

LEMMA EndFine ==
  ASSUME NEW c, NEW s \in ServerState(c), NEW w, NEW h,
         s.open, s.listed, ~s.isClose, s.armed = "none", Sendable(s), Settled(c, s, w, h)
  PROVE  /\ Fine(c, EndHandler(s), w, h) /\ EndHandler(s).run = "none"
         /\ EndHandler(s).listed = s.listed /\ EndHandler(s).crashed = s.crashed
<1> DEFINE t == EndHandler(s)
<1>1. /\ t \in ServerState(c) /\ t.parser = <<>> /\ t.armed = "request" /\ t.sends = "request" /\ t.run = "none"
      /\ ~t.isClose /\ ~t.inCallback /\ t.open /\ t.listed = s.listed /\ t.crashed = s.crashed
      /\ t.sending = s.sending /\ t.buffers = s.buffers /\ t.isSend = s.isSend
  BY EndRight
<1> HIDE DEF t
<1>2. ~HeadIn(t.parser)
  <2>1. Len(t.parser) = 0
    BY <1>1
  <2> QED BY <2>1 DEF HeadIn
<1>3. Between(t)
  BY <1>1, <1>2 DEF Between, Sendable
<1>4. ModeOK(t)
  BY <1>1, <1>3 DEF ModeOK
<1>5. InRange(c) => FlowOK(c, t, w, h)
  BY <1>1 DEF FlowOK, Settled
<1>6. EachTold(t, w, h)
  BY <1>1 DEF EachTold, Settled
<1> QED BY <1>1, <1>4, <1>5, <1>6 DEF Fine, t

\* An answer more, to be sent after the others.
LEMMA DoneSettled ==
  ASSUME NEW c \in Seq(Asked), NEW s \in ServerState(c), NEW w \in Seq(Blob), NEW h \in Seq(1 .. Len(c)),
         h # <<>>, s.open, ~s.isClose, Sendable(s),
         InRange(c) => c[h[Len(h)]].does # "download" /\ w \o s.sending \o s.buffers = AnswersTo(c, h, Len(h) - 1),
         \A i \in 1 .. Len(h) - 1 : Item("answer", h[i]) \in ToSet(w) \cup ToSet(s.sending) \cup ToSet(s.buffers)
  PROVE  LET t == Done(s, h[Len(h)])
         IN /\ t \in ServerState(c) /\ SameCall(s, t) /\ Sendable(t) /\ Settled(c, t, w, h)
<1> DEFINE n == Len(h)
           k == h[n]
           x == Item("answer", k)
           t == Done(s, k)
           p == s.sending
           q == s.buffers
           a == t.sending
           b == t.buffers
<1>1. n \in Nat /\ n # 0 /\ n \in 1 .. n
  BY EmptySeq
<1>2. k \in 1 .. Len(c) /\ k \in Nat
  BY <1>1
<1>3. x \in Blob /\ <<x>> \in Seq(Blob)
  BY <1>2, AnswerMade
<1>4. AnswersTo(c, h, n) = AnswersTo(c, h, n - 1) \o AnswerTo(c, k)
  BY <1>1, AnswersNext
<1>5. InRange(c) => AnswerTo(c, k) = <<x>>
  <2>1. InRange(c) => AnswerTo(c, k) = <<x>> \o <<>>
    BY DEF AnswerTo
  <2> HIDE DEF x, k
  <2> QED BY <1>3, <2>1, ConcatEmptySeq
<1>6. p \in Seq(Blob) /\ q \in Seq(Blob)
  BY DEF ServerState
<1>7. /\ t \in ServerState(c) /\ SameCall(s, t) /\ Sendable(t)
      /\ a \o b = (p \o q) \o <<x>>
  <2> HIDE DEF k
  <2> QED BY <1>2, DoneRight
<1>8. a \in Seq(Blob) /\ b \in Seq(Blob)
  BY <1>7 DEF ServerState
<1> HIDE DEF x, t, p, q, a, b
<1>9. w \o a \o b = (w \o p \o q) \o <<x>>
  <2>1. w \o a \o b = w \o (a \o b)
    BY <1>8, ConcatAssociative
  <2>2. p \o q \in Seq(Blob) /\ w \o p \o q = w \o (p \o q)
    BY <1>6, ConcatProperties, ConcatAssociative
  <2>3. w \o ((p \o q) \o <<x>>) = (w \o (p \o q)) \o <<x>>
    BY <1>3, <2>2, ConcatAssociative
  <2> QED BY <1>7, <2>1, <2>2, <2>3
<1>10. ToSet(a) \cup ToSet(b) = ToSet(p) \cup ToSet(q) \cup {x}
  <2>1. p \o q \in Seq(Blob)
    BY <1>6, ConcatProperties
  <2>2. ToSet(a \o b) = ToSet(a) \cup ToSet(b)
    BY <1>8, ToSetConcat
  <2>3. ToSet((p \o q) \o <<x>>) = ToSet(p \o q) \cup ToSet(<<x>>)
    <3> DEFINE u == p \o q
               v == <<x>>
    <3>1. u \in Seq(Blob) /\ v \in Seq(Blob)
      BY <1>3, <2>1
    <3> HIDE DEF u, v
    <3>2. ToSet(u \o v) = ToSet(u) \cup ToSet(v)
      BY <3>1, ToSetConcat
    <3> QED BY <3>2 DEF u, v
  <2>4. ToSet(p \o q) = ToSet(p) \cup ToSet(q)
    BY <1>6, ToSetConcat
  <2>5. ToSet(<<x>>) = {x}
    BY DEF ToSet
  <2> QED BY <1>7, <2>2, <2>3, <2>4, <2>5
<1>11. ASSUME NEW i \in 1 .. n PROVE Item("answer", h[i]) \in ToSet(w) \cup ToSet(a) \cup ToSet(b)
  <2>1. CASE i = n
    BY <1>10, <2>1 DEF x
  <2>2. CASE i # n
    <3>1. i \in 1 .. n - 1
      BY <1>1, <2>2
    <3>2. Item("answer", h[i]) \in ToSet(w) \cup ToSet(p) \cup ToSet(q)
      BY <3>1 DEF p, q
    <3> QED BY <1>10, <3>2
  <2> QED BY <2>1, <2>2
<1>12. InRange(c) => w \o a \o b = AnswersTo(c, h, n)
  <2>1. InRange(c) => w \o p \o q = AnswersTo(c, h, n - 1)
    BY DEF p, q
  <2> QED BY <1>4, <1>5, <1>9, <2>1
<1>13. Settled(c, t, w, h)
  BY <1>11, <1>12 DEF Settled, a, b
<1> QED BY <1>7, <1>13 DEF t

LEMMA InHandler ==
  ASSUME NEW c, NEW s \in ServerState(c)
  PROVE  LET t == [s EXCEPT !.inCallback = TRUE]
         IN /\ t \in ServerState(c) /\ t.inCallback /\ t.parser = s.parser /\ t.body = s.body /\ t.armed = s.armed
            /\ t.sends = s.sends /\ t.sending = s.sending /\ t.buffers = s.buffers /\ t.isSend = s.isSend
            /\ t.isClose = s.isClose /\ t.open = s.open /\ t.listed = s.listed /\ t.run = s.run /\ t.begin = s.begin
            /\ t.end = s.end /\ t.offset = s.offset /\ t.crashed = s.crashed
BY DEF ServerState

\* A handler starts: it answers, or waits, and what it owes is the last answer.
LEMMA HandleFine ==
  ASSUME script \in Seq(Asked), NEW s \in ServerState(script), NEW w \in Seq(Blob),
         NEW h \in Seq(1 .. Len(script)), NEW k \in 1 .. Len(script),
         Lives(s), s.open, ~s.isClose, s.armed = "none", s.sends = "request", Sendable(s),
         Settled(script, s, w, h), script[k].does # "upgrade"
  PROVE  /\ Fine(script, Handle(s, k), w, Append(h, k)) /\ Handle(s, k).listed
         /\ Handle(s, k).crashed => s.sending # <<>>
<1> DEFINE c == script
           g == Append(h, k)
           n == Len(g)
           v == [s EXCEPT !.inCallback = TRUE]
           t == Handle(s, k)
<1>1. /\ g \in Seq(1 .. Len(c)) /\ n \in Nat /\ n = Len(h) + 1 /\ g[n] = k /\ g # <<>>
      /\ \A i \in 1 .. n - 1 : g[i] = h[i]
      /\ AnswersTo(c, g, n - 1) = AnswersTo(c, h, Len(h))
  <2>1. /\ Append(h, k) \in Seq(1 .. Len(c)) /\ Len(Append(h, k)) = Len(h) + 1
        /\ Append(h, k)[Len(h) + 1] = k /\ \A i \in 1 .. Len(h) : Append(h, k)[i] = h[i]
        /\ AnswersTo(c, Append(h, k), Len(h)) = AnswersTo(c, h, Len(h))
    BY AnswersMore
  <2>2. Append(h, k) # <<>> /\ Len(h) \in Nat
    <3>1. Append(<<>>, k) # <<>> /\ Len(<<>>) = 0 /\ Len(h) \in Nat
      OBVIOUS
    <3>2. Len(Append(h, k)) # 0
      BY <2>1, <3>1
    <3> QED BY <3>1, <3>2
  <2>3. (Len(h) + 1) - 1 = Len(h)
    BY <2>2
  <2> QED BY <2>1, <2>2, <2>3
<1>2. /\ v \in ServerState(c) /\ v.inCallback /\ v.parser = s.parser /\ v.body = s.body /\ v.armed = s.armed
      /\ v.sends = s.sends /\ v.sending = s.sending /\ v.buffers = s.buffers /\ v.isSend = s.isSend
      /\ v.isClose = s.isClose /\ v.open = s.open /\ v.listed = s.listed /\ v.run = s.run /\ v.begin = s.begin
      /\ v.end = s.end /\ v.offset = s.offset /\ v.crashed = s.crashed
  BY InHandler
<1>3. script[k] \in Asked
  OBVIOUS
<1> HIDE DEF g, n
<1>4. /\ InRange(c) => w \o s.sending \o s.buffers = AnswersTo(c, g, n - 1)
      /\ \A i \in 1 .. n - 1 : Item("answer", g[i]) \in ToSet(w) \cup ToSet(s.sending) \cup ToSet(s.buffers)
  <2>1. n - 1 = Len(h)
    BY <1>1
  <2>2. /\ InRange(c) => w \o s.sending \o s.buffers = AnswersTo(c, h, Len(h))
        /\ \A i \in 1 .. Len(h) : Item("answer", h[i]) \in ToSet(w) \cup ToSet(s.sending) \cup ToSet(s.buffers)
    BY DEF Settled
  <2>3. ASSUME NEW i \in 1 .. n - 1
        PROVE  Item("answer", g[i]) \in ToSet(w) \cup ToSet(s.sending) \cup ToSet(s.buffers)
    <3>1. g[i] = h[i]
      BY <1>1
    <3>2. i \in 1 .. Len(h)
      BY <2>1
    <3> QED BY <2>2, <3>1, <3>2
  <2> QED BY <1>1, <2>2, <2>3
<1>5. v.open /\ ~v.isClose /\ v.armed = "none" /\ v.sends = "request" /\ Sendable(v) /\ v.listed /\ ~v.crashed
  BY <1>2 DEF Sendable, Lives
<1> SUFFICES Fine(c, t, w, g) /\ t.listed /\ (t.crashed => s.sending # <<>>)
  BY DEF g
<1>6. t = CASE script[k].does = "answers" -> EndHandler(Done(v, k))
            [] script[k].does = "later" -> [v EXCEPT !.run = "later"]
            [] script[k].does = "body" -> Body(v, k)
            [] script[k].does = "download" -> Download(v, k)
  BY DEF Handle
<1> HIDE DEF v, t
<1>7. ASSUME t = EndHandler(Done(v, k)), script[k].does # "download"
      PROVE  Fine(c, t, w, g) /\ t.listed /\ (t.crashed => s.sending # <<>>)
  <2> DEFINE d == Done(v, k)
  <2>1. /\ d \in ServerState(c) /\ SameCall(v, d) /\ Sendable(d) /\ Settled(c, d, w, g)
    <3>1. /\ InRange(c) => w \o v.sending \o v.buffers = AnswersTo(c, g, n - 1)
          /\ \A i \in 1 .. n - 1 : Item("answer", g[i]) \in ToSet(w) \cup ToSet(v.sending) \cup ToSet(v.buffers)
      BY <1>2, <1>4
    <3>2. Done(v, g[Len(g)]) = d /\ c[g[Len(g)]].does # "download"
      BY <1>1, <1>7 DEF n
    <3>3. LET u == Done(v, g[Len(g)])
          IN /\ u \in ServerState(c) /\ SameCall(v, u) /\ Sendable(u) /\ Settled(c, u, w, g)
      BY <1>1, <1>2, <1>5, <3>1, <3>2, DoneSettled DEF n
    <3> QED BY <3>2, <3>3
  <2> HIDE DEF d
  <2>2. d.open /\ ~d.isClose /\ d.armed = "none" /\ d.listed /\ ~d.crashed
    BY <1>5, <2>1 DEF SameCall
  <2>3. /\ Fine(c, EndHandler(d), w, g) /\ EndHandler(d).run = "none"
        /\ EndHandler(d).listed = d.listed /\ EndHandler(d).crashed = d.crashed
    BY <2>1, <2>2, EndFine
  <2> QED BY <1>7, <2>2, <2>3 DEF d
<1>8. CASE script[k].does = "answers"
  BY <1>6, <1>7, <1>8
\* A handler that waits.
<1>9. ASSUME t \in ServerState(c), Lives(t), Waiting(t) \/ Reading(t), t.open, ~t.isClose,
             t.sending = s.sending, t.buffers = s.buffers, script[k].does # "download"
      PROVE  Fine(c, t, w, g) /\ t.listed /\ (t.crashed => s.sending # <<>>)
  <2>1. t.run \in {"later", "body"}
    BY <1>9 DEF Waiting, Reading
  <2>2. ModeOK(t)
    BY <1>9 DEF ModeOK, Lives
  <2>3. InRange(c) => FlowOK(c, t, w, g)
    <3>1. n # 0 /\ Len(g) = n /\ g[n] = k
      BY <1>1 DEF n
    <3> QED BY <1>4, <1>9, <2>1, <3>1 DEF FlowOK
  <2>4. EachTold(t, w, g)
    <3>1. ASSUME NEW i \in 1 .. Len(g)
          PROVE  Item("answer", g[i]) \in ToSet(w) \cup ToSet(t.sending) \cup ToSet(t.buffers) \/ i = Len(g)
      <4>1. i \in 1 .. n - 1 \/ i = n
        BY <1>1, <3>1 DEF n
      <4> QED BY <1>4, <1>9, <4>1 DEF n
    <3> QED BY <2>1, <3>1 DEF EachTold
  <2> QED BY <1>9, <2>2, <2>3, <2>4 DEF Fine, Lives
<1>10. CASE script[k].does = "later"
  <2>1. t = [v EXCEPT !.run = "later"]
    BY <1>6, <1>10
  <2>2. t \in ServerState(c) /\ t.run = "later" /\ t.inCallback /\ t.armed = "none" /\ t.sends = "request" /\ t.open
        /\ ~t.isClose /\ t.listed /\ ~t.crashed /\ t.sending = s.sending /\ t.buffers = s.buffers /\ t.isSend = s.isSend
    BY <1>2, <1>5, <2>1 DEF ServerState
  <2>3. Waiting(t) /\ Lives(t)
    BY <2>2 DEF Waiting, Sendable, Lives
  <2> QED BY <1>9, <1>10, <2>2, <2>3
<1>11. CASE script[k].does = "body"
  <2>1. t = IF Len(v.parser) = ContentLength(k) THEN EndHandler(Done(v, k))
            ELSE Arm([v EXCEPT !.run = "body", !.body = Len(v.parser)], "body")
    BY <1>6, <1>11 DEF Body
  <2>2. CASE Len(v.parser) = ContentLength(k)
    BY <1>7, <1>11, <2>1, <2>2
  <2>3. CASE Len(v.parser) # ContentLength(k)
    <3> DEFINE m == Len(v.parser)
               u == [v EXCEPT !.run = "body", !.body = m]
    <3>1. t = Arm(u, "body")
      BY <2>1, <2>3
    <3>2. m \in Nat
      BY <1>2 DEF ServerState
    <3> HIDE DEF m
    <3>3. u \in ServerState(c) /\ u.run = "body" /\ u.inCallback /\ u.armed = "none" /\ u.sends = "request" /\ u.open
          /\ ~u.isClose /\ u.listed /\ ~u.crashed /\ u.sending = s.sending /\ u.buffers = s.buffers /\ u.isSend = s.isSend
      BY <1>2, <1>5, <3>2 DEF ServerState
    <3> HIDE DEF u
    <3>4. /\ t \in ServerState(c) /\ t.sending = u.sending /\ t.buffers = u.buffers /\ t.isSend = u.isSend
          /\ t.sends = u.sends /\ t.isClose = u.isClose /\ t.inCallback = u.inCallback /\ t.open = u.open
          /\ t.listed = u.listed /\ t.run = u.run /\ t.armed = "body" /\ t.crashed = u.crashed
      <4>1. Arm(u, "body") \in ServerState(c) /\ ArmedBy(u, "body", Arm(u, "body"))
        <5> HIDE DEF c
        <5>1. "body" \in {"none", "request", "body"} /\ u \in ServerState(c)
          BY <3>3
        <5> QED BY <5>1, ArmRight
      <4> QED BY <3>1, <3>3, <4>1 DEF ArmedBy
    <3>5. Reading(t) /\ Lives(t)
      BY <3>3, <3>4 DEF Reading, Sendable, Lives
    <3> QED BY <1>9, <1>11, <3>3, <3>4, <3>5
  <2> QED BY <2>2, <2>3
<1>12. CASE script[k].does = "download"
  <2> DEFINE r == script[k].range
             x == Item("answer", k)
             u == [v EXCEPT !.run = "download", !.sends = "download", !.begin = r[1], !.end = r[2], !.offset = r[1]]
  <2>1. t = AsyncSend(u, x)
    BY <1>6, <1>12 DEF Download
  <2>2. r[1] \in Nat /\ r[2] \in Nat
    BY <1>3 DEF Asked
  <2>3. u \in ServerState(c) /\ u.run = "download" /\ u.sends = "download" /\ u.inCallback /\ u.armed = "none" /\ u.open
        /\ ~u.isClose /\ u.listed /\ ~u.crashed /\ u.sending = s.sending /\ u.buffers = s.buffers /\ u.isSend = s.isSend
        /\ u.begin = r[1] /\ u.end = r[2] /\ u.offset = r[1]
    <3> HIDE DEF r
    <3> QED BY <1>2, <1>5, <2>2 DEF ServerState
  <2>4. x \in Blob /\ <<x>> \in Seq(Blob)
    BY AnswerMade
  <2>5. CASE s.sending # <<>>
    <3>1. t = [u EXCEPT !.crashed = TRUE]
      BY <2>1, <2>3, <2>5 DEF AsyncSend, Crash
    <3> HIDE DEF u
    <3>2. t \in ServerState(c) /\ t.listed /\ t.crashed
      BY <2>3, <3>1 DEF ServerState
    <3> QED BY <2>5, <3>2 DEF Fine, ModeOK, Lives
  <2>6. CASE s.sending = <<>>
    <3> DEFINE y == <<x>>
    <3>1. t = [u EXCEPT !.sending = y]
      BY <2>1, <2>3, <2>6 DEF AsyncSend
    <3>2. y \in Seq(Blob) /\ Len(y) <= 1 /\ y = <<x>>
      BY <2>4
    <3>3. s.buffers = <<>> /\ ~s.isSend
      BY <2>6 DEF Sendable
    <3> HIDE DEF u, y, r, x
    <3>4. t \in ServerState(c) /\ t.run = "download" /\ t.sends = "download" /\ t.inCallback /\ t.armed = "none" /\ t.open
          /\ ~t.isClose /\ t.listed /\ ~t.crashed /\ t.sending = y /\ t.buffers = <<>> /\ ~t.isSend
          /\ t.begin = r[1] /\ t.end = r[2] /\ t.offset = r[1]
      BY <2>3, <3>1, <3>2, <3>3 DEF ServerState
    <3>5. Loading(t)
      BY <3>2, <3>4 DEF Loading
    <3>6. ModeOK(t)
      BY <3>4, <3>5 DEF ModeOK
    <3>7. ASSUME InRange(c) PROVE FlowOK(c, t, w, g)
      <4>1. r[1] <= r[2]
        BY <3>7 DEF InRange, r
      <4>2. Blocks(r[1], r[1]) = <<>>
        <5>1. r[1] \in Int /\ r[1] <= r[1]
          BY <2>2
        <5> QED BY <2>2, <5>1, BlocksMade
      <4>3. y \o Blocks(r[1], r[1]) = y
        BY <3>2, <4>2, ConcatEmptySeq
      <4>4. w = AnswersTo(c, g, n - 1)
        <5>1. w \o <<>> \o <<>> = w
          BY ConcatEmptySeq
        <5> QED BY <1>4, <2>6, <3>3, <3>7, <5>1
      <4>5. n # 0 /\ Len(g) = n /\ g[n] = k /\ c[k].range = r
        BY <1>1 DEF n, r
      <4>6. w \o t.sending = AnswersTo(c, g, n - 1) \o (<<Item("answer", k)>> \o Blocks(r[1], t.offset))
        BY <3>2, <3>4, <4>3, <4>4 DEF x
      <4>7. t.offset <= t.end /\ r[1] <= t.offset
        BY <2>2, <3>4, <4>1
      <4>8. FlowOK(c, t, w, g) <=>
             /\ n # 0 /\ c[k].does = "download" /\ t.end = r[2]
             /\ r[1] <= t.offset /\ t.offset <= t.end /\ (t.offset <= FileSize \/ t.offset = r[1])
             /\ w \o t.sending = AnswersTo(c, g, n - 1) \o (<<Item("answer", k)>> \o Blocks(r[1], t.offset))
        BY <3>4, <4>5 DEF FlowOK
      <4> QED BY <1>12, <3>4, <4>5, <4>6, <4>7, <4>8
    <3>8. EachTold(t, w, g)
      <4>1. ASSUME NEW i \in 1 .. Len(g)
            PROVE  Item("answer", g[i]) \in ToSet(w) \cup ToSet(t.sending) \cup ToSet(t.buffers)
        <5>1. i \in 1 .. n - 1 \/ i = n
          BY <1>1, <4>1 DEF n
        <5>2. CASE i = n
          <6>1. x \in ToSet(y)
            BY <3>2 DEF ToSet
          <6> QED BY <1>1, <3>4, <5>2, <6>1 DEF x
        <5>3. CASE i \in 1 .. n - 1
          <6>1. ToSet(<<>>) = {}
            BY DEF ToSet
          <6> QED BY <1>4, <2>6, <3>3, <5>3, <6>1
        <5> QED BY <5>1, <5>2, <5>3
      <4> QED BY <4>1 DEF EachTold
    <3> QED BY <3>4, <3>6, <3>7, <3>8 DEF Fine
  <2> QED BY <2>5, <2>6
<1> QED BY <1>3, <1>8, <1>10, <1>11, <1>12 DEF Asked

-----------------------------------------------------------------------------
(* What is sent.                                                           *)

\* What was sent and is being sent is the beginning of the answers.
LEMMA PrefixOfFlow ==
  ASSUME NEW c \in Seq(Asked), NEW s \in ServerState(c), NEW w \in Seq(Blob), NEW h \in Seq(1 .. Len(c)),
         FlowOK(c, s, w, h)
  PROVE  IsPrefix(w \o s.sending, AnswersTo(c, h, Len(h)))
<1> DEFINE n == Len(h)
           p == s.sending
           q == s.buffers
           v == w \o p
           A(m) == AnswersTo(c, h, m)
<1>1. p \in Seq(Blob) /\ q \in Seq(Blob) /\ v \in Seq(Blob) /\ n \in Nat /\ n \in 0 .. n
  BY ConcatProperties DEF ServerState
<1>2. A(n) \in Seq(Blob)
  BY <1>1, AnswersMade
<1> SUFFICES IsPrefix(v, A(n))
  OBVIOUS
<1>3. CASE s.run = "none"
  <2>1. v \o q = A(n)
    BY <1>3 DEF FlowOK
  <2> HIDE DEF v, q, A
  <2>2. IsPrefix(v, v \o q)
    BY <1>1, PrefixSelf
  <2> QED BY <2>1, <2>2
<1>4. CASE s.run # "none" /\ n # 0
  <2> DEFINE k == h[n]
             y == AnswerTo(c, k)
  <2>1. n \in 1 .. n /\ n - 1 \in 0 .. n
    BY <1>1, <1>4
  <2>2. A(n) = A(n - 1) \o y /\ A(n - 1) \in Seq(Blob) /\ k \in 1 .. Len(c)
    <3>1. A(n) = A(n - 1) \o y
      BY <2>1, AnswersNext
    <3>2. A(n - 1) \in Seq(Blob)
      BY <2>1, AnswersMade
    <3>3. k \in 1 .. Len(c)
      BY <2>1
    <3> QED BY <3>1, <3>2, <3>3
  <2>3. y \in Seq(Blob) /\ <<Item("answer", k)>> \in Seq(Blob)
    BY <2>2, AnswerMade
  <2>4. CASE s.run \in {"later", "body"}
    <3>1. v \o q = A(n - 1)
      BY <2>4 DEF FlowOK
    <3> HIDE DEF v, q, A, y
    <3>2. IsPrefix(v, v \o q)
      BY <1>1, PrefixSelf
    <3>3. IsPrefix(v, A(n - 1))
      BY <3>1, <3>2
    <3>4. IsPrefix(v, A(n - 1) \o y)
      BY <1>1, <2>2, <2>3, <3>3, PrefixGrows
    <3> QED BY <2>2, <3>4
  <2>5. CASE s.run = "download"
    <3> DEFINE r == c[k].range
               b == r[1]
               f == FileEnd(r)
               o == s.offset
               x == <<Item("answer", k)>>
               d == A(n - 1)
    <3>1. /\ c[k].does = "download" /\ s.end = r[2] /\ b <= o /\ o <= r[2]
          /\ o <= FileSize \/ o = b
          /\ v = d \o (x \o Blocks(b, o))
      BY <2>5 DEF FlowOK
    <3>2. b \in Nat /\ r[2] \in Nat /\ o \in Nat /\ FileSize \in Nat
      <4>1. c[k] \in Asked
        BY <2>2
      <4> QED BY <4>1, ScriptsAssumption DEF Asked, ServerState
    <3>3. f \in Nat /\ (o <= f \/ o = b)
      BY <3>1, <3>2 DEF FileEnd
    <3>4. y = x \o Blocks(b, f)
      BY <3>1 DEF AnswerTo
    <3> HIDE DEF b, f, o, x, d, r, v, y, k
    <3>5. PICK z \in Seq(Blob) : Blocks(b, f) = Blocks(b, o) \o z
      BY <3>2, <3>3, BlocksFirst
    <3>6. Blocks(b, o) \in Seq(Blob)
      BY <3>2, BlocksMade
    <3> DEFINE g == Blocks(b, o)
    <3>7. x \in Seq(Blob) /\ g \in Seq(Blob) /\ d \in Seq(Blob) /\ x \o g \in Seq(Blob)
      BY <2>2, <2>3, <3>6, ConcatProperties DEF x, d
    <3> HIDE DEF g
    <3>8. y = (x \o g) \o z
      <4>1. (x \o g) \o z = x \o (g \o z)
        <5>1. x \in Seq(Blob) /\ g \in Seq(Blob) /\ z \in Seq(Blob)
          BY <3>7
        <5> QED BY <5>1, ConcatAssociative
      <4> QED BY <3>4, <3>5, <4>1 DEF g
    <3>9. d \o y = (d \o (x \o g)) \o z
      <4> DEFINE e == x \o g
      <4>1. e \in Seq(Blob)
        BY <3>7
      <4>2. y = e \o z
        BY <3>8
      <4> HIDE DEF e
      <4>3. (d \o e) \o z = d \o (e \o z)
        <5>1. d \in Seq(Blob) /\ e \in Seq(Blob) /\ z \in Seq(Blob)
          BY <3>7, <4>1
        <5> QED BY <5>1, ConcatAssociative
      <4> QED BY <4>2, <4>3 DEF e
    <3>10. A(n) = v \o z
      BY <2>2, <3>1, <3>9 DEF d, g
    <3>11. IsPrefix(v, v \o z)
      BY <1>1, PrefixSelf
    <3> HIDE DEF A
    <3> QED BY <3>10, <3>11
  <2>6. s.run \in {"later", "body", "download"}
    BY <1>4 DEF ServerState
  <2> QED BY <2>4, <2>5, <2>6
<1>5. s.run # "none" => n # 0
  <2>1. s.run \in {"none", "later", "body", "download"}
    BY DEF ServerState
  <2> QED BY <2>1 DEF FlowOK
<1> QED BY <1>3, <1>4, <1>5

\* The same answers, a part of which has been sent meanwhile.
LEMMA FlowMoves ==
  ASSUME NEW c, NEW s \in ServerState(c), NEW t \in ServerState(c), NEW w, NEW v, NEW h,
         Fine(c, s, w, h), Lives(s), s.open, s.sends = "request", SameCall(s, t), Sendable(t),
         v \o t.sending \o t.buffers = w \o s.sending \o s.buffers,
         ToSet(v) \cup ToSet(t.sending) \cup ToSet(t.buffers) = ToSet(w) \cup ToSet(s.sending) \cup ToSet(s.buffers)
  PROVE  Fine(c, t, v, h)
<1>1. (Between(s) \/ Waiting(s) \/ Reading(s)) /\ ~s.isClose /\ s.run # "download"
  BY DEF Fine, ModeOK, Loading, Between, Waiting, Reading
<1>2. Between(t) \/ Waiting(t) \/ Reading(t)
  <2>1. CASE Between(s)
    BY <2>1 DEF Between, SameCall
  <2>2. CASE Waiting(s)
    BY <2>2 DEF Waiting, SameCall
  <2>3. CASE Reading(s)
    BY <2>3 DEF Reading, SameCall
  <2> QED BY <1>1, <2>1, <2>2, <2>3
<1>3. ModeOK(t) /\ Lives(t) /\ t.open
  BY <1>1, <1>2 DEF ModeOK, Lives, SameCall
<1>4. InRange(c) => FlowOK(c, t, v, h)
  <2>1. InRange(c) => FlowOK(c, s, w, h)
    BY DEF Fine
  <2>2. t.run = s.run
    BY DEF SameCall
  <2>3. s.run \in {"none", "later", "body", "download"}
    BY DEF ServerState
  <2> QED BY <1>1, <2>1, <2>2, <2>3 DEF FlowOK
<1>5. EachTold(t, v, h)
  <2>1. EachTold(s, w, h) /\ t.run = s.run
    BY DEF Fine, SameCall
  <2> QED BY <2>1 DEF EachTold
<1> QED BY <1>3, <1>4, <1>5 DEF Fine

\* The send callback of do_receive.
LEMMA SendFine ==
  ASSUME NEW c, NEW s \in ServerState(c), NEW w \in Seq(Blob), NEW h,
         Fine(c, s, w, h), Lives(s), s.open, s.sends = "request"
  PROVE  LET t == SendCallbackOf([s EXCEPT !.sending = <<>>])
         IN Fine(c, t, w \o s.sending, h) /\ t.listed /\ ~t.crashed /\ t.run = s.run
<1> DEFINE p == s.sending
           q == s.buffers
           u == [[s EXCEPT !.sending = <<>>] EXCEPT !.isSend = FALSE]
           t == TrySend(u)
           v == w \o p
<1> SUFFICES Fine(c, t, v, h) /\ t.listed /\ ~t.crashed /\ t.run = s.run
  BY DEF SendCallbackOf
<1>1. p \in Seq(Blob) /\ q \in Seq(Blob) /\ v \in Seq(Blob) /\ <<>> \in Seq(Blob) /\ Len(<<>>) <= 1
  BY ConcatProperties DEF ServerState
<1>2. u \in ServerState(c) /\ SameCall(s, u) /\ u.sending = <<>> /\ u.buffers = q /\ ~u.isSend
  BY <1>1 DEF ServerState, SameCall
<1>3. ~s.isClose
  BY DEF Fine, ModeOK
<1> HIDE DEF u
<1>4. u.open /\ ~u.isClose /\ (u.isSend <=> u.sending # <<>>) /\ Len(u.sending) <= 1
  BY <1>2, <1>3 DEF SameCall
<1>5. /\ t \in ServerState(c) /\ SameCall(u, t) /\ Sendable(t)
      /\ t.sending \o t.buffers = u.sending \o u.buffers
  BY <1>2, <1>4, TrySendRight
<1> DEFINE a == t.sending
           b == t.buffers
<1>6. a \in Seq(Blob) /\ b \in Seq(Blob)
  BY <1>5 DEF ServerState
<1>7. a \o b = q
  BY <1>1, <1>2, <1>5, ConcatEmptySeq
<1>8. SameCall(s, t)
  BY <1>2, <1>5 DEF SameCall
<1> HIDE DEF t
<1>9. v \o a \o b = w \o p \o q
  <2> HIDE DEF a, b, v
  <2>1. v \o a \o b = v \o (a \o b)
    BY <1>1, <1>6, ConcatAssociative
  <2> QED BY <1>7, <2>1 DEF v
<1>10. ToSet(v) \cup ToSet(a) \cup ToSet(b) = ToSet(w) \cup ToSet(p) \cup ToSet(q)
  <2> HIDE DEF a, b, p, q
  <2>1. ToSet(w \o p) = ToSet(w) \cup ToSet(p)
    BY <1>1, ToSetConcat
  <2>2. ToSet(a \o b) = ToSet(a) \cup ToSet(b)
    BY <1>6, ToSetConcat
  <2> QED BY <1>7, <2>1, <2>2
<1>11. Fine(c, t, v, h)
  <2> HIDE DEF v
  <2> QED BY <1>5, <1>8, <1>9, <1>10, FlowMoves
<1> QED BY <1>8, <1>11 DEF SameCall, Lives

\* The send callback of the downloader: the handler ends after the last block of
\* the range; past the end of the file nothing more is sent.
LEMMA BlockFine ==
  ASSUME NEW c \in Seq(Asked), NEW s \in ServerState(c), NEW w \in Seq(Blob), NEW h \in Seq(1 .. Len(c)),
         h # <<>>, Fine(c, s, w, h), Lives(s), s.open, s.sends = "download"
  PROVE  LET t == SendBlock([s EXCEPT !.sending = <<>>])
         IN Fine(c, t, w \o s.sending, h) /\ t.listed /\ ~t.crashed /\ t.run \in {"none", "download"}
<1> DEFINE n == Len(h)
           k == h[n]
           r == c[k].range
           b == r[1]
           f == FileEnd(r)
           o == s.offset
           x == <<Item("answer", k)>>
           d == AnswersTo(c, h, n - 1)
           p == s.sending
           v == w \o p
           u == [s EXCEPT !.sending = <<>>]
           t == SendBlock(u)
<1> SUFFICES Fine(c, t, v, h) /\ t.listed /\ ~t.crashed /\ t.run \in {"none", "download"}
  OBVIOUS
<1>1. Loading(s) /\ ~s.isClose
  BY DEF Fine, ModeOK, Between, Waiting, Reading
<1>2. n \in Nat /\ n # 0 /\ n \in 1 .. n /\ n - 1 \in 0 .. n
  BY EmptySeq
<1>3. k \in 1 .. Len(c) /\ c[k] \in Asked
  BY <1>2
<1>4. b \in Nat /\ r[2] \in Nat /\ o \in Nat /\ FileSize \in Nat
  BY <1>3, ScriptsAssumption DEF Asked, ServerState
<1>5. p \in Seq(Blob) /\ v \in Seq(Blob) /\ <<>> \in Seq(Blob) /\ Len(<<>>) <= 1
  BY ConcatProperties DEF ServerState
<1>6. /\ u \in ServerState(c) /\ SameCall(s, u) /\ u.sending = <<>> /\ u.buffers = <<>> /\ ~u.isSend
      /\ u.begin = o /\ u.offset = o
  BY <1>1, <1>5 DEF ServerState, SameCall, Loading
<1>7. d \in Seq(Blob) /\ x \in Seq(Blob) /\ AnswersTo(c, h, n) = d \o AnswerTo(c, k)
  <2>1. AnswersTo(c, h, n) = d \o AnswerTo(c, k)
    BY <1>2, AnswersNext
  <2>2. d \in Seq(Blob)
    BY <1>2, AnswersMade
  <2>3. x \in Seq(Blob)
    BY <1>3, AnswerMade
  <2> QED BY <2>1, <2>2, <2>3
<1>8. ASSUME InRange(c)
      PROVE  /\ c[k].does = "download" /\ s.end = r[2] /\ b <= o /\ o <= r[2]
             /\ o <= FileSize \/ o = b
             /\ v = d \o (x \o Blocks(b, o))
  BY <1>1, <1>8 DEF Fine, FlowOK, Loading
<1>9. \A i \in 1 .. n : Item("answer", h[i]) \in ToSet(v)
  <2>1. EachTold(s, w, h) /\ s.buffers = <<>> /\ s.run = "download"
    BY <1>1 DEF Fine, Loading
  <2>2. ToSet(<<>>) = {}
    BY DEF ToSet
  <2>3. ToSet(w \o p) = ToSet(w) \cup ToSet(p)
    <3> HIDE DEF p
    <3> QED BY <1>5, ToSetConcat
  <2> QED BY <2>1, <2>2, <2>3 DEF EachTold
<1>10. u.open /\ ~u.isClose /\ u.armed = "none" /\ u.inCallback /\ u.listed /\ ~u.crashed /\ u.run = "download"
       /\ u.end = s.end /\ u.sends = "download"
  BY <1>1, <1>6 DEF SameCall, Loading, Lives
<1> HIDE DEF u, v, d, x, p
<1>11. CASE u.begin = u.end
  <2>1. t = EndHandler(u)
    BY <1>11 DEF SendBlock
  <2>2. Sendable(u)
    <3>1. Len(u.sending) = 0
      BY <1>6
    <3> QED BY <1>6, <3>1 DEF Sendable
  <2>3. ASSUME InRange(c) PROVE v \o u.sending \o u.buffers = AnswersTo(c, h, n)
    <3>1. o = r[2]
      BY <1>6, <1>8, <1>10, <1>11, <2>3
    <3>2. Blocks(b, o) = Blocks(b, f)
      <4>1. CASE r[2] < FileSize \/ r[2] = FileSize
        BY <1>4, <3>1, <4>1 DEF FileEnd
      <4>2. CASE r[2] > FileSize
        <5>1. o = b /\ f = FileSize /\ f <= b
          BY <1>4, <1>8, <2>3, <3>1, <4>2 DEF FileEnd
        <5>2. Blocks(b, o) = <<>>
          <6>1. b \in Int /\ b <= b
            BY <1>4
          <6>2. Blocks(b, b) = <<>>
            BY <1>4, <6>1, BlocksMade
          <6> QED BY <5>1, <6>2
        <5>3. Blocks(b, f) = <<>>
          <6>1. f \in Int
            BY <1>4, <5>1
          <6> QED BY <1>4, <5>1, <6>1, BlocksMade
        <5> QED BY <5>2, <5>3
      <4> QED BY <1>4, <4>1, <4>2
    <3>3. AnswerTo(c, k) = x \o Blocks(b, f)
      BY <1>8, <2>3 DEF AnswerTo, x
    <3>4. v = AnswersTo(c, h, n)
      BY <1>7, <1>8, <2>3, <3>2, <3>3
    <3>5. v \o <<>> = v
      BY <1>5, ConcatEmptySeq
    <3> QED BY <1>6, <3>4, <3>5
  <2>4. Settled(c, u, v, h)
    <3>1. \A i \in 1 .. n : Item("answer", h[i]) \in ToSet(v) \cup ToSet(u.sending) \cup ToSet(u.buffers)
      BY <1>9
    <3> QED BY <2>3, <3>1 DEF Settled
  <2>5. /\ Fine(c, EndHandler(u), v, h) /\ EndHandler(u).run = "none"
        /\ EndHandler(u).listed = u.listed /\ EndHandler(u).crashed = u.crashed
    BY <1>6, <1>10, <2>2, <2>4, EndFine
  <2> QED BY <1>10, <2>1, <2>5
<1>12. CASE u.begin # u.end /\ u.offset >= FileSize
  <2>1. t = u
    BY <1>12 DEF SendBlock
  <2>2. Loading(u)
    <3>1. Len(u.sending) = 0
      BY <1>6
    <3> QED BY <1>6, <1>10, <3>1 DEF Loading
  <2>3. ModeOK(u)
    BY <1>6, <1>10, <2>2 DEF ModeOK
  <2>4. ASSUME InRange(c) PROVE FlowOK(c, u, v, h)
    <3>1. v \o u.sending = v
      BY <1>5, <1>6, ConcatEmptySeq
    <3> QED BY <1>2, <1>6, <1>8, <1>10, <2>4, <3>1 DEF FlowOK, d, x
  <2>5. EachTold(u, v, h)
    BY <1>9 DEF EachTold
  <2> QED BY <1>6, <1>10, <2>1, <2>3, <2>4, <2>5 DEF Fine
<1>13. CASE u.begin # u.end /\ ~(u.offset >= FileSize)
  <2> DEFINE e == Item("block", o)
             y == <<e>>
             z == [u EXCEPT !.begin = @ + 1, !.offset = @ + 1]
             q == o + 1
  <2>1. t = AsyncSend(z, e)
    BY <1>6, <1>13 DEF SendBlock
  <2>2. z = [u EXCEPT !.begin = q, !.offset = q]
    BY <1>6
  <2>3. q \in Nat /\ e \in Blob /\ y \in Seq(Blob) /\ Len(y) = 1 /\ Len(y) <= 1
    BY <1>4 DEF Blob, Item
  <2> HIDE DEF q, e, y
  <2>4. z.open /\ z.sending = <<>>
    BY <1>6, <1>10 DEF ServerState
  <2>5. t = [z EXCEPT !.sending = y]
    BY <2>1, <2>4 DEF AsyncSend, y
  <2>6. t = [u EXCEPT !.begin = q, !.offset = q, !.sending = y]
    BY <1>6, <2>2, <2>5 DEF ServerState
  <2> HIDE DEF z, t
  <2>7. t \in ServerState(c) /\ t.run = "download" /\ t.sends = "download" /\ t.inCallback /\ t.armed = "none" /\ t.open
        /\ ~t.isClose /\ t.listed /\ ~t.crashed /\ t.sending = y /\ t.buffers = <<>> /\ ~t.isSend
        /\ t.begin = q /\ t.end = s.end /\ t.offset = q
    BY <1>6, <1>10, <2>3, <2>6 DEF ServerState
  <2>8. ModeOK(t)
    <3>1. Len(t.sending) <= 1
      <4>1. t.sending = y
        BY <2>7
      <4>2. Len(y) = 1 /\ Len(y) <= 1
        BY <2>3
      <4> QED BY <4>1, <4>2
    <3>2. Loading(t)
      BY <2>7, <3>1 DEF Loading
    <3> QED BY <2>7, <3>2 DEF ModeOK
  <2>9. ASSUME InRange(c) PROVE FlowOK(c, t, v, h)
    <3>1. b <= o /\ o <= r[2] /\ o # r[2] /\ o < FileSize
      BY <1>4, <1>6, <1>8, <1>10, <1>13, <2>9
    <3>2. b <= q /\ q <= s.end /\ q <= FileSize
      <4>1. s.end = r[2]
        BY <1>8, <2>9
      <4>2. \A b0, o0, r0, f0 \in Nat :
              b0 <= o0 /\ o0 <= r0 /\ o0 # r0 /\ o0 < f0 => b0 <= o0 + 1 /\ o0 + 1 <= r0 /\ o0 + 1 <= f0
        OBVIOUS
      <4> QED BY <1>4, <3>1, <4>1, <4>2 DEF q
    <3> DEFINE g == Blocks(b, o)
    <3>3. Blocks(b, q) = Append(g, e)
      BY <1>4, <3>1, BlocksNext DEF q, e
    <3>4. g \in Seq(Blob)
      <4>1. b \in Nat /\ o \in Int
        BY <1>4
      <4> QED BY <4>1, BlocksMade
    <3> HIDE DEF g
    <3>5. v \o y = d \o (x \o Blocks(b, q))
      <4>1. x \o g \in Seq(Blob) /\ x \o Append(g, e) = Append(x \o g, e)
        <5>1. x \in Seq(Blob) /\ g \in Seq(Blob) /\ e \in Blob
          BY <1>7, <2>3, <3>4
        <5> QED BY <5>1, ConcatAppend
      <4> DEFINE m == x \o g
      <4>2. m \in Seq(Blob)
        BY <4>1
      <4> HIDE DEF m
      <4>3. d \o m \in Seq(Blob) /\ d \o Append(m, e) = Append(d \o m, e)
        <5>1. d \in Seq(Blob) /\ m \in Seq(Blob) /\ e \in Blob
          BY <1>7, <2>3, <4>2
        <5> QED BY <5>1, ConcatAppend
      <4>4. v = d \o m
        BY <1>8, <2>9 DEF m, g
      <4>5. Append(v, e) = v \o y
        BY <1>5, <2>3, AppendIsConcat DEF y
      <4> QED BY <3>3, <4>1, <4>3, <4>4, <4>5 DEF m
    <3> QED BY <1>2, <1>8, <2>7, <2>9, <3>2, <3>5 DEF FlowOK, d, x
  <2>10. EachTold(t, v, h)
    BY <1>9 DEF EachTold
  <2> QED BY <2>7, <2>8, <2>9, <2>10 DEF Fine
<1> QED BY <1>11, <1>12, <1>13

-----------------------------------------------------------------------------
(* A connection that is lost, and a body that arrives.                     *)

LEMMA CloseFine ==
  ASSUME NEW c, NEW s \in ServerState(c), NEW w, NEW h,
         Fine(c, s, w, h), Lives(s), s.open, s.sends = "request"
  PROVE  LET t == Close([s EXCEPT !.sending = <<>>])
         IN t \in ServerState(c) /\ ModeOK(t) /\ ~t.open /\ ~t.crashed /\ t.run = s.run
<1> DEFINE u == [s EXCEPT !.sending = <<>>]
           t == Close(u)
<1> SUFFICES t \in ServerState(c) /\ ModeOK(t) /\ ~t.open /\ ~t.crashed /\ t.run = s.run
  OBVIOUS
<1>1. <<>> \in Seq(Blob) /\ Len(<<>>) <= 1
  OBVIOUS
<1>2. u \in ServerState(c) /\ SameCall(s, u) /\ u.sending = <<>>
  BY <1>1 DEF ServerState, SameCall
<1> HIDE DEF u
<1>3. /\ t \in ServerState(c) /\ t.isClose /\ ~t.open /\ t.armed = "none" /\ t.crashed = u.crashed /\ t.run = u.run
      /\ t.inCallback = u.inCallback /\ t.sends = u.sends
      /\ u.inCallback => t.listed = u.listed /\ t.sending = u.sending
      /\ ~u.inCallback => ~t.listed
  BY <1>2, CloseRight
<1> HIDE DEF t
<1>4. Between(s) \/ Waiting(s) \/ Reading(s)
  BY DEF Fine, ModeOK, Loading
<1>5. ModeOK(t)
  <2>1. CASE ~u.inCallback
    BY <1>3, <2>1 DEF ModeOK, Lives
  <2>2. CASE u.inCallback
    <3>1. s.inCallback /\ t.sending = <<>> /\ t.sends = "request" /\ t.inCallback
      BY <1>2, <1>3, <2>2 DEF SameCall
    <3>2. Waiting(s) \/ Reading(s)
      BY <1>4, <3>1 DEF Between
    <3>3. Waiting(t) \/ Reading(t)
      BY <1>2, <1>3, <3>1, <3>2 DEF Waiting, Reading, SameCall
    <3> QED BY <1>3, <3>1, <3>3 DEF ModeOK
  <2> QED BY <2>1, <2>2
<1> QED BY <1>2, <1>3, <1>5 DEF SameCall, Lives

\* A handler that ends on a connection that is armed ends the process.
LEMMA EndArmed ==
  ASSUME NEW c, NEW s \in ServerState(c), ~s.isClose, s.armed # "none"
  PROVE  EndHandler(s) \in ServerState(c) /\ EndHandler(s).crashed
<1> DEFINE e == [s EXCEPT !.run = "none"]
           r == [e EXCEPT !.parser = <<>>, !.body = 0, !.isClose = FALSE, !.inCallback = FALSE]
           d == [r EXCEPT !.sends = "request"]
<1>1. <<>> \in Seq(Piece(c))
  OBVIOUS
<1>2. e \in ServerState(c) /\ ~e.isClose /\ e.armed = s.armed
  BY DEF ServerState
<1>3. EndHandler(s) = DoReceive(Reset(e))
  BY <1>2 DEF EndHandler
<1>4. Reset(e) = r
  BY DEF Reset
<1> HIDE DEF e
<1>5. r \in ServerState(c) /\ r.armed = s.armed
  BY <1>1, <1>2 DEF ServerState
<1> HIDE DEF r
<1>6. d \in ServerState(c) /\ d.armed = s.armed
  BY <1>5 DEF ServerState
<1>7. DoReceive(r) = Arm(d, "request")
  BY DEF DoReceive
<1> HIDE DEF d
<1>8. Arm(d, "request") \in ServerState(c) /\ ArmedBy(d, "request", Arm(d, "request"))
  <2>1. "request" \in {"none", "request", "body"}
    OBVIOUS
  <2> QED BY <1>6, <2>1, ArmRight
<1> QED BY <1>3, <1>4, <1>6, <1>7, <1>8 DEF ArmedBy

\* The receive callback of body(): the process ends when the body is there, and
\* the handler waits for more of it otherwise.
LEMMA BodyFine ==
  ASSUME script \in Seq(Asked), NEW s \in ServerState(script), NEW w, NEW h,
         Fine(script, s, w, h), Lives(s), s.armed = "body", NEW n \in Nat, Current \in Nat
  PROVE  LET t == RecvBody([s EXCEPT !.armed = "none"], n)
         IN /\ t \in ServerState(script)
            /\ t.crashed \/ (Fine(script, t, w, h) /\ t.run = s.run /\ t.sending = s.sending)
<1> DEFINE c == script
           u == [s EXCEPT !.armed = "none"]
           m == s.body + n
           b == [u EXCEPT !.body = m]
           t == RecvBody(u, n)
           Right == t \in ServerState(c) /\ (t.crashed \/ (Fine(c, t, w, h) /\ t.run = s.run /\ t.sending = s.sending))
<1> SUFFICES Right
  OBVIOUS
<1>1. Reading(s) /\ s.open /\ ~s.isClose /\ s.listed /\ ~s.crashed
  BY DEF Fine, ModeOK, Between, Waiting, Reading, Loading, Lives
<1>2. m \in Nat
  BY DEF ServerState
<1>3. t = IF m = ContentLength(Current) THEN EndHandler(Done(DoReceive(b), Current)) ELSE Arm(b, "body")
  BY DEF RecvBody, ServerState
<1> HIDE DEF m, t
<1>4. /\ b \in ServerState(c) /\ b.armed = "none" /\ b.sending = s.sending /\ b.buffers = s.buffers /\ b.isSend = s.isSend
      /\ b.sends = s.sends /\ b.isClose = s.isClose /\ b.inCallback = s.inCallback /\ b.open = s.open
      /\ b.listed = s.listed /\ b.run = s.run /\ b.crashed = s.crashed
  BY <1>2 DEF ServerState
<1> HIDE DEF b
<1>5. CASE m = ContentLength(Current)
  <2> DEFINE d == DoReceive(b)
             e == Done(d, Current)
  <2>1. d \in ServerState(c) /\ d.armed = "request" /\ d.open /\ ~d.isClose /\ Sendable(d)
    <3> DEFINE a == [b EXCEPT !.sends = "request"]
    <3>1. /\ a \in ServerState(c) /\ a.armed = "none" /\ a.sending = s.sending /\ a.buffers = s.buffers
          /\ a.isSend = s.isSend /\ ~a.isClose /\ a.open
      BY <1>1, <1>4 DEF ServerState
    <3>2. d = Arm(a, "request")
      BY DEF DoReceive
    <3> HIDE DEF a, d
    <3>3. Arm(a, "request") \in ServerState(c) /\ ArmedBy(a, "request", Arm(a, "request"))
      <4>1. "request" \in {"none", "request", "body"}
        OBVIOUS
      <4> HIDE DEF c
      <4> QED BY <3>1, <4>1, ArmRight
    <3>4. Sendable(s)
      BY <1>1 DEF Reading
    <3> QED BY <3>1, <3>2, <3>3, <3>4 DEF ArmedBy, Sendable
  <2> HIDE DEF d
  <2>2. e \in ServerState(c) /\ SameCall(d, e)
    <3> HIDE DEF c
    <3> QED BY <2>1, DoneRight
  <2>3. ~e.isClose /\ e.armed # "none"
    BY <2>1, <2>2 DEF SameCall
  <2> HIDE DEF e
  <2>4. EndHandler(e) \in ServerState(c) /\ EndHandler(e).crashed
    <3> HIDE DEF c
    <3> QED BY <2>2, <2>3, EndArmed
  <2>5. t = EndHandler(e)
    BY <1>3, <1>5 DEF e, d
  <2>6. t \in ServerState(c) /\ t.crashed
    <3> DEFINE z == EndHandler(e)
    <3>1. z \in ServerState(c) /\ z.crashed /\ t = z
      BY <2>4, <2>5
    <3> HIDE DEF z, c
    <3> QED BY <3>1
  <2> QED BY <2>6
<1>6. CASE m # ContentLength(Current)
  <2>1. t = Arm(b, "body")
    BY <1>3, <1>6
  <2>2. Arm(b, "body") \in ServerState(c) /\ ArmedBy(b, "body", Arm(b, "body"))
    <3>1. "body" \in {"none", "request", "body"}
      OBVIOUS
    <3> HIDE DEF c
    <3> QED BY <1>4, <3>1, ArmRight
  <2>3. /\ t \in ServerState(c) /\ t.armed = "body" /\ t.sending = s.sending /\ t.buffers = s.buffers /\ t.isSend = s.isSend
        /\ t.sends = s.sends /\ t.isClose = s.isClose /\ t.inCallback = s.inCallback /\ t.open = s.open
        /\ t.listed = s.listed /\ t.run = s.run /\ t.crashed = s.crashed
    BY <1>1, <1>4, <2>1, <2>2 DEF ArmedBy
  <2>4. Reading(t)
    BY <1>1, <2>3 DEF Reading, Sendable
  <2>5. ModeOK(t)
    BY <1>1, <2>3, <2>4 DEF ModeOK
  <2>6. t.run = "body" /\ s.run = "body"
    BY <1>1, <2>3 DEF Reading
  <2>7. InRange(c) => FlowOK(c, t, w, h)
    <3>1. InRange(c) => FlowOK(c, s, w, h)
      BY <1>1 DEF Fine
    <3> QED BY <2>3, <2>6, <3>1 DEF FlowOK
  <2>8. EachTold(t, w, h)
    <3>1. EachTold(s, w, h)
      BY <1>1 DEF Fine
    <3> QED BY <2>3, <3>1 DEF EachTold
  <2> QED BY <2>3, <2>5, <2>7, <2>8 DEF Fine
<1> QED BY <1>5, <1>6

-----------------------------------------------------------------------------
(* A request that arrives.                                                 *)

LEMMA FirstHeadIs ==
  ASSUME NEW c, NEW s \in ServerState(c), Heads_(s) # {}
  PROVE  /\ FirstHead(s) \in 1 .. Len(s.parser) /\ s.parser[FirstHead(s)].what = "head"
         /\ \A j \in 1 .. Len(s.parser) : s.parser[j].what = "head" => FirstHead(s) <= j
<1>1. s.parser \in Seq(Piece(c)) /\ DOMAIN s.parser = 1 .. Len(s.parser)
  BY DEF ServerState
<1> DEFINE T == Heads_(s)
<1>2. T \in SUBSET Nat /\ \A i : i \in T <=> i \in 1 .. Len(s.parser) /\ s.parser[i].what = "head"
  BY <1>1 DEF Heads_
<1>3. FirstHead(s) = CHOOSE i \in T : \A j \in T : i <= j
  BY DEF FirstHead
<1> HIDE DEF T
<1>4. T # {}
  BY DEF T
<1>5. \E i \in T : \A j \in T : i <= j
  BY <1>2, <1>4, LeastNumber
<1>6. FirstHead(s) \in T /\ \A j \in T : FirstHead(s) <= j
  BY <1>3, <1>5
<1> QED BY <1>2, <1>6

\* What a connection between two requests, s, makes of what it received, got, which
\* is in p: it keeps it, or handles the first request of it.
Received(c, s, p, t, w, h, got) ==
  LET k == p.parser[FirstHead(p)].k
  IN /\ Heads_(p) = {} => Fine(c, t, w, h) /\ ~t.crashed /\ t.run = s.run /\ t.sending = s.sending
     /\ Heads_(p) # {} => /\ k \in 1 .. Len(c) /\ Fine(c, t, w, Append(h, k))
                          /\ t.crashed => s.sending # <<>>
     /\ Heads_(p) # {} => /\ \E j \in 1 .. Len(got) : got[j].what = "head"
                          /\ \A j \in 1 .. Len(got) :
                               (got[j].what = "head" /\ \A i \in 1 .. Len(got) : got[i].what = "head" => i = j)
                                  => k = got[j].k
     /\ Heads_(p) = {} => \A j \in 1 .. Len(got) : got[j].what # "head"

LEMMA RequestFine ==
  ASSUME script \in Seq(Asked), NEW s \in ServerState(script), NEW w \in Seq(Blob),
         NEW h \in Seq(1 .. Len(script)), NEW got \in Seq(Piece(script)),
         Fine(script, s, w, h), Lives(s), s.armed = "request"
  PROVE  LET p == [[s EXCEPT !.armed = "none"] EXCEPT !.parser = @ \o got]
         IN Received(script, s, p, RecvRequest(p), w, h, got)
<1> DEFINE c == script
           q == s.parser \o got
           p == [[s EXCEPT !.armed = "none"] EXCEPT !.parser = @ \o got]
           f == FirstHead(p)
           k == p.parser[f].k
           t == RecvRequest(p)
           m == Len(s.parser)
<1>1. Between(s) /\ ~s.isClose /\ s.listed /\ ~s.crashed
  <2>1. s.open \in BOOLEAN /\ s.listed /\ ~s.crashed
    BY DEF ServerState, Lives
  <2>2. Between(s) \/ Waiting(s) \/ Reading(s) \/ Loading(s)
    BY DEF Fine, ModeOK
  <2>3. Between(s)
    BY <2>1, <2>2 DEF Waiting, Reading, Loading
  <2> QED BY <2>1, <2>3 DEF Fine, ModeOK, Between
<1>2. s.parser \in Seq(Piece(c)) /\ q \in Seq(Piece(c)) /\ m \in Nat /\ Len(got) \in Nat /\ Len(q) = m + Len(got)
      /\ \A i \in 1 .. m + Len(got) : q[i] = IF i <= m THEN s.parser[i] ELSE got[i - m]
  BY ConcatProperties DEF ServerState
<1>3. p = [s EXCEPT !.armed = "none", !.parser = q]
  BY DEF ServerState
<1> HIDE DEF q
<1>4. /\ p \in ServerState(c) /\ p.parser = q /\ p.armed = "none" /\ p.sending = s.sending /\ p.buffers = s.buffers
      /\ p.isSend = s.isSend /\ p.sends = s.sends /\ p.isClose = s.isClose /\ p.inCallback = s.inCallback
      /\ p.open = s.open /\ p.listed = s.listed /\ p.run = s.run /\ p.crashed = s.crashed
  BY <1>2, <1>3 DEF ServerState
<1> HIDE DEF p, m
\* The heads of what was read are those of what was received.
<1>5. \A i \in 1 .. m + Len(got) : q[i].what = "head" => i > m /\ i - m \in 1 .. Len(got) /\ q[i] = got[i - m]
  <2>1. \A i \in 1 .. m : s.parser[i].what # "head"
    BY <1>1 DEF Between, HeadIn, m
  <2>2. ASSUME NEW i \in 1 .. m + Len(got), q[i].what = "head"
        PROVE  i > m /\ i - m \in 1 .. Len(got) /\ q[i] = got[i - m]
    <3>1. CASE i <= m
      <4>1. i \in 1 .. m
        BY <1>2, <3>1
      <4> QED BY <1>2, <2>1, <2>2, <3>1, <4>1
    <3>2. CASE ~(i <= m)
      <4>1. i > m /\ i - m \in 1 .. Len(got)
        BY <1>2, <3>2
      <4>2. q[i] = got[i - m]
        BY <1>2, <3>2
      <4> QED BY <4>1, <4>2
    <3> QED BY <3>1, <3>2
  <2> QED BY <2>2
<1>6. \A j \in 1 .. Len(got) : j + m \in 1 .. m + Len(got) /\ q[j + m] = got[j]
  <2>1. ASSUME NEW j \in 1 .. Len(got) PROVE j + m \in 1 .. m + Len(got) /\ q[j + m] = got[j]
    <3>1. j + m \in 1 .. m + Len(got) /\ ~(j + m <= m) /\ (j + m) - m = j
      BY <1>2
    <3> QED BY <1>2, <3>1
  <2> QED BY <2>1
<1>7. \A i : i \in Heads_(p) <=> i \in 1 .. m + Len(got) /\ q[i].what = "head"
  <2>1. DOMAIN q = 1 .. m + Len(got)
    BY <1>2
  <2> QED BY <1>4, <2>1 DEF Heads_
<1>8. ASSUME Heads_(p) = {}
      PROVE  /\ Fine(c, t, w, h) /\ ~t.crashed /\ t.run = s.run /\ t.sending = s.sending
             /\ \A j \in 1 .. Len(got) : got[j].what # "head"
  <2>1. t = Arm(p, "request")
    BY <1>8 DEF RecvRequest
  <2>2. Arm(p, "request") \in ServerState(c) /\ ArmedBy(p, "request", Arm(p, "request"))
    <3>1. "request" \in {"none", "request", "body"}
      OBVIOUS
    <3> HIDE DEF c
    <3> QED BY <1>4, <3>1, ArmRight
  <2> HIDE DEF t
  <2>3. /\ t \in ServerState(c) /\ t.armed = "request" /\ t.sending = s.sending /\ t.buffers = s.buffers /\ t.isSend = s.isSend
        /\ t.sends = s.sends /\ t.isClose = s.isClose /\ t.inCallback = s.inCallback /\ t.open = s.open
        /\ t.listed = s.listed /\ t.run = s.run /\ t.crashed = s.crashed /\ t.parser = q
    BY <1>1, <1>4, <2>1, <2>2 DEF ArmedBy, Between
  <2>4. ~HeadIn(t.parser)
    BY <1>2, <1>7, <1>8, <2>3 DEF HeadIn
  <2>5. Between(t)
    BY <1>1, <2>3, <2>4 DEF Between, Sendable
  <2>6. ModeOK(t)
    BY <1>1, <2>3, <2>5 DEF ModeOK, Between
  <2>7. t.run = "none" /\ s.run = "none" /\ s.open
    BY <1>1, <2>3 DEF Between
  <2>8. InRange(c) => FlowOK(c, t, w, h)
    <3>1. InRange(c) => FlowOK(c, s, w, h)
      BY <2>7 DEF Fine
    <3> QED BY <2>3, <2>7, <3>1 DEF FlowOK
  <2>9. EachTold(t, w, h)
    <3>1. EachTold(s, w, h)
      BY <2>7 DEF Fine
    <3> QED BY <2>3, <3>1 DEF EachTold
  <2>10. \A j \in 1 .. Len(got) : got[j].what # "head"
    BY <1>6, <1>7, <1>8
  <2> QED BY <1>1, <2>3, <2>6, <2>8, <2>9, <2>10 DEF Fine
<1>9. ASSUME Heads_(p) # {}
      PROVE  /\ f \in 1 .. m + Len(got) /\ q[f].what = "head" /\ f - m \in 1 .. Len(got) /\ q[f] = got[f - m]
             /\ k = q[f].k /\ k \in 1 .. Len(c) /\ \A j \in 1 .. m + Len(got) : q[j].what = "head" => f <= j
  <2>1. /\ f \in 1 .. Len(p.parser) /\ p.parser[f].what = "head"
        /\ \A j \in 1 .. Len(p.parser) : p.parser[j].what = "head" => f <= j
    <3> HIDE DEF c
    <3> QED BY <1>4, <1>9, FirstHeadIs
  <2>2. f \in 1 .. m + Len(got) /\ q[f].what = "head"
    BY <1>2, <1>4, <2>1
  <2>3. q[f] \in Piece(c)
    BY <1>2, <2>2
  <2>4. k = q[f].k /\ k \in 1 .. Len(c)
    BY <1>4, <2>3 DEF Piece
  <2> QED BY <1>2, <1>4, <1>5, <2>1, <2>2, <2>4
<1> HIDE DEF f
<1>10. ASSUME Heads_(p) # {} PROVE Fine(c, t, w, Append(h, k)) /\ (t.crashed => s.sending # <<>>)
  <2> DEFINE z == SubSeq(p.parser, f + 1, Len(p.parser))
             v == [p EXCEPT !.parser = z]
  <2>1. t = IF script[k].does = "upgrade" THEN Close(Done(v, k)) ELSE Handle(v, k)
    BY <1>4, <1>10 DEF RecvRequest, f, ServerState
  <2>2. z \in Seq(Piece(c))
    <3>1. f \in 0 .. Len(q)
      BY <1>2, <1>9, <1>10
    <3> DEFINE P == Piece(c)
    <3>2. q \in Seq(P)
      BY <1>2
    <3> HIDE DEF P
    <3>3. SubSeq(q, f + 1, Len(q)) \in Seq(P)
      BY <3>1, <3>2, SplitConcat
    <3> QED BY <1>4, <3>3 DEF P
  <2> HIDE DEF z
  <2>3. /\ v \in ServerState(c) /\ v.armed = "none" /\ v.sending = s.sending /\ v.buffers = s.buffers
        /\ v.isSend = s.isSend /\ v.sends = s.sends /\ v.isClose = s.isClose /\ v.inCallback = s.inCallback
        /\ v.open = s.open /\ v.listed = s.listed /\ v.run = s.run /\ v.crashed = s.crashed
    BY <1>4, <2>2 DEF ServerState
  <2> HIDE DEF v
  <2>4. Lives(v) /\ v.open /\ ~v.isClose /\ v.sends = "request" /\ Sendable(v) /\ ~v.inCallback
    BY <1>1, <2>3 DEF Lives, Between, Sendable
  <2>5. k \in 1 .. Len(c) /\ k \in Nat
    BY <1>9, <1>10
  <2> HIDE DEF k, t
  <2>6. CASE script[k].does = "upgrade"
    <3> DEFINE d == Done(v, k)
    <3>1. d \in ServerState(c) /\ SameCall(v, d)
      <4> HIDE DEF c
      <4> QED BY <2>3, <2>4, <2>5, DoneRight
    <3>2. ~d.inCallback /\ ~d.crashed
      BY <2>4, <3>1 DEF SameCall, Lives
    <3>3. t = Close(d)
      BY <2>1, <2>6
    <3> HIDE DEF d
    <3>4. Close(d) \in ServerState(c) /\ Close(d).crashed = d.crashed /\ ~Close(d).listed /\ ~Close(d).open
      <4> HIDE DEF c
      <4> QED BY <3>1, <3>2, CloseRight
    <3> QED BY <3>2, <3>3, <3>4 DEF Fine, ModeOK, Lives
  <2>7. CASE script[k].does # "upgrade"
    <3>1. Settled(c, v, w, h)
      <4>1. s.run = "none" /\ s.open
        BY <1>1 DEF Between
      <4>2. InRange(c) => w \o s.sending \o s.buffers = AnswersTo(c, h, Len(h))
        BY <4>1 DEF Fine, FlowOK
      <4>3. \A i \in 1 .. Len(h) : Item("answer", h[i]) \in ToSet(w) \cup ToSet(s.sending) \cup ToSet(s.buffers)
        BY <4>1 DEF Fine, EachTold
      <4> QED BY <2>3, <4>2, <4>3 DEF Settled
    <3>2. t = Handle(v, k)
      BY <2>1, <2>7
    <3>3. /\ Fine(script, Handle(v, k), w, Append(h, k)) /\ Handle(v, k).listed
          /\ Handle(v, k).crashed => v.sending # <<>>
      BY <2>3, <2>4, <2>5, <2>7, <3>1, HandleFine
    <3> QED BY <2>3, <3>2, <3>3
  <2> QED BY <2>6, <2>7
<1>11. ASSUME Heads_(p) # {}, NEW j \in 1 .. Len(got), got[j].what = "head",
              \A i \in 1 .. Len(got) : got[i].what = "head" => i = j
       PROVE  k = got[j].k
  <2>1. got[f - m].what = "head" /\ f - m \in 1 .. Len(got) /\ k = got[f - m].k
    BY <1>9, <1>11
  <2> QED BY <1>11, <2>1
<1>12. Heads_(p) # {} => \E j \in 1 .. Len(got) : got[j].what = "head"
  BY <1>9
<1> HIDE DEF t, k
<1> QED BY <1>8, <1>9, <1>10, <1>11, <1>12 DEF p, t, k, f, Received

-----------------------------------------------------------------------------
(* What the peer sends.                                                    *)

LEMMA SentMade ==
  ASSUME NEW c \in Seq(Asked), NEW k \in 1 .. Len(c)
  PROVE  /\ Sent(c, k) \in Seq(Piece(c)) /\ Len(Sent(c, k)) \in Nat /\ Len(Sent(c, k)) >= 1
         /\ Sent(c, k)[1] = Item("head", k)
         /\ \A i \in 2 .. Len(Sent(c, k)) : Sent(c, k)[i].what = "body"
<1> DEFINE P == Piece(c)
           m == c[k].body
           a == <<Item("head", k)>>
           b == [i \in 1 .. m |-> Item("body", k)]
           q == a \o b
<1>1. m \in Nat
  <2>1. c[k] \in Asked
    OBVIOUS
  <2> QED BY <2>1 DEF Asked
<1>2. Item("head", k) \in P /\ Item("body", k) \in P /\ Item("body", k).what = "body"
  BY DEF Piece, Item
<1>3. Sent(c, k) = q
  BY DEF Sent
<1> HIDE DEF P, m
<1>4. a \in Seq(P) /\ Len(a) = 1 /\ a[1] = Item("head", k)
  BY <1>2
<1>5. b \in Seq(P) /\ Len(b) = m /\ \A i \in 1 .. m : b[i] = Item("body", k)
  BY <1>1, <1>2
<1> HIDE DEF a, b
<1>6. /\ q \in Seq(P) /\ Len(q) = Len(a) + Len(b)
      /\ \A i \in 1 .. Len(a) + Len(b) : q[i] = IF i <= Len(a) THEN a[i] ELSE b[i - Len(a)]
  BY <1>4, <1>5, ConcatProperties
<1> HIDE DEF q
<1>7. /\ Len(q) = 1 + m
      /\ \A i \in 1 .. 1 + m : q[i] = IF i <= 1 THEN a[i] ELSE b[i - 1]
  BY <1>4, <1>5, <1>6
<1>8. ASSUME NEW i \in 2 .. Len(q) PROVE q[i].what = "body"
  <2>1. i \in 1 .. 1 + m /\ ~(i <= 1) /\ i - 1 \in 1 .. m
    BY <1>1, <1>7, <1>8
  <2> QED BY <1>2, <1>5, <1>7, <2>1
<1>9. q[1] = Item("head", k)
  <2>1. 1 \in 1 .. 1 + m
    BY <1>1
  <2> QED BY <1>4, <1>7, <2>1
<1>10. Len(q) \in Nat /\ Len(q) >= 1
  BY <1>1, <1>7
<1> QED BY <1>3, <1>6, <1>8, <1>9, <1>10 DEF P

\* The pieces q of the first k requests of c.
Whole(c, q, k) ==
  /\ q \in Seq(Piece(c)) /\ Len(q) >= 1
  /\ \A j \in 1 .. k : Item("head", j) \in ToSet(q)
  /\ \A i \in 1 .. Len(q) : q[i] = Item("head", 1) => i = 1

LEMMA WholeNext ==
  ASSUME NEW c \in Seq(Asked), NEW k \in 1 .. Len(c), k # 1, NEW q, Whole(c, q, k - 1)
  PROVE  Whole(c, q \o Sent(c, k), k)
<1> DEFINE P == Piece(c)
           t == Sent(c, k)
           r == q \o t
<1>1. /\ t \in Seq(P) /\ Len(t) \in Nat /\ Len(t) >= 1 /\ t[1] = Item("head", k)
      /\ \A i \in 2 .. Len(t) : t[i].what = "body"
  BY SentMade
<1>2. q \in Seq(P) /\ Len(q) \in Nat /\ Len(q) >= 1
      /\ (\A j \in 1 .. k - 1 : Item("head", j) \in ToSet(q))
      /\ \A i \in 1 .. Len(q) : q[i] = Item("head", 1) => i = 1
  <2>1. q \in Seq(P) /\ Len(q) >= 1
      /\ (\A j \in 1 .. k - 1 : Item("head", j) \in ToSet(q))
      /\ \A i \in 1 .. Len(q) : q[i] = Item("head", 1) => i = 1
    BY DEF Whole
  <2> HIDE DEF P
  <2> QED BY <2>1
<1> HIDE DEF P, t
<1>3. /\ r \in Seq(P) /\ Len(r) = Len(q) + Len(t)
      /\ \A i \in 1 .. Len(q) + Len(t) : r[i] = IF i <= Len(q) THEN q[i] ELSE t[i - Len(q)]
  BY <1>1, <1>2, ConcatProperties
<1>4. ToSet(r) = ToSet(q) \cup ToSet(t)
  BY <1>1, <1>2, ToSetConcat
<1> HIDE DEF r
<1>5. Item("head", k) \in ToSet(t)
  <2>1. 1 \in DOMAIN t
    BY <1>1
  <2> QED BY <1>1, <2>1 DEF ToSet
<1>6. ASSUME NEW j \in 1 .. k PROVE Item("head", j) \in ToSet(r)
  <2>1. j \in 1 .. k - 1 \/ j = k
    OBVIOUS
  <2> QED BY <1>2, <1>4, <1>5, <2>1
<1>7. ASSUME NEW i \in 1 .. Len(r), r[i] = Item("head", 1) PROVE i = 1
  <2>1. CASE i <= Len(q)
    <3>1. i \in 1 .. Len(q) /\ i \in 1 .. Len(q) + Len(t)
      BY <1>1, <1>2, <1>3, <2>1
    <3> QED BY <1>2, <1>3, <1>7, <2>1, <3>1
  <2>2. CASE ~(i <= Len(q))
    <3> DEFINE m == i - Len(q)
    <3>1. i \in 1 .. Len(q) + Len(t) /\ (m = 1 \/ m \in 2 .. Len(t))
      BY <1>1, <1>2, <1>3, <2>2
    <3>2. t[m] = Item("head", 1)
      BY <1>3, <1>7, <2>2, <3>1
    <3> HIDE DEF m
    <3>3. m # 1
      BY <1>1, <3>2 DEF Item
    <3>4. t[m].what = "body"
      BY <1>1, <3>1, <3>3
    <3> QED BY <3>2, <3>4 DEF Item
  <2> QED BY <1>1, <1>2, <2>1, <2>2
<1>8. Len(r) >= 1
  BY <1>1, <1>2, <1>3
<1> QED BY <1>3, <1>6, <1>7, <1>8 DEF Whole, P, r, t

LEMMA WholeFirst ==
  ASSUME NEW c \in Seq(Asked), 1 \in 1 .. Len(c)
  PROVE  Whole(c, Sent(c, 1), 1)
<1> DEFINE t == Sent(c, 1)
<1>1. /\ t \in Seq(Piece(c)) /\ Len(t) \in Nat /\ Len(t) >= 1 /\ t[1] = Item("head", 1)
      /\ \A i \in 2 .. Len(t) : t[i].what = "body"
  BY SentMade
<1> HIDE DEF t
<1>2. Item("head", 1) \in ToSet(t)
  <2>1. 1 \in DOMAIN t
    BY <1>1
  <2> QED BY <1>1, <2>1 DEF ToSet
<1>3. ASSUME NEW i \in 1 .. Len(t), t[i] = Item("head", 1) PROVE i = 1
  <2>1. i = 1 \/ i \in 2 .. Len(t)
    BY <1>1
  <2>2. i \in 2 .. Len(t) => t[i].what = "body"
    BY <1>1
  <2> QED BY <1>3, <2>1, <2>2 DEF Item
<1>4. \A j \in 1 .. 1 : Item("head", j) \in ToSet(t)
  BY <1>2
<1> QED BY <1>1, <1>3, <1>4 DEF Whole, t

LEMMA ScriptOnce ==
  ASSUME NEW c \in Seq(Asked)
  PROVE  /\ WholeScript(c) \in Seq(Piece(c))
         /\ \A k \in 1 .. Len(c) : Item("head", k) \in ToSet(WholeScript(c))
         /\ \A i \in 1 .. Len(WholeScript(c)) : WholeScript(c)[i] = Item("head", 1) => i = 1
<1> DEFINE n == Len(c)
           r == [k \in DOMAIN c |-> Sent(c, k)]
<1>1. WholeScript(c) = FlattenSeq(r) /\ n \in Nat /\ DOMAIN c = 1 .. n
  BY DEF WholeScript
<1>2. Len(r) = n /\ \A k \in 1 .. n : r[k] = Sent(c, k)
  BY <1>1
<1>3. CASE n = 0
  <2>1. WholeScript(c) = <<>>
    <3>1. Len(r) = 0 /\ r = <<>>
      BY <1>1, <1>2, <1>3
    <3> QED BY <1>1, <3>1 DEF FlattenSeq
  <2>2. <<>> \in Seq(Piece(c)) /\ 1 .. Len(<<>>) = {} /\ 1 .. n = {}
    BY <1>3
  <2> QED BY <2>1, <2>2
<1>4. CASE n # 0
  <2> HIDE DEF r
  <2>1. PICK g : /\ g[1] = r[1] /\ \A k \in 2 .. n : g[k] = g[k - 1] \o r[k]
                 /\ FlattenSeq(r) = g[n]
    <3>1. Len(r) \in Nat /\ Len(r) # 0
      BY <1>1, <1>2, <1>4
    <3>2. PICK g : /\ g[1] = r[1] /\ \A k \in 2 .. Len(r) : g[k] = g[k - 1] \o r[k]
                   /\ FlattenSeq(r) = g[Len(r)]
      BY <3>1, FlattenSteps
    <3> QED BY <1>2, <3>2
  <2> DEFINE T == {k \in 1 .. n : ~Whole(c, g[k], k)}
  <2>2. T = {}
    <3>1. SUFFICES ASSUME T # {} PROVE FALSE
      OBVIOUS
    <3>2. PICK k \in T : \A j \in T : k <= j
      <4>1. T \in SUBSET Nat
        BY <1>1
      <4> HIDE DEF T
      <4> QED BY <3>1, <4>1, LeastNumber
    <3>3. k \in 1 .. n /\ ~Whole(c, g[k], k)
      BY <3>2
    <3>4. CASE k = 1
      <4>1. Whole(c, Sent(c, 1), 1)
        <5>1. 1 \in 1 .. Len(c)
          BY <3>3, <3>4
        <5> QED BY <5>1, WholeFirst
      <4>2. g[1] = Sent(c, 1)
        BY <1>2, <2>1, <3>3, <3>4
      <4> QED BY <3>3, <3>4, <4>1, <4>2
    <3>5. CASE k # 1
      <4>1. k - 1 \in 1 .. n /\ k \in 2 .. n /\ k - 1 < k
        BY <1>1, <3>3, <3>5
      <4>2. Whole(c, g[k - 1], k - 1)
        <5>1. k - 1 \notin T
          BY <3>2, <3>3, <4>1
        <5> QED BY <4>1, <5>1
      <4>3. g[k] = g[k - 1] \o Sent(c, k)
        BY <1>2, <2>1, <3>3, <4>1
      <4>4. Whole(c, g[k - 1] \o Sent(c, k), k)
        <5> DEFINE q == g[k - 1]
        <5>1. Whole(c, q, k - 1)
          BY <4>2
        <5> HIDE DEF q
        <5>2. Whole(c, q \o Sent(c, k), k)
          BY <3>3, <3>5, <5>1, WholeNext
        <5> QED BY <5>2 DEF q
      <4> QED BY <3>3, <4>3, <4>4
    <3> QED BY <3>4, <3>5
  <2>3. Whole(c, g[n], n)
    <3>1. n \in 1 .. n
      BY <1>1, <1>4
    <3> QED BY <2>2, <3>1
  <2>4. WholeScript(c) = g[n]
    BY <1>1, <2>1
  <2>5. Whole(c, WholeScript(c), n)
    BY <2>3, <2>4
  <2> QED BY <2>5 DEF Whole
<1> QED BY <1>3, <1>4

\* The first of a sequence and the others.
LEMMA HeadApart ==
  ASSUME NEW S, NEW q \in Seq(S), q # <<>>
  PROVE  /\ Head(q) \in S /\ Tail(q) \in Seq(S) /\ ToSet(q) = {Head(q)} \cup ToSet(Tail(q))
         /\ \A x \in ToSet(Tail(q)) : \E i \in 1 .. Len(q) : i # 1 /\ q[i] = x
<1> DEFINE x == Head(q)
           r == Tail(q)
           a == <<x>>
<1>1. x \in S /\ r \in Seq(S) /\ a \o r = q
  BY HeadTailConcat
<1>2. Len(r) = Len(q) - 1 /\ Len(q) \in Nat /\ \A i \in 1 .. Len(r) : r[i] = q[i + 1]
  BY HeadTailProperties, EmptySeq
<1> HIDE DEF x, r
<1>3. a \in Seq(S) /\ ToSet(a) = {x}
  BY <1>1 DEF ToSet
<1> HIDE DEF a
<1>4. ToSet(q) = ToSet(a) \cup ToSet(r)
  <2>1. ToSet(a \o r) = ToSet(a) \cup ToSet(r)
    <3>1. a \in Seq(S) /\ r \in Seq(S)
      BY <1>1, <1>3
    <3> QED BY <3>1, ToSetConcat
  <2> QED BY <1>1, <2>1
<1>5. ASSUME NEW y \in ToSet(r) PROVE \E i \in 1 .. Len(q) : i # 1 /\ q[i] = y
  <2>1. DOMAIN r = 1 .. Len(r)
    BY <1>1
  <2>2. PICK j \in 1 .. Len(r) : y = r[j]
    BY <1>5, <2>1 DEF ToSet
  <2>3. j + 1 \in 1 .. Len(q) /\ j + 1 # 1 /\ q[j + 1] = y
    BY <1>2, <2>2
  <2> QED BY <2>3
<1> QED BY <1>1, <1>3, <1>4, <1>5 DEF x, r

\* One more at the end of a sequence.
LEMMA LastApart ==
  ASSUME NEW S, NEW q \in Seq(S), NEW x \in S
  PROVE  /\ Append(q, x) \in Seq(S) /\ ToSet(Append(q, x)) = ToSet(q) \cup {x}
         /\ Len(Append(q, x)) = Len(q) + 1 /\ Append(q, x)[Len(q) + 1] = x
         /\ \A i \in 1 .. Len(q) : Append(q, x)[i] = q[i]
<1> DEFINE a == <<x>>
<1>1. a \in Seq(S) /\ ToSet(a) = {x}
  BY DEF ToSet
<1>2. Append(q, x) = q \o a
  BY AppendIsConcat
<1> HIDE DEF a
<1>3. ToSet(q \o a) = ToSet(q) \cup ToSet(a)
  BY <1>1, ToSetConcat
<1>4. /\ Append(q, x) \in Seq(S)
      /\ Len(Append(q, x)) = Len(q) + 1 /\ Append(q, x)[Len(q) + 1] = x
      /\ \A i \in 1 .. Len(q) : Append(q, x)[i] = q[i]
  BY AppendProperties
<1> QED BY <1>1, <1>2, <1>3, <1>4

-----------------------------------------------------------------------------
(* The steps.                                                              *)

LEMMA ScriptTyped ==
  ASSUME ServerInv
  PROVE  /\ script \in Seq(Asked) /\ srv \in ServerState(script) /\ wire \in Seq(Blob) /\ handled \in Seq(1 .. Len(script))
         /\ inbox \in Seq(Piece(script)) /\ outgoing \in Seq(Piece(script)) /\ peerGone \in BOOLEAN
         /\ habits \in [pipelined : BOOLEAN, waited : BOOLEAN, misread : BOOLEAN]
         /\ Lives(srv) => Fine(script, srv, wire, handled)
BY ScriptsAssumption DEF ServerInv, ServerTyped, Fine, AnswersOK, Lives

LEMMA PeerSendsStep ==
  ASSUME ServerInv, PeerSends
  PROVE  ServerInv'
<1> DEFINE x == Head(outgoing)
           out == Tail(outgoing)
           in == Append(inbox, x)
<1>1. /\ script \in Seq(Asked) /\ inbox \in Seq(Piece(script)) /\ outgoing \in Seq(Piece(script)) /\ outgoing # <<>>
      /\ habits \in [pipelined : BOOLEAN, waited : BOOLEAN, misread : BOOLEAN]
  BY ScriptTyped DEF PeerSends
<1>2. /\ x \in Piece(script) /\ out \in Seq(Piece(script)) /\ ToSet(outgoing) = {x} \cup ToSet(out)
      /\ \A y \in ToSet(out) : \E i \in 1 .. Len(outgoing) : i # 1 /\ outgoing[i] = y
  BY <1>1, HeadApart
<1>3. /\ in \in Seq(Piece(script)) /\ ToSet(in) = ToSet(inbox) \cup {x}
      /\ Len(in) = Len(inbox) + 1 /\ in[Len(inbox) + 1] = x
      /\ \A i \in 1 .. Len(inbox) : in[i] = inbox[i]
  <2> HIDE DEF x
  <2> QED BY <1>1, <1>2, LastApart
<1> DEFINE late == x.what = "head" /\ x.k > 1
                   /\ (inbox # <<>> \/ srv.run # "none" \/ srv.sending # <<>> \/ Len(handled) < x.k - 1)
           hab == [habits EXCEPT !.pipelined = @ \/ late]
<1>4. /\ hab \in [pipelined : BOOLEAN, waited : BOOLEAN, misread : BOOLEAN]
      /\ hab.waited = habits.waited /\ hab.misread = habits.misread
      /\ hab.pipelined <=> habits.pipelined \/ late
  BY <1>1
<1>5. /\ script' = script /\ outgoing' = out /\ inbox' = in /\ peerGone' = peerGone /\ srv' = srv /\ wire' = wire
      /\ handled' = handled /\ habits' = hab
  BY DEF PeerSends
<1>6. FirstSent(script, out, in, srv, handled)
  <2>1. Item("head", 1) \notin ToSet(out)
    <3>1. CASE Item("head", 1) \notin ToSet(outgoing)
      BY <1>2, <3>1
    <3>2. CASE outgoing = WholeScript(script)
      <4>1. \A i \in 1 .. Len(outgoing) : outgoing[i] = Item("head", 1) => i = 1
        BY <1>1, <3>2, ScriptOnce
      <4> HIDE DEF out
      <4> QED BY <1>2, <4>1
    <3> QED BY <3>1, <3>2 DEF ServerInv, FirstSent
  <2> QED BY <2>1 DEF FirstSent
<1>7. InTurn(script, out, in, srv, handled, hab)
  <2>1. SUFFICES ASSUME ~hab.pipelined, Lives(srv)
                 PROVE  /\ \A i \in 1 .. Len(in) : in[i].what = "head" => i = 1 /\ srv.run = "none" /\ srv.sending = <<>>
                        /\ \A k \in 1 .. Len(script) :
                             Item("head", k) \in ToSet(out) \cup ToSet(in) \/ k \in ToSet(handled)
    BY DEF InTurn
  <2>2. ~habits.pipelined /\ ~late
    BY <1>4, <2>1
  <2>3. /\ \A i \in 1 .. Len(inbox) : inbox[i].what = "head" => i = 1 /\ srv.run = "none" /\ srv.sending = <<>>
        /\ \A k \in 1 .. Len(script) :
             Item("head", k) \in ToSet(outgoing) \cup ToSet(inbox) \/ k \in ToSet(handled)
    BY <2>1, <2>2 DEF ServerInv, InTurn
  <2>4. ASSUME x.what = "head" PROVE inbox = <<>> /\ srv.run = "none" /\ srv.sending = <<>>
    <3>1. CASE x.k = 1
      <4>1. x = Item("head", 1)
        BY <1>2, <2>4, <3>1 DEF Item, Piece
      <4>2. Item("head", 1) \in ToSet(outgoing)
        BY <1>2, <4>1
      <4> QED BY <2>1, <4>2 DEF ServerInv, FirstSent
    <3>2. CASE x.k # 1
      <4>1. x.k \in 1 .. Len(script)
        BY <1>2 DEF Piece
      <4>2. x.k > 1
        <5> DEFINE m == x.k
        <5>1. m \in 1 .. Len(script) /\ m # 1
          BY <3>2, <4>1
        <5> HIDE DEF m
        <5>2. m > 1
          BY <1>1, <5>1
        <5> QED BY <5>2 DEF m
      <4> QED BY <2>2, <2>4, <4>2
    <3> QED BY <3>1, <3>2
  <2> HIDE DEF x, in, out
  <2>5. ASSUME NEW i \in 1 .. Len(in), in[i].what = "head" PROVE i = 1 /\ srv.run = "none" /\ srv.sending = <<>>
    <3>1. i \in 1 .. Len(inbox) \/ i = Len(inbox) + 1
      BY <1>1, <1>3
    <3>2. CASE i \in 1 .. Len(inbox)
      BY <1>3, <2>3, <2>5, <3>2
    <3>3. CASE i = Len(inbox) + 1
      <4>1. inbox = <<>> /\ srv.run = "none" /\ srv.sending = <<>>
        BY <1>3, <2>4, <2>5, <3>3
      <4>2. Len(inbox) = 0
        BY <4>1
      <4> QED BY <3>3, <4>1, <4>2
    <3> QED BY <3>1, <3>2, <3>3
  <2>6. \A k \in 1 .. Len(script) : Item("head", k) \in ToSet(out) \cup ToSet(in) \/ k \in ToSet(handled)
    BY <1>2, <1>3, <2>3
  <2> QED BY <2>5, <2>6
<1>8. Excused(srv, hab)
  BY <1>4 DEF ServerInv, Excused
<1> HIDE DEF x, in, out, hab
<1>9. ServerTyped(script, out, in, peerGone, srv, wire, handled, hab)
  BY <1>2, <1>3, <1>4 DEF ServerInv, ServerTyped
<1>10. ModeOK(srv) /\ AnswersOK(script, srv, wire, handled)
  BY DEF ServerInv
<1> QED BY <1>5, <1>6, <1>7, <1>8, <1>9, <1>10 DEF ServerInv

LEMMA PeerLeavesStep ==
  ASSUME ServerInv, PeerLeaves
  PROVE  ServerInv'
<1>1. /\ script' = script /\ outgoing' = outgoing /\ inbox' = inbox /\ peerGone' = TRUE /\ srv' = srv /\ wire' = wire
      /\ handled' = handled /\ habits' = habits
  BY DEF PeerLeaves
<1>2. ServerTyped(script, outgoing, inbox, TRUE, srv, wire, handled, habits)
  BY DEF ServerInv, ServerTyped
<1> QED BY <1>1, <1>2 DEF ServerInv

LEMMA PartsOf ==
  ASSUME NEW S, NEW q \in Seq(S), NEW n \in 1 .. Len(q)
  PROVE  LET a == SubSeq(q, 1, n)
             b == SubSeq(q, n + 1, Len(q))
         IN /\ a \in Seq(S) /\ b \in Seq(S) /\ Len(a) = n /\ Len(b) = Len(q) - n
            /\ \A i \in 1 .. n : a[i] = q[i]
            /\ \A i \in 1 .. Len(q) - n : b[i] = q[n + i]
<1> DEFINE a == SubSeq(q, 1, n)
           b == SubSeq(q, n + 1, Len(q))
<1>1. n \in 0 .. Len(q) /\ n \in Nat
  OBVIOUS
<1>2. a \in Seq(S) /\ b \in Seq(S) /\ Len(a) = n /\ Len(b) = Len(q) - n
      /\ \A i \in 1 .. Len(q) - n : b[i] = q[n + i]
  BY <1>1, SplitConcat
<1>3. \A i \in 1 .. n : a[i] = q[i]
  <2>1. \A i \in 1 .. n : q[i] \in S
    <3>1. \A i \in 1 .. n : i \in 1 .. Len(q)
      OBVIOUS
    <3> QED BY <3>1
  <2> QED BY <1>1, <2>1, FirstPart
<1> HIDE DEF a, b
<1>4. /\ a \in Seq(S) /\ b \in Seq(S) /\ Len(a) = n /\ Len(b) = Len(q) - n
      /\ \A i \in 1 .. n : a[i] = q[i]
      /\ \A i \in 1 .. Len(q) - n : b[i] = q[n + i]
  BY <1>2, <1>3
<1> QED BY <1>4 DEF a, b

\* A head that is alone and first is in the first part.
LEMMA HeadsApart ==
  ASSUME NEW c, NEW q \in Seq(Piece(c)), NEW n \in 1 .. Len(q), \A i \in 1 .. Len(q) : q[i].what = "head" => i = 1
  PROVE  /\ \A i \in 1 .. Len(SubSeq(q, n + 1, Len(q))) : SubSeq(q, n + 1, Len(q))[i].what # "head"
         /\ \A j \in 1 .. Len(c) : Item("head", j) \in ToSet(q) => SubSeq(q, 1, n)[1] = Item("head", j)
         /\ \A i \in 1 .. Len(SubSeq(q, 1, n)) : SubSeq(q, 1, n)[i].what = "head" => i = 1
<1> DEFINE a == SubSeq(q, 1, n)
           b == SubSeq(q, n + 1, Len(q))
           P == Piece(c)
<1>1. /\ a \in Seq(P) /\ b \in Seq(P) /\ Len(a) = n /\ Len(b) = Len(q) - n
      /\ \A i \in 1 .. n : a[i] = q[i]
      /\ \A i \in 1 .. Len(q) - n : b[i] = q[n + i]
  <2>1. q \in Seq(P)
    OBVIOUS
  <2> HIDE DEF P
  <2> QED BY <2>1, PartsOf
<1>2. Len(q) \in Nat /\ DOMAIN q = 1 .. Len(q)
  OBVIOUS
<1> HIDE DEF a, b, P
<1>3. ASSUME NEW i \in 1 .. Len(b) PROVE b[i].what # "head"
  <2>1. n + i \in 1 .. Len(q) /\ n + i # 1 /\ b[i] = q[n + i]
    BY <1>1, <1>2
  <2> QED BY <2>1
<1>4. ASSUME NEW j \in 1 .. Len(c), Item("head", j) \in ToSet(q) PROVE a[1] = Item("head", j)
  <2>1. PICK i \in 1 .. Len(q) : q[i] = Item("head", j)
    BY <1>2, <1>4 DEF ToSet
  <2>2. q[i].what = "head"
    BY <2>1 DEF Item
  <2>3. i = 1 /\ 1 \in 1 .. n
    BY <2>2
  <2> QED BY <1>1, <2>1, <2>3
<1>5. ASSUME NEW i \in 1 .. Len(a), a[i].what = "head" PROVE i = 1
  <2>1. i \in 1 .. n /\ i \in 1 .. Len(q) /\ a[i] = q[i]
    BY <1>1, <1>2
  <2> QED BY <1>5, <2>1
<1> QED BY <1>3, <1>4, <1>5 DEF a, b

LEMMA RecvStep ==
  ASSUME ServerInv, NEW n \in 1 .. Len(inbox), RecvCallback(n)
  PROVE  ServerInv'
<1> DEFINE c == script
           a == SubSeq(inbox, 1, n)
           b == SubSeq(inbox, n + 1, Len(inbox))
           e == [srv EXCEPT !.armed = "none"]
           p == [[srv EXCEPT !.armed = "none"] EXCEPT !.parser = @ \o a]
           k == p.parser[FirstHead(p)].k
           w == wire
           h == handled
<1>1. /\ c \in Seq(Asked) /\ c \in Scripts /\ srv \in ServerState(c) /\ w \in Seq(Blob) /\ h \in Seq(1 .. Len(c))
      /\ inbox \in Seq(Piece(c)) /\ outgoing \in Seq(Piece(c)) /\ peerGone \in BOOLEAN
      /\ habits \in [pipelined : BOOLEAN, waited : BOOLEAN, misread : BOOLEAN]
      /\ Lives(srv) => Fine(c, srv, w, h)
  <2>1. c \in Scripts
    BY DEF ServerInv, ServerTyped
  <2> QED BY <2>1, ScriptTyped
<1>2. Lives(srv) /\ srv.armed # "none"
  BY DEF RecvCallback, Alive, Lives
<1>3. a \in Seq(Piece(c)) /\ b \in Seq(Piece(c))
  BY <1>1, PartsOf
<1>4. FirstSent(c, outgoing, b, srv', handled')
  <2>1. inbox # <<>>
    BY <1>1
  <2> QED BY <2>1 DEF ServerInv, FirstSent
<1>5. /\ script' = c /\ inbox' = b /\ outgoing' = outgoing /\ peerGone' = peerGone /\ wire' = w
  BY DEF RecvCallback
<1>6. (h # <<>> \/ srv.run = "none") /\ (InRange(c) => IsPrefix(w, AnswersTo(c, h, Len(h))))
  BY DEF ServerInv, AnswersOK
\* Nothing of what is not pipelined is a head, but for the first.
<1>7. ASSUME ~habits.pipelined
      PROVE  /\ \A i \in 1 .. Len(inbox) : inbox[i].what = "head" => srv.run = "none" /\ srv.sending = <<>>
             /\ \A j \in 1 .. Len(c) :
                  Item("head", j) \in ToSet(outgoing) \cup ToSet(inbox) \/ j \in ToSet(h)
             /\ \A i \in 1 .. Len(b) : b[i].what # "head"
             /\ \A j \in 1 .. Len(c) : Item("head", j) \in ToSet(inbox) => a[1] = Item("head", j)
             /\ \A i \in 1 .. Len(a) : a[i].what = "head" => i = 1
  <2>1. /\ \A i \in 1 .. Len(inbox) : inbox[i].what = "head" => i = 1 /\ srv.run = "none" /\ srv.sending = <<>>
        /\ \A j \in 1 .. Len(c) :
             Item("head", j) \in ToSet(outgoing) \cup ToSet(inbox) \/ j \in ToSet(h)
    BY <1>2, <1>7 DEF ServerInv, InTurn
  <2>2. /\ \A i \in 1 .. Len(b) : b[i].what # "head"
        /\ \A j \in 1 .. Len(c) : Item("head", j) \in ToSet(inbox) => a[1] = Item("head", j)
        /\ \A i \in 1 .. Len(a) : a[i].what = "head" => i = 1
    BY <1>1, <2>1, HeadsApart
  <2> QED BY <2>1, <2>2
<1>8. CASE srv.armed = "body"
  <2> DEFINE t == RecvBody(e, n)
  <2>1. srv' = t /\ handled' = h /\ habits' = habits
    BY <1>8 DEF RecvCallback
  <2>2. srv.run = "body"
    BY <1>1, <1>2, <1>8 DEF Fine, ModeOK, Between, Waiting, Reading, Loading
  <2>3. Current \in Nat
    <3>1. h # <<>> /\ Len(h) \in 1 .. Len(h)
      BY <1>1, <1>6, <2>2, EmptySeq
    <3>2. h[Len(h)] \in 1 .. Len(c) /\ Len(c) \in Nat
      BY <1>1, <3>1
    <3> QED BY <3>2 DEF Current, Last
  <2>4. /\ t \in ServerState(c)
        /\ t.crashed \/ (Fine(c, t, w, h) /\ t.run = srv.run /\ t.sending = srv.sending)
    <3>1. n \in Nat
      BY <1>1
    <3> QED BY <1>1, <1>2, <1>8, <2>3, <3>1, BodyFine
  <2> HIDE DEF t
  <2>5. habits.waited
    BY <1>2, <2>2 DEF ServerInv, Excused
  <2>6. ModeOK(t)
    BY <2>4 DEF Fine, ModeOK, Lives
  <2>7. AnswersOK(c, t, w, h)
    <3>1. Lives(t) /\ t.open => (InRange(c) => FlowOK(c, t, w, h)) /\ EachTold(t, w, h)
      BY <2>4 DEF Fine, Lives
    <3>2. h # <<>>
      BY <1>6, <2>2
    <3> QED BY <1>6, <3>1, <3>2 DEF AnswersOK
  <2>8. Excused(t, habits)
    BY <2>5 DEF Excused
  <2>9. InTurn(c, outgoing, b, t, h, habits)
    <3>1. SUFFICES ASSUME ~habits.pipelined
                   PROVE  /\ \A i \in 1 .. Len(b) : b[i].what # "head"
                          /\ \A j \in 1 .. Len(c) :
                               Item("head", j) \in ToSet(outgoing) \cup ToSet(b) \/ j \in ToSet(h)
      BY DEF InTurn
    <3>2. ASSUME NEW j \in 1 .. Len(c), Item("head", j) \in ToSet(inbox) PROVE FALSE
      <4>1. PICK i \in 1 .. Len(inbox) : inbox[i] = Item("head", j)
        <5>1. DOMAIN inbox = 1 .. Len(inbox)
          BY <1>1
        <5> QED BY <3>2, <5>1 DEF ToSet
      <4>2. inbox[i].what = "head"
        BY <4>1 DEF Item
      <4> QED BY <1>7, <2>2, <3>1, <4>2
    <3> HIDE DEF b
    <3> QED BY <1>7, <3>1, <3>2
  <2>10. ServerTyped(c, outgoing, b, peerGone, t, w, h, habits)
    BY <1>1, <1>3, <2>4 DEF ServerTyped
  <2> HIDE DEF b, c, w, h
  <2> QED BY <1>4, <1>5, <2>1, <2>6, <2>7, <2>8, <2>9, <2>10 DEF ServerInv, t
<1>9. CASE srv.armed = "request"
  <2> DEFINE t == RecvRequest(p)
             g == IF Heads_(p) = {} THEN h ELSE Append(h, k)
             hab == [habits EXCEPT !.misread = @ \/ p.parser[1].what = "body",
                                   !.waited = @ \/ (Heads_(p) # {} /\ t.run = "body")]
  <2>1. srv' = t /\ handled' = g /\ habits' = hab
    BY <1>9 DEF RecvCallback
  <2>2. /\ Heads_(p) = {} => Fine(c, t, w, h) /\ ~t.crashed /\ t.run = srv.run /\ t.sending = srv.sending
        /\ Heads_(p) # {} => /\ k \in 1 .. Len(c) /\ Fine(c, t, w, Append(h, k))
                             /\ t.crashed => srv.sending # <<>>
        /\ Heads_(p) # {} => /\ \E j \in 1 .. Len(a) : a[j].what = "head"
                             /\ \A j \in 1 .. Len(a) :
                                  (a[j].what = "head" /\ \A i \in 1 .. Len(a) : a[i].what = "head" => i = j)
                                     => k = a[j].k
        /\ Heads_(p) = {} => \A j \in 1 .. Len(a) : a[j].what # "head"
    <3>1. Received(c, srv, p, t, w, h, a)
      BY <1>1, <1>2, <1>3, <1>9, RequestFine
    <3> HIDE DEF p, t, c, w, h, a
    <3> QED BY <3>1 DEF Received
  <2>3. /\ hab \in [pipelined : BOOLEAN, waited : BOOLEAN, misread : BOOLEAN]
        /\ hab.pipelined = habits.pipelined
        /\ hab.waited <=> habits.waited \/ (Heads_(p) # {} /\ t.run = "body")
    BY <1>1
  <2>4. /\ Heads_(p) # {} => /\ g \in Seq(1 .. Len(c)) /\ g # <<>> /\ k \in ToSet(g) /\ ToSet(h) \subseteq ToSet(g)
                             /\ AnswersTo(c, g, Len(g)) = AnswersTo(c, h, Len(h)) \o AnswerTo(c, k)
        /\ Heads_(p) = {} => g = h
    <3>1. ASSUME Heads_(p) # {}
          PROVE  /\ g \in Seq(1 .. Len(c)) /\ g # <<>> /\ k \in ToSet(g) /\ ToSet(h) \subseteq ToSet(g)
                 /\ AnswersTo(c, g, Len(g)) = AnswersTo(c, h, Len(h)) \o AnswerTo(c, k)
      <4>1. k \in 1 .. Len(c) /\ g = Append(h, k)
        BY <2>2, <3>1
      <4> HIDE DEF k, g, h, c
      <4>2. /\ Append(h, k) \in Seq(1 .. Len(c)) /\ Len(Append(h, k)) = Len(h) + 1
            /\ AnswersTo(c, Append(h, k), Len(h) + 1) = AnswersTo(c, h, Len(h)) \o AnswerTo(c, k)
        BY <1>1, <4>1, AnswersMore
      <4> DEFINE K == 1 .. Len(c)
      <4>3. ToSet(Append(h, k)) = ToSet(h) \cup {k}
        <5>1. h \in Seq(K) /\ k \in K
          BY <1>1, <4>1
        <5> HIDE DEF K
        <5> QED BY <5>1, LastApart
      <4>4. Append(h, k) # <<>>
        <5>1. h \in Seq(K) /\ k \in K
          BY <1>1, <4>1
        <5> HIDE DEF K
        <5> QED BY <5>1, AppendProperties
      <4> QED BY <4>1, <4>2, <4>3, <4>4
    <3> QED BY <3>1
  <2> HIDE DEF t, g, hab, k, p
  <2>5. Fine(c, t, w, g) /\ g \in Seq(1 .. Len(c))
    <3>1. CASE Heads_(p) = {}
      BY <1>1, <2>2, <2>4, <3>1
    <3>2. CASE Heads_(p) # {}
      <4>1. g = Append(h, k)
        BY <3>2 DEF g
      <4> QED BY <2>2, <2>4, <3>2, <4>1
    <3> QED BY <3>1, <3>2
  <2>6. srv.run = "none"
    BY <1>1, <1>2, <1>9 DEF Fine, ModeOK, Between, Waiting, Reading, Loading, ServerState
  <2>7. AnswersOK(c, t, w, g)
    <3>1. g # <<>> \/ t.run = "none"
      BY <2>2, <2>4, <2>6
    <3>2. ASSUME InRange(c) PROVE IsPrefix(w, AnswersTo(c, g, Len(g)))
      <4>1. CASE Heads_(p) = {}
        BY <1>6, <2>4, <3>2, <4>1
      <4>2. CASE Heads_(p) # {}
        <5> DEFINE u == AnswersTo(c, h, Len(h))
                   v == AnswerTo(c, k)
        <5>1. u \in Seq(Blob) /\ v \in Seq(Blob) /\ IsPrefix(w, u)
          <6>1. Len(h) \in 0 .. Len(h) /\ k \in 1 .. Len(c)
            BY <1>1, <2>2, <4>2
          <6>2. u \in Seq(Blob)
            BY <1>1, <6>1, AnswersMade
          <6>3. v \in Seq(Blob)
            BY <1>1, <6>1, AnswerMade
          <6> QED BY <1>6, <3>2, <6>2, <6>3
        <5>2. AnswersTo(c, g, Len(g)) = u \o v
          BY <2>4, <4>2
        <5> HIDE DEF u, v
        <5>3. IsPrefix(w, u \o v)
          BY <1>1, <5>1, PrefixGrows
        <5> QED BY <5>2, <5>3
      <4> QED BY <4>1, <4>2
    <3> QED BY <2>5, <3>1, <3>2 DEF AnswersOK, Fine
  <2>8. Excused(t, hab)
    <3>1. Lives(t) /\ t.run = "body" => hab.waited
      <4>1. t.run = "body" => Heads_(p) # {}
        BY <2>2, <2>6
      <4> QED BY <2>3, <4>1
    <3>2. ASSUME t.crashed PROVE hab.pipelined
      <4>1. Heads_(p) # {} /\ srv.sending # <<>>
        BY <2>2, <3>2
      <4>2. PICK j \in 1 .. Len(a) : a[j].what = "head"
        BY <2>2, <4>1
      <4>3. j \in 1 .. Len(inbox) /\ inbox[j].what = "head"
        <5>1. Len(a) = n /\ \A i \in 1 .. n : a[i] = inbox[i]
          BY <1>1, PartsOf
        <5>2. \A i \in 1 .. n : i \in 1 .. Len(inbox)
          BY <1>1
        <5> HIDE DEF a
        <5> QED BY <4>2, <5>1, <5>2
      <4> QED BY <1>7, <2>3, <4>1, <4>3
    <3> QED BY <3>1, <3>2 DEF Excused
  <2>9. InTurn(c, outgoing, b, t, g, hab)
    <3>1. SUFFICES ASSUME ~hab.pipelined
                   PROVE  /\ \A i \in 1 .. Len(b) : b[i].what # "head"
                          /\ \A j \in 1 .. Len(c) :
                               Item("head", j) \in ToSet(outgoing) \cup ToSet(b) \/ j \in ToSet(g)
      BY DEF InTurn
    <3>2. ~habits.pipelined
      BY <2>3, <3>1
    <3>3. ASSUME NEW j \in 1 .. Len(c), Item("head", j) \in ToSet(inbox) PROVE j \in ToSet(g)
      <4>1. a[1] = Item("head", j) /\ \A i \in 1 .. Len(a) : a[i].what = "head" => i = 1
        BY <1>7, <3>2, <3>3
      <4>2. 1 \in 1 .. Len(a) /\ a[1].what = "head" /\ a[1].k = j
        <5>1. Len(a) = n
          BY <1>1, PartsOf
        <5>2. 1 \in 1 .. n
          OBVIOUS
        <5> HIDE DEF a
        <5> QED BY <4>1, <5>1, <5>2 DEF Item
      <4>3. Heads_(p) # {}
        BY <2>2, <4>2
      <4>4. k = a[1].k
        BY <2>2, <4>1, <4>2, <4>3
      <4> QED BY <2>4, <4>2, <4>3, <4>4
    <3>4. ToSet(h) \subseteq ToSet(g)
      BY <2>4
    <3> HIDE DEF b
    <3> QED BY <1>7, <3>2, <3>3, <3>4
  <2>10. ServerTyped(c, outgoing, b, peerGone, t, w, g, hab)
    BY <1>1, <1>3, <2>3, <2>5 DEF ServerTyped, Fine
  <2>11. ModeOK(t)
    BY <2>5 DEF Fine
  <2> HIDE DEF b, c, w, h
  <2> QED BY <1>4, <1>5, <2>1, <2>7, <2>8, <2>9, <2>10, <2>11 DEF ServerInv
<1>10. srv.armed \in {"none", "request", "body"}
  BY <1>1 DEF ServerState
<1> QED BY <1>2, <1>8, <1>9, <1>10

\* The connection, or the process, ends.
LEMMA ItEnds ==
  ASSUME ServerInv, NEW t \in ServerState(script), t.run \in {srv.run, "none"}, ~Lives(t), t.crashed \/ ~t.open,
         t.crashed => habits.waited \/ habits.pipelined, srv' = t,
         UNCHANGED <<script, outgoing, inbox, wire, handled, habits>>, peerGone' = peerGone
  PROVE  ServerInv'
<1>1. ModeOK(t) /\ Excused(t, habits)
  BY DEF ModeOK, Excused
<1>2. AnswersOK(script, t, wire, handled)
  BY DEF ServerInv, AnswersOK
<1>3. FirstSent(script, outgoing, inbox, t, handled) /\ InTurn(script, outgoing, inbox, t, handled, habits)
  BY DEF ServerInv, FirstSent, InTurn
<1>4. ServerTyped(script, outgoing, inbox, peerGone, t, wire, handled, habits)
  BY DEF ServerInv, ServerTyped
<1> QED BY <1>1, <1>2, <1>3, <1>4 DEF ServerInv

\* A handler ends or waits on, or an answer is sent.
LEMMA GoesOnWith ==
  ASSUME ServerInv, Lives(srv), srv.run # "none" \/ srv.sending # <<>>,
         NEW t, NEW v \in Seq(Blob), Fine(script, t, v, handled), ~t.crashed, t.run \in {srv.run, "none"},
         InRange(script) => IsPrefix(v, AnswersTo(script, handled, Len(handled))), srv' = t, wire' = v,
         UNCHANGED <<script, outgoing, inbox, handled, habits>>, peerGone' = peerGone
  PROVE  ServerInv'
<1>1. ModeOK(t) /\ t \in ServerState(script)
  BY DEF Fine
<1>2. AnswersOK(script, t, v, handled)
  <2>1. handled # <<>> \/ t.run = "none"
    BY DEF ServerInv, AnswersOK
  <2> QED BY <2>1 DEF AnswersOK, Fine
<1>3. Excused(t, habits)
  BY DEF ServerInv, Excused
<1>4. FirstSent(script, outgoing, inbox, t, handled)
  BY DEF ServerInv, FirstSent
<1>5. InTurn(script, outgoing, inbox, t, handled, habits)
  <2>1. InTurn(script, outgoing, inbox, srv, handled, habits)
    BY DEF ServerInv
  <2> QED BY <2>1 DEF InTurn
<1>6. ServerTyped(script, outgoing, inbox, peerGone, t, v, handled, habits)
  BY <1>1 DEF ServerInv, ServerTyped
<1> QED BY <1>1, <1>2, <1>3, <1>4, <1>5, <1>6 DEF ServerInv

LEMMA ReceiveLostStep ==
  ASSUME ServerInv, ReceiveLost
  PROVE  ServerInv'
<1> DEFINE s == [srv EXCEPT !.armed = "none"]
           t == IF srv.armed = "body" THEN DoReceive([s EXCEPT !.open = FALSE]) ELSE Close(s)
<1>1. srv \in ServerState(script) /\ Lives(srv) /\ Fine(script, srv, wire, handled) /\ srv.armed # "none"
  BY ScriptTyped DEF ReceiveLost, Alive, Lives
<1>2. srv' = t /\ UNCHANGED <<script, outgoing, inbox, wire, handled, habits>> /\ peerGone' = peerGone
  BY DEF ReceiveLost
<1>3. CASE srv.armed = "body"
  <2> DEFINE a == [[srv EXCEPT !.armed = "none", !.open = FALSE] EXCEPT !.sends = "request"]
             r == Arm(a, "request")
  <2>1. t = r
    BY <1>1, <1>3 DEF DoReceive, ServerState
  <2>2. a \in ServerState(script) /\ ~a.open /\ a.run = srv.run
    BY <1>1 DEF ServerState
  <2> HIDE DEF a, t
  <2>3. r \in ServerState(script) /\ ArmedBy(a, "request", r)
    <3>1. "request" \in {"none", "request", "body"}
      OBVIOUS
    <3> QED BY <2>2, <3>1, ArmRight
  <2>4. srv.run = "body"
    BY <1>1, <1>3 DEF Fine, ModeOK, Between, Waiting, Reading, Loading
  <2>5. habits.waited
    BY <1>1, <2>4 DEF ServerInv, Excused
  <2> HIDE DEF r
  <2>6. t \in ServerState(script) /\ t.crashed /\ t.run = srv.run
    BY <2>1, <2>2, <2>3 DEF ArmedBy
  <2> QED BY <1>2, <2>5, <2>6, ItEnds DEF Lives
<1>4. CASE srv.armed # "body"
  <2>1. srv.armed = "request"
    BY <1>1, <1>4 DEF ServerState
  <2>2. Between(srv)
    <3>1. srv.open \in BOOLEAN
      BY <1>1 DEF ServerState
    <3>2. Between(srv) \/ Waiting(srv) \/ Reading(srv) \/ Loading(srv)
      BY <1>1 DEF Fine, ModeOK
    <3> QED BY <2>1, <3>1, <3>2 DEF Waiting, Reading, Loading
  <2>3. s \in ServerState(script) /\ s.crashed = srv.crashed /\ s.run = srv.run /\ ~s.inCallback
    BY <1>1, <2>2 DEF ServerState, Between
  <2>4. t = Close(s)
    BY <1>4
  <2> HIDE DEF s, t
  <2>5. Close(s) \in ServerState(script) /\ Close(s).crashed = s.crashed /\ Close(s).run = s.run /\ ~Close(s).listed
        /\ ~Close(s).open
    BY <2>3, CloseRight
  <2> QED BY <1>1, <1>2, <2>3, <2>4, <2>5, ItEnds DEF Lives
<1> QED BY <1>3, <1>4

LEMMA SendDoneStep ==
  ASSUME ServerInv, SendDone
  PROVE  ServerInv'
<1> DEFINE s == [srv EXCEPT !.sending = <<>>]
           v == wire \o srv.sending
           t == IF srv.sends = "download" THEN SendBlock(s) ELSE SendCallbackOf(s)
<1>1. /\ script \in Seq(Asked) /\ srv \in ServerState(script) /\ wire \in Seq(Blob) /\ handled \in Seq(1 .. Len(script))
      /\ Lives(srv) /\ srv.open /\ srv.sending # <<>> /\ Fine(script, srv, wire, handled)
  BY ScriptTyped DEF SendDone, Alive, Lives
<1>2. /\ srv' = t /\ wire' = v /\ UNCHANGED <<script, outgoing, inbox, handled, habits>> /\ peerGone' = peerGone
  BY DEF SendDone
<1>3. v \in Seq(Blob)
  <2>1. srv.sending \in Seq(Blob)
    BY <1>1 DEF ServerState
  <2> QED BY <1>1, <2>1, ConcatProperties
<1>4. InRange(script) => IsPrefix(v, AnswersTo(script, handled, Len(handled)))
  <2>1. InRange(script) => FlowOK(script, srv, wire, handled)
    BY <1>1 DEF Fine
  <2> QED BY <1>1, <2>1, PrefixOfFlow
<1>5. CASE srv.sends = "download"
  <2>1. srv.run = "download"
    BY <1>1, <1>5 DEF Fine, ModeOK, Between, Waiting, Reading, Loading
  <2>2. handled # <<>>
    BY <2>1 DEF ServerInv, AnswersOK
  <2>3. t = SendBlock(s)
    BY <1>5
  <2> HIDE DEF t
  <2>4. Fine(script, t, v, handled) /\ t.listed /\ ~t.crashed /\ t.run \in {"none", "download"}
    BY <1>1, <1>5, <2>2, <2>3, BlockFine
  <2> HIDE DEF v
  <2> QED BY <1>1, <1>2, <1>3, <1>4, <2>1, <2>4, GoesOnWith
<1>6. CASE srv.sends # "download"
  <2>1. srv.sends = "request"
    BY <1>1, <1>6 DEF ServerState
  <2>2. t = SendCallbackOf(s)
    BY <1>6
  <2> HIDE DEF t
  <2>3. Fine(script, t, v, handled) /\ t.listed /\ ~t.crashed /\ t.run = srv.run
    BY <1>1, <2>1, <2>2, SendFine
  <2> HIDE DEF v
  <2> QED BY <1>1, <1>2, <1>3, <1>4, <2>3, GoesOnWith
<1> QED BY <1>5, <1>6

LEMMA SendFailsStep ==
  ASSUME ServerInv, SendFails
  PROVE  ServerInv'
<1> DEFINE s == [srv EXCEPT !.sending = <<>>]
           t == IF srv.sends = "download" THEN EndHandler(Close(s)) ELSE Close(s)
<1>1. /\ srv \in ServerState(script) /\ wire \in Seq(Blob)
      /\ Lives(srv) /\ srv.open /\ srv.sending # <<>> /\ Fine(script, srv, wire, handled)
  BY ScriptTyped DEF SendFails, Alive, Lives
<1>2. /\ srv' = t /\ UNCHANGED <<script, outgoing, inbox, wire, handled, habits>> /\ peerGone' = peerGone
  BY DEF SendFails
<1>3. CASE srv.sends = "download"
  <2>1. s \in ServerState(script) /\ s.crashed = srv.crashed
    <3>1. <<>> \in Seq(Blob) /\ Len(<<>>) <= 1
      OBVIOUS
    <3> QED BY <1>1, <3>1 DEF ServerState
  <2>2. t = EndHandler(Close(s))
    BY <1>3
  <2> HIDE DEF s, t
  <2>3. Close(s) \in ServerState(script) /\ Close(s).isClose /\ Close(s).crashed = s.crashed
    BY <2>1, CloseRight
  <2> DEFINE d == Close(s)
  <2>4. d \in ServerState(script) /\ d.isClose /\ d.crashed = s.crashed /\ t = EndHandler(d)
    BY <2>2, <2>3
  <2> HIDE DEF d
  <2>5. EndHandler(d) \in ServerState(script) /\ ~EndHandler(d).listed /\ EndHandler(d).crashed = d.crashed
        /\ EndHandler(d).run = "none" /\ ~EndHandler(d).open
    BY <2>4, EndClosed
  <2>6. t \in ServerState(script) /\ ~t.listed /\ ~t.crashed /\ t.run = "none" /\ ~t.open
    BY <1>1, <2>1, <2>4, <2>5 DEF Lives
  <2> QED BY <1>2, <2>6, ItEnds DEF Lives
<1>4. CASE srv.sends # "download"
  <2>1. srv.sends = "request"
    BY <1>1, <1>4 DEF ServerState
  <2>2. t = Close(s)
    BY <1>4
  <2> HIDE DEF t
  <2>3. t \in ServerState(script) /\ ModeOK(t) /\ ~t.open /\ ~t.crashed /\ t.run = srv.run
    BY <1>1, <2>1, <2>2, CloseFine
  <2>4. Fine(script, t, wire, handled)
    BY <2>3 DEF Fine
  <2>5. InRange(script) => IsPrefix(wire, AnswersTo(script, handled, Len(handled)))
    BY DEF ServerInv, AnswersOK
  <2>6. wire' = wire
    BY <1>2
  <2> QED BY <1>1, <1>2, <2>3, <2>4, <2>5, <2>6, GoesOnWith
<1> QED BY <1>3, <1>4

LEMMA LaterStep ==
  ASSUME ServerInv, Later
  PROVE  ServerInv'
<1> DEFINE c == script
           h == handled
           k == h[Len(h)]
           d == Done(srv, k)
           t == EndHandler(d)
<1>1. /\ c \in Seq(Asked) /\ srv \in ServerState(c) /\ wire \in Seq(Blob) /\ h \in Seq(1 .. Len(c))
      /\ Lives(srv) /\ srv.run = "later" /\ Fine(c, srv, wire, h)
  BY ScriptTyped DEF Later, Alive, Lives
<1>2. srv' = t /\ UNCHANGED <<script, outgoing, inbox, wire, handled, habits>> /\ peerGone' = peerGone
  BY DEF Later, Current, Last
<1>3. Waiting(srv) /\ (srv.isClose <=> ~srv.open)
  BY <1>1 DEF Fine, ModeOK, Between, Waiting, Reading, Loading
<1>4. h # <<>> /\ (InRange(c) => IsPrefix(wire, AnswersTo(c, h, Len(h))))
  BY <1>1 DEF ServerInv, AnswersOK
<1>5. CASE srv.open
  <2>1. InRange(c) => c[k].does # "download" /\ wire \o srv.sending \o srv.buffers = AnswersTo(c, h, Len(h) - 1)
    BY <1>1, <1>5 DEF Fine, FlowOK
  <2>2. \A i \in 1 .. Len(h) - 1 : Item("answer", h[i]) \in ToSet(wire) \cup ToSet(srv.sending) \cup ToSet(srv.buffers)
    <3>1. EachTold(srv, wire, h)
      BY <1>1, <1>5 DEF Fine
    <3>2. \A i \in 1 .. Len(h) - 1 : i \in 1 .. Len(h) /\ i # Len(h)
      BY <1>1
    <3> QED BY <3>1, <3>2 DEF EachTold
  <2>3. ~srv.isClose /\ Sendable(srv) /\ srv.armed = "none"
    BY <1>3, <1>5 DEF Waiting
  <2>4. d \in ServerState(c) /\ SameCall(srv, d) /\ Sendable(d) /\ Settled(c, d, wire, h)
    <3> HIDE DEF c, h
    <3> QED BY <1>1, <1>4, <1>5, <2>1, <2>2, <2>3, DoneSettled
  <2>5. d.open /\ d.listed /\ ~d.isClose /\ d.armed = "none" /\ ~d.crashed
    BY <1>1, <1>5, <2>3, <2>4 DEF SameCall, Lives
  <2> HIDE DEF d
  <2>6. Fine(c, t, wire, h) /\ t.run = "none" /\ t.crashed = d.crashed
    BY <2>4, <2>5, EndFine
  <2> HIDE DEF t
  <2>7. wire' = wire
    BY <1>2
  <2> QED BY <1>1, <1>2, <1>4, <2>5, <2>6, <2>7, GoesOnWith
<1>6. CASE ~srv.open
  <2> DEFINE x == Item("answer", k)
             b == Append(srv.buffers, x)
             u == [srv EXCEPT !.buffers = b]
  <2>1. srv.isClose
    BY <1>3, <1>6
  <2>2. b \in Seq(Blob)
    <3>1. k \in Nat
      <4>1. Len(h) \in 1 .. Len(h) /\ Len(c) \in Nat
        BY <1>1, <1>4, EmptySeq
      <4>2. h[Len(h)] \in 1 .. Len(c)
        BY <1>1, <4>1
      <4> QED BY <4>1, <4>2
    <3>2. x \in Blob
      BY <3>1 DEF Blob, Item
    <3>3. srv.buffers \in Seq(Blob)
      BY <1>1 DEF ServerState
    <3> HIDE DEF x
    <3> QED BY <3>2, <3>3, AppendProperties
  <2> HIDE DEF b
  <2>3. u \in ServerState(c) /\ u.isClose /\ u.crashed = srv.crashed
    BY <1>1, <2>1, <2>2 DEF ServerState
  <2>4. d = TrySend(u)
    BY DEF Done, b
  <2> HIDE DEF u
  <2>5. d = u
    BY <2>3, <2>4 DEF TrySend
  <2>6. t = EndHandler(u)
    BY <2>5
  <2> HIDE DEF t
  <2>7. EndHandler(u) \in ServerState(c) /\ ~EndHandler(u).listed /\ EndHandler(u).crashed = u.crashed
        /\ EndHandler(u).run = "none" /\ ~EndHandler(u).open
    <3> HIDE DEF c
    <3> QED BY <2>3, EndClosed
  <2>8. t \in ServerState(c) /\ ~t.listed /\ ~t.crashed /\ t.run = "none" /\ ~t.open
    BY <1>1, <2>3, <2>6, <2>7 DEF Lives
  <2> QED BY <1>2, <2>8, ItEnds DEF Lives
<1>7. srv.open \in BOOLEAN
  BY <1>1 DEF ServerState
<1> QED BY <1>5, <1>6, <1>7

-----------------------------------------------------------------------------

LEMMA ServerInitInv == HttpServerInit => ServerInv
<1> SUFFICES ASSUME HttpServerInit PROVE ServerInv
  OBVIOUS
<1>1. script \in Seq(Asked) /\ script \in Scripts
  BY ScriptsAssumption DEF HttpServerInit
<1>2. /\ inbox = <<>> /\ peerGone = FALSE /\ outgoing = WholeScript(script) /\ wire = <<>> /\ handled = <<>>
      /\ habits = [pipelined |-> FALSE, waited |-> FALSE, misread |-> FALSE]
  BY DEF HttpServerInit, WholeScript
<1>3. srv = [parser |-> <<>>, body |-> 0, armed |-> "request", sends |-> "request",
             sending |-> <<>>, buffers |-> <<>>, isSend |-> FALSE, isClose |-> FALSE,
             inCallback |-> FALSE, open |-> TRUE, listed |-> TRUE, run |-> "none",
             begin |-> 0, end |-> 0, offset |-> 0, crashed |-> FALSE]
  BY DEF HttpServerInit
<1>4. /\ WholeScript(script) \in Seq(Piece(script))
      /\ \A k \in 1 .. Len(script) : Item("head", k) \in ToSet(WholeScript(script))
  BY <1>1, ScriptOnce
<1>5. /\ srv \in ServerState(script) /\ srv.run = "none" /\ srv.sending = <<>> /\ srv.buffers = <<>> /\ ~srv.crashed
      /\ srv.parser = <<>> /\ srv.armed = "request" /\ srv.sends = "request" /\ ~srv.isSend /\ ~srv.isClose
      /\ ~srv.inCallback /\ srv.open /\ srv.listed
  <2>1. <<>> \in Seq(Piece(script)) /\ <<>> \in Seq(Blob)
    OBVIOUS
  <2> QED BY <1>3, <2>1 DEF ServerState
<1>6. ModeOK(srv)
  <2>1. Len(srv.parser) = 0 /\ Len(srv.sending) = 0
    BY <1>5
  <2>2. Between(srv)
    BY <1>5, <2>1 DEF Between, Sendable, HeadIn
  <2> QED BY <1>5, <2>2 DEF ModeOK
<1>7. ServerTyped(script, outgoing, inbox, peerGone, srv, wire, handled, habits)
  <2>1. <<>> \in Seq(Piece(script)) /\ <<>> \in Seq(Blob) /\ <<>> \in Seq(1 .. Len(script))
    OBVIOUS
  <2> QED BY <1>1, <1>2, <1>4, <1>5, <2>1 DEF ServerTyped
<1>8. AnswersOK(script, srv, wire, handled)
  <2>1. Len(handled) = 0 /\ AnswersTo(script, handled, 0) = <<>>
    BY <1>2, AnswersNone
  <2>2. wire \o srv.sending \o srv.buffers = <<>>
    BY <1>2, <1>5
  <2>3. IsPrefix(<<>>, <<>>)
    BY DEF IsPrefix
  <2>4. FlowOK(script, srv, wire, handled)
    BY <1>5, <2>1, <2>2 DEF FlowOK
  <2>5. EachTold(srv, wire, handled)
    BY <2>1 DEF EachTold
  <2> QED BY <1>2, <1>5, <2>1, <2>3, <2>4, <2>5 DEF AnswersOK
<1>9. Excused(srv, habits) /\ FirstSent(script, outgoing, inbox, srv, handled)
  BY <1>2, <1>5 DEF Excused, FirstSent
<1>10. InTurn(script, outgoing, inbox, srv, handled, habits)
  <2>1. Len(inbox) = 0
    BY <1>2
  <2> QED BY <1>2, <1>4, <2>1 DEF InTurn
<1> QED BY <1>6, <1>7, <1>8, <1>9, <1>10 DEF ServerInv

LEMMA ServerNextInv == ServerInv /\ [HttpServerNext]_httpServerVars => ServerInv'
<1> SUFFICES ASSUME ServerInv, [HttpServerNext]_httpServerVars PROVE ServerInv'
  OBVIOUS
<1>1. ASSUME HttpServerNext PROVE ServerInv'
  <2>1. CASE \E n \in 1 .. Len(inbox) : RecvCallback(n)
    <3>1. PICK n \in 1 .. Len(inbox) : RecvCallback(n)
      BY <2>1
    <3> QED BY <3>1, RecvStep
  <2> QED BY <1>1, <2>1, PeerSendsStep, PeerLeavesStep, ReceiveLostStep, SendDoneStep, SendFailsStep, LaterStep
          DEF HttpServerNext
<1>2. CASE UNCHANGED httpServerVars
  BY <1>2 DEF httpServerVars, ServerInv
<1> QED BY <1>1, <1>2

LEMMA ServerInvSafe == ServerInv => ServerSafe
<1> SUFFICES ASSUME ServerInv PROVE ServerSafe
  OBVIOUS
<1>1. /\ script \in Seq(Asked) /\ srv \in ServerState(script) /\ wire \in Seq(Blob) /\ handled \in Seq(1 .. Len(script))
      /\ Lives(srv) => Fine(script, srv, wire, handled)
  BY ScriptTyped
<1>2. CrashKnown
  BY DEF ServerInv, Excused, CrashKnown
<1>3. NeverDeaf
  BY <1>1 DEF Fine, ModeOK, Between, Waiting, Reading, Loading, NeverDeaf, Alive, Lives
<1>4. AnswersInOrder
  <2>1. SUFFICES ASSUME \A k \in DOMAIN script : script[k].range[1] <= script[k].range[2]
                 PROVE  IsPrefix(wire, FlattenSeq([i \in DOMAIN handled |-> Answer_(handled[i])]))
    BY DEF AnswersInOrder
  <2>2. InRange(script)
    <3>1. DOMAIN script = 1 .. Len(script)
      BY <1>1
    <3> QED BY <2>1, <3>1 DEF InRange
  <2>3. IsPrefix(wire, AnswersTo(script, handled, Len(handled)))
    BY <2>2 DEF ServerInv, AnswersOK
  <2>4. \A k : Answer_(k) = AnswerTo(script, k)
    BY DEF Answer_, AnswerTo, Blocks, FileEnd
  <2>5. DOMAIN handled = 1 .. Len(handled)
    BY <1>1
  <2>6. [i \in DOMAIN handled |-> Answer_(handled[i])] = [i \in 1 .. Len(handled) |-> AnswerTo(script, handled[i])]
    BY <2>4, <2>5
  <2> QED BY <2>3, <2>6 DEF AnswersTo
<1>5. AllAnswered
  <2>1. SUFFICES ASSUME Alive, ~habits.pipelined, inbox = <<>>, srv.run = "none", srv.sending = <<>>,
                        NEW k \in 1 .. Len(script), Item("head", k) \notin ToSet(outgoing)
                 PROVE  Item("answer", k) \in ToSet(wire)
    <3>1. DOMAIN script = 1 .. Len(script)
      BY <1>1
    <3> QED BY <3>1 DEF AllAnswered
  <2>2. ToSet(<<>>) = {}
    BY DEF ToSet
  <2>3. Lives(srv) /\ Fine(script, srv, wire, handled)
    BY <1>1, <2>1 DEF Alive, Lives
  <2>4. Between(srv)
    BY <2>1, <2>3 DEF Fine, ModeOK, Waiting, Reading, Loading
  <2>5. srv.open /\ srv.buffers = <<>>
    BY <2>1, <2>4 DEF Between, Sendable
  <2>6. k \in ToSet(handled)
    BY <2>1, <2>2, <2>3 DEF ServerInv, InTurn
  <2>7. PICK i \in 1 .. Len(handled) : handled[i] = k
    <3>1. DOMAIN handled = 1 .. Len(handled)
      BY <1>1
    <3> QED BY <2>6, <3>1 DEF ToSet
  <2>8. EachTold(srv, wire, handled)
    BY <2>3, <2>5 DEF Fine
  <2> QED BY <2>1, <2>2, <2>5, <2>7, <2>8 DEF EachTold
<1>6. HttpServerTypeOK
  <2>1. ASSUME srv.isSend, srv.open, ~srv.crashed PROVE srv.sends = "request" /\ Len(srv.sending) = 1
    <3>1. Lives(srv)
      BY <2>1 DEF ServerInv, ModeOK, Lives
    <3>2. srv.sends = "request" /\ Sendable(srv)
      BY <1>1, <2>1, <3>1 DEF Fine, ModeOK, Between, Waiting, Reading, Loading
    <3>3. srv.sending \in Seq(Blob) /\ srv.sending # <<>> /\ Len(srv.sending) <= 1
      BY <1>1, <2>1, <3>2 DEF Sendable, ServerState
    <3>4. Len(srv.sending) = 1
      <4> DEFINE m == Len(srv.sending)
      <4>1. m \in Nat /\ m # 0 /\ m <= 1
        BY <3>3, EmptySeq
      <4> HIDE DEF m
      <4>2. m = 1
        BY <4>1
      <4> QED BY <4>2 DEF m
    <3> QED BY <3>2, <3>4
  <2>2. /\ srv.armed \in {"none", "request", "body"} /\ srv.sends \in {"request", "download"}
        /\ srv.run \in {"none", "later", "body", "download"}
        /\ Len(srv.sending) <= 1 /\ srv.body \in Nat
        /\ srv.isSend \in BOOLEAN /\ srv.isClose \in BOOLEAN /\ srv.listed \in BOOLEAN
    BY <1>1 DEF ServerState
  <2> QED BY <2>1, <2>2 DEF HttpServerTypeOK
<1> QED BY <1>2, <1>3, <1>4, <1>5, <1>6 DEF ServerSafe

THEOREM ServerIsSafe == HttpServerSpec => []ServerSafe
<1>1. ServerInv /\ [HttpServerNext]_httpServerVars => ServerInv'
  BY ServerNextInv
<1> QED BY <1>1, ServerInitInv, ServerInvSafe, PTL DEF HttpServerSpec

-----------------------------------------------------------------------------
(* A request of the HTTP client.                                           *)

Sending ==
  {<<"head", 0>>, <<"end", 0>>, Nothing_, <<"file", 1>>, <<"block", 1>>, <<"crlf", 1>>} \cup {<<"form", k>> : k \in Nat}

Uploader ==
  [forms : Nat, files : Nat, read : Nat, opened : Nat, eof : BOOLEAN, isEnd : BOOLEAN, sending : Sending, threw : BOOLEAN]

\* What may be sent as the i-th of a request, and how many sends there are of one
\* that ends: with two files it does not.
Due(r, i) ==
  IF i = 1 THEN {<<"head", 0>>}
  ELSE IF i <= r.forms + 1 THEN {<<"form", i - 1>>}
  ELSE IF i = r.forms + 2 /\ Len(r.files) # 0 THEN {<<"file", 1>>}
  ELSE IF Len(r.files) <= 1 THEN {<<"end", 0>>} ELSE {<<"block", 1>>, <<"crlf", 1>>}
Total(r) == IF r.forms = 0 /\ Len(r.files) = 0 THEN 1 ELSE r.forms + 2 + Len(r.files)

\* What the client has left when q sends have begun, of which the last may be
\* under way.
ClientAt(r, c, q) ==
  /\ c \in Uploader
  /\ c.sending # Nothing_ => c.sending \in Due(r, q)
  /\ Len(r.files) <= 1 => q <= Total(r)
  /\ c.sending = Nothing_ => IF Len(r.files) <= 1 THEN q = Total(r) ELSE c.threw
  /\ c.forms = IF q <= r.forms + 1 THEN q ELSE r.forms + 1
  /\ c.files = IF q >= r.forms + 2 /\ Len(r.files) # 0 THEN 2 ELSE 1
  /\ c.opened = c.files - 1
  /\ c.isEnd <=> Len(r.files) <= 1 /\ q = Total(r) /\ q # 1
  /\ c.eof \/ c.threw => Len(r.files) > 1 /\ q >= r.forms + 2
  /\ c.threw => c.sending = Nothing_

Begun(c, s) == Len(s) + (IF c.sending = Nothing_ THEN 0 ELSE 1)

UploadOK(r, c, s) ==
  /\ s \in Seq(Sending) /\ \A i \in 1 .. Len(s) : s[i] \in Due(r, i)
  /\ Begun(c, s) >= 1 /\ ClientAt(r, c, Begun(c, s))

\* The chunks of a body up to the k-th, and where the next begins.
Before(b, k) == FlattenSeq([i \in 1 .. k |-> Chunk(b.sizes[i])])
Start(b, k) == 2 + (IF b.chunked THEN Len(Before(b, k)) ELSE 0)
EndBytes == <<"0", CCR, CLF, CCR, CLF>>

Cell == {"head", "headend", "byte", "0", CCR, CLF} \cup {Digits[n] : n \in 1 .. 9}

Reader ==
  [buffer : Seq(Cell), taken : BOOLEAN, pos : Nat, len : Nat, need : Int,
   wants : {"head", "some", "exactly", "resumed", "done"}]

\* What get_body should return, and that it has returned the first of it.
Parts(b) == IF b.chunked THEN [i \in DOMAIN b.sizes |-> [j \in 1..b.sizes[i] |-> "byte"]] \o <<<<>>>>
            ELSE <<BodyBytes(b)>>
Returned(b, w) ==
  /\ w \in Seq(Seq(Cell)) /\ Len(w) <= Len(Parts(b)) /\ \A i \in 1 .. Len(w) : w[i] = Parts(b)[i]

\* The buffer holds what has arrived from place p on.
Filled(b, n, v, p) ==
  /\ p <= n /\ Len(v) = n - p
  /\ \A j \in 1 .. Len(v) : v[j] = Answered(b)[p + j]

\* In the body, of which k parts were returned: the buffer begins with the next.
InBody(b, n, v, k) ==
  /\ n >= 2 /\ k <= (IF b.chunked THEN Len(b.sizes) ELSE 0) /\ Filled(b, n, v.buffer, Start(b, k))
  /\ v.len # 0 => /\ b.chunked /\ k < Len(b.sizes) /\ v.len = b.sizes[k + 1] + 2
                  /\ v.pos = 3 /\ Len(v.buffer) >= 3
  /\ v.wants = "some" => b.chunked /\ v.len = 0 /\ Len(v.buffer) < 3
  /\ v.wants = "exactly" =>
       /\ v.need > 0 /\ n + v.need <= Len(Answered(b))
       /\ v.len = 0 => n + v.need = Len(Answered(b))

AnswerOK(b, n, v, w) ==
  /\ v \in Reader /\ n \in 0 .. Len(Answered(b)) /\ Returned(b, w)
  /\ v.wants = "head" => n < 2 /\ w = <<>> /\ v.len = 0
  /\ v.wants = "done" => Len(w) = Len(Parts(b))
  /\ v.wants \in {"some", "exactly", "resumed"} => InBody(b, n, v, Len(w))

ClientInv ==
  /\ request \in Uploads /\ answer \in Bodies /\ undefined \in BOOLEAN
  /\ UploadOK(request, client, sends) /\ AnswerOK(answer, arrived, response, bodies)

-----------------------------------------------------------------------------
(* The upload.                                                             *)

LEMMA UploadTypes ==
  ASSUME request \in Uploads
  PROVE  /\ request.forms \in Nat /\ Len(request.files) \in Nat
         /\ \A i \in 1 .. Len(request.files) : request.files[i].full \in Nat /\ request.files[i].tail \in 0 .. 1
         /\ request.files # <<>> <=> Len(request.files) # 0
<1>1. request \in [forms : Nat, files : Seq([full : Nat, tail : 0 .. 1])]
  BY UploadsAssumption
<1> DEFINE K == [full : Nat, tail : 0 .. 1]
<1>2. request.forms \in Nat /\ request.files \in Seq(K)
  BY <1>1
<1> HIDE DEF K
<1>3. Len(request.files) \in Nat /\ \A i \in 1 .. Len(request.files) : request.files[i] \in K
  BY <1>2
<1>4. request.files # <<>> <=> Len(request.files) # 0
  BY <1>2, EmptySeq
<1> QED BY <1>2, <1>3, <1>4 DEF K

LEMMA SendingHas ==
  /\ {<<"head", 0>>, <<"end", 0>>, Nothing_, <<"file", 1>>, <<"block", 1>>, <<"crlf", 1>>} \subseteq Sending
  /\ \A k \in Nat : <<"form", k>> \in Sending /\ <<"form", k>> # Nothing_
  /\ \A x \in {<<"head", 0>>, <<"end", 0>>, <<"file", 1>>, <<"block", 1>>, <<"crlf", 1>>} : x # Nothing_
<1>1. {<<"head", 0>>, <<"end", 0>>, Nothing_, <<"file", 1>>, <<"block", 1>>, <<"crlf", 1>>} \subseteq Sending
  BY DEF Sending
<1>2. ASSUME NEW k \in Nat PROVE <<"form", k>> \in Sending /\ <<"form", k>> # Nothing_
  BY DEF Sending, Nothing_
<1>3. \A x \in {<<"head", 0>>, <<"end", 0>>, <<"file", 1>>, <<"block", 1>>, <<"crlf", 1>>} : x # Nothing_
  BY DEF Nothing_
<1> QED BY <1>1, <1>2, <1>3

\* What is sent next, behind the q-th send.
LEMMA UploadDataRight ==
  ASSUME request \in Uploads, Post, NEW q \in Nat, q >= 1, NEW c, c.sending # Nothing_, ClientAt(request, c, q)
  PROVE  LET d == UploadData([c EXCEPT !.sending = Nothing_])
         IN ClientAt(request, d, IF d.sending = Nothing_ THEN q ELSE q + 1)
<1> DEFINE F == request.forms
           n == Len(request.files)
           b == [c EXCEPT !.sending = Nothing_]
           d == UploadData(b)
           R == ClientAt(request, d, IF d.sending = Nothing_ THEN q ELSE q + 1)
<1>1. /\ F \in Nat /\ n \in Nat /\ (F > 0 \/ n # 0)
      /\ \A i \in 1 .. n : request.files[i].full \in Nat /\ request.files[i].tail \in 0 .. 1
  BY UploadTypes DEF Post
<1>2. /\ b \in Uploader /\ b.sending = Nothing_
      /\ b.forms = c.forms /\ b.files = c.files /\ b.read = c.read /\ b.opened = c.opened
      /\ b.eof = c.eof /\ b.isEnd = c.isEnd /\ b.threw = c.threw
  BY DEF ClientAt, Uploader, Sending
<1>3. /\ ~c.threw /\ (n <= 1 => q <= Total(request))
      /\ c.forms = IF q <= F + 1 THEN q ELSE F + 1
      /\ c.files = IF q >= F + 2 /\ n # 0 THEN 2 ELSE 1
      /\ c.opened = c.files - 1
      /\ c.isEnd <=> n <= 1 /\ q = Total(request) /\ q # 1
      /\ c.eof => n > 1 /\ q >= F + 2
  BY DEF ClientAt
<1>4. Total(request) = F + 2 + n
  BY <1>1 DEF Total
<1>5. /\ FormsLeft(b) <=> q <= F
      /\ FilesLeft(b) <=> IF q >= F + 2 THEN n > 1 ELSE n # 0
  BY <1>1, <1>2, <1>3 DEF FormsLeft, FilesLeft
<1> HIDE DEF b
<1>6. ASSUME q <= F PROVE R
  <2> DEFINE e == [b EXCEPT !.sending = <<"form", b.forms>>, !.forms = @ + 1]
  <2>1. d = e
    <3>1. CheckEnd_(b) = b
      BY <1>5, <1>6 DEF CheckEnd_
    <3>2. UploadForm(b) = e
      BY <1>5, <1>6 DEF UploadForm
    <3>3. e.sending # Nothing_
      BY <1>2 DEF Nothing_, Uploader
    <3> QED BY <3>1, <3>2, <3>3 DEF UploadData
  <2>a. b.forms = q /\ b.files = 1 /\ b.opened = 0 /\ b.eof = FALSE /\ b.isEnd = FALSE /\ b.threw = FALSE
    BY <1>1, <1>2, <1>3, <1>4, <1>6 DEF Uploader
  <2>b. e \in [forms : {q + 1}, files : {1}, read : Nat, opened : {0}, eof : {FALSE}, isEnd : {FALSE},
               sending : {<<"form", q>>}, threw : {FALSE}]
    BY <1>2, <2>a DEF Uploader
  <2> HIDE DEF e
  <2>2. /\ e \in Uploader /\ e.sending = <<"form", q>> /\ e.forms = q + 1 /\ e.files = 1 /\ e.opened = 0
        /\ ~e.eof /\ ~e.isEnd /\ ~e.threw /\ e.sending # Nothing_
    <3>1. /\ <<"form", q>> \in Sending /\ <<"form", q>> # Nothing_
      BY SendingHas
    <3>2. q \in Nat /\ q + 1 \in Nat /\ 0 \in Nat /\ 1 \in Nat /\ 2 \in Nat
      OBVIOUS
    <3> QED BY <2>b, <3>1, <3>2 DEF Uploader
  <2>3. ClientAt(request, e, q + 1)
    BY <1>1, <1>4, <1>6, <2>2 DEF ClientAt, Due
  <2> QED BY <2>1, <2>2, <2>3
<1>7. ASSUME q = F + 1 /\ n # 0 PROVE R
  <2> DEFINE e == [b EXCEPT !.sending = <<"file", b.files>>, !.opened = b.files, !.files = @ + 1, !.read = 0]
  <2>1. d = e
    <3>1. CheckEnd_(b) = b
      BY <1>1, <1>5, <1>7 DEF CheckEnd_
    <3>2. UploadForm(b) = b
      BY <1>1, <1>5, <1>7 DEF UploadForm
    <3>3. UploadFile(b) = e
      BY <1>1, <1>2, <1>3, <1>5, <1>7 DEF UploadFile
    <3> QED BY <1>2, <3>1, <3>2, <3>3 DEF UploadData
  <2>a. b.forms = q /\ b.files = 1 /\ b.opened = 0 /\ b.eof = FALSE /\ b.isEnd = FALSE /\ b.threw = FALSE
    BY <1>1, <1>2, <1>3, <1>4, <1>7 DEF Uploader
  <2>b. e \in [forms : {q}, files : {2}, read : Nat, opened : {1}, eof : {FALSE}, isEnd : {FALSE},
               sending : {<<"file", 1>>}, threw : {FALSE}]
    <3>1. e \in [forms : {b.forms}, files : {b.files + 1}, read : {0}, opened : {b.files}, eof : {b.eof},
                 isEnd : {b.isEnd}, sending : {<<"file", b.files>>}, threw : {b.threw}]
      BY <1>2 DEF Uploader
    <3> HIDE DEF e
    <3>2. b.files + 1 = 2 /\ <<"file", b.files>> = <<"file", 1>> /\ 0 \in Nat
      BY <2>a
    <3> QED BY <2>a, <3>1, <3>2
  <2> HIDE DEF e
  <2>2. /\ e \in Uploader /\ e.sending = <<"file", 1>> /\ e.forms = q /\ e.files = 2 /\ e.opened = 1
        /\ ~e.eof /\ ~e.isEnd /\ ~e.threw /\ e.sending # Nothing_
    <3>1. /\ <<"file", 1>> \in Sending /\ <<"file", 1>> # Nothing_
      BY SendingHas
    <3>2. q \in Nat /\ q + 1 \in Nat /\ 0 \in Nat /\ 1 \in Nat /\ 2 \in Nat
      OBVIOUS
    <3> QED BY <2>b, <3>1, <3>2 DEF Uploader
  <2>c. Due(request, q + 1) = {<<"file", 1>>}
    BY <1>1, <1>7 DEF Due
  <2>d. q + 1 = F + 2 /\ q + 1 <= Total(request)
    BY <1>1, <1>4, <1>7
  <2>3. ClientAt(request, e, q + 1)
    <3>1. e.sending \in Due(request, q + 1)
      BY <2>2, <2>c
    <3>2. ~e.isEnd /\ ~(n <= 1 /\ q + 1 = Total(request))
      BY <1>1, <1>4, <1>7, <2>2, <2>d
    <3>3. e.forms = F + 1 /\ e.files = 2 /\ e.opened = e.files - 1
      BY <1>7, <2>2
    <3> QED BY <1>1, <1>7, <2>2, <2>d, <3>1, <3>2, <3>3 DEF ClientAt
  <2> QED BY <2>1, <2>2, <2>3
<1>8. ASSUME q > F /\ n <= 1 /\ q # F + 2 + n /\ (q = F + 1 => n = 0) PROVE R
  <2> DEFINE e == [b EXCEPT !.sending = <<"end", 0>>, !.isEnd = TRUE]
  <2>0. q + 1 = F + 2 + n
    BY <1>1, <1>3, <1>4, <1>8
  <2>a. b.forms = F + 1 /\ b.files = n + 1 /\ b.opened = n /\ b.eof = FALSE /\ b.isEnd = FALSE /\ b.threw = FALSE
    BY <1>1, <1>2, <1>3, <1>4, <1>8, <2>0 DEF Uploader
  <2>b. e \in [forms : {F + 1}, files : {n + 1}, read : Nat, opened : {n}, eof : {FALSE}, isEnd : {TRUE},
               sending : {<<"end", 0>>}, threw : {FALSE}]
    BY <1>2, <2>a DEF Uploader
  <2>c. CheckEnd_(b) = e
    BY <1>1, <1>2, <1>3, <1>4, <1>5, <1>8 DEF CheckEnd_
  <2> HIDE DEF e
  <2>2. /\ e \in Uploader /\ e.sending = <<"end", 0>> /\ e.forms = F + 1 /\ e.files = n + 1 /\ e.opened = n
        /\ ~e.eof /\ e.isEnd /\ ~e.threw /\ e.sending # Nothing_
    <3>1. <<"end", 0>> \in Sending /\ <<"end", 0>> # Nothing_
      BY SendingHas
    <3>2. F + 1 \in Nat /\ n + 1 \in Nat
      BY <1>1
    <3> QED BY <1>1, <2>b, <3>1, <3>2 DEF Uploader
  <2>1. d = e
    <3>1. ~FormsLeft(e)
      BY <1>1, <2>2 DEF FormsLeft
    <3>2. UploadForm(e) = e
      BY <3>1 DEF UploadForm
    <3> QED BY <2>2, <2>c, <3>2 DEF UploadData
  <2>3. ClientAt(request, e, q + 1)
    BY <1>1, <1>4, <1>8, <2>0, <2>2 DEF ClientAt, Due
  <2> QED BY <2>1, <2>2, <2>3
<1>9. ASSUME n <= 1 /\ q = F + 2 + n PROVE R
  <2>1. d = b
    <3>1. CheckEnd_(b) = b
      BY <1>1, <1>2, <1>3, <1>4, <1>9 DEF CheckEnd_
    <3>2. UploadForm(b) = b
      BY <1>1, <1>5, <1>9 DEF UploadForm
    <3>3. UploadFile(b) = b
      BY <1>1, <1>2, <1>3, <1>5, <1>9 DEF UploadFile
    <3> QED BY <1>2, <3>1, <3>2, <3>3 DEF UploadData
  <2>2. ClientAt(request, b, q)
    BY <1>1, <1>2, <1>3, <1>4, <1>9 DEF ClientAt
  <2> QED BY <1>2, <2>1, <2>2
<1>10. ASSUME n > 1 /\ q >= F + 2 PROVE R
  <2>0. request.files[1].full \in Nat /\ request.files[1].tail \in 0 .. 1 /\ b.files = 2 /\ b.opened = 1
    BY <1>1, <1>2, <1>3, <1>10
  <2> DEFINE g == request.files[1]
             e1 == [b EXCEPT !.sending = <<"crlf", 1>>, !.read = 0]
             e2 == [b EXCEPT !.sending = <<"block", 1>>, !.read = @ + 1]
             e3 == [b EXCEPT !.sending = <<"block", 1>>, !.read = @ + 1, !.eof = TRUE]
             e4 == [b EXCEPT !.eof = TRUE, !.threw = TRUE]
  <2>1. d \in {e1, e2, e3, e4}
    <3>1. CheckEnd_(b) = b
      BY <1>1, <1>5, <1>10 DEF CheckEnd_
    <3>2. UploadForm(b) = b
      BY <1>1, <1>5, <1>10 DEF UploadForm
    <3>3. UploadFile(b) \in {e1, e2, e3, e4}
      BY <1>1, <1>5, <1>10, <2>0 DEF UploadFile
    <3> QED BY <1>2, <3>1, <3>2, <3>3 DEF UploadData
  <2>a. b.forms = F + 1 /\ b.files = 2 /\ b.opened = 1 /\ b.isEnd = FALSE /\ b.threw = FALSE
    BY <1>1, <1>2, <1>3, <1>4, <1>10, <2>0 DEF Uploader
  <2> DEFINE U(x, t) == [forms : {F + 1}, files : {2}, read : Nat, opened : {1}, eof : BOOLEAN, isEnd : {FALSE},
                         sending : x, threw : {t}]
  <2>b. e1 \in U({<<"crlf", 1>>}, FALSE)
    BY <1>2, <2>a DEF Uploader
  <2>c. e2 \in U({<<"block", 1>>}, FALSE)
    <3>1. b.read + 1 \in Nat
      BY <1>2 DEF Uploader
    <3> QED BY <1>2, <2>a, <3>1 DEF Uploader
  <2>d. e3 \in U({<<"block", 1>>}, FALSE)
    <3>1. b.read + 1 \in Nat
      BY <1>2 DEF Uploader
    <3> QED BY <1>2, <2>a, <3>1 DEF Uploader
  <2>e. e4 \in U({Nothing_}, TRUE)
    BY <1>2, <2>a DEF Uploader
  <2> HIDE DEF e1, e2, e3, e4
  <2> DEFINE G(e) ==
          /\ e \in Uploader /\ e.forms = F + 1 /\ e.files = 2 /\ e.opened = 1 /\ ~e.isEnd
          /\ \/ e.sending \in {<<"crlf", 1>>, <<"block", 1>>} /\ ~e.threw /\ e.sending # Nothing_
             \/ e.sending = Nothing_ /\ e.threw
  <2>u. F + 1 \in Nat
    BY <1>1
  <2>v. ASSUME NEW x \in {<<"crlf", 1>>, <<"block", 1>>}, NEW e \in U({x}, FALSE) PROVE G(e)
    <3>1. x \in Sending /\ x # Nothing_
      BY SendingHas
    <3>2. e.sending = x /\ e.threw = FALSE /\ e.forms = F + 1 /\ e.files = 2 /\ e.opened = 1 /\ e.isEnd = FALSE
      OBVIOUS
    <3>3. e \in Uploader
      <4>1. {F + 1} \subseteq Nat /\ {2} \subseteq Nat /\ {1} \subseteq Nat
        BY <2>u
      <4> QED BY <3>1, <4>1 DEF Uploader
    <3> QED BY <3>1, <3>2, <3>3
  <2>w. ASSUME NEW e \in U({Nothing_}, TRUE) PROVE G(e)
    <3>1. Nothing_ \in Sending
      BY SendingHas
    <3>2. e.sending = Nothing_ /\ e.threw = TRUE /\ e.forms = F + 1 /\ e.files = 2 /\ e.opened = 1 /\ e.isEnd = FALSE
      OBVIOUS
    <3>3. e \in Uploader
      <4>1. {F + 1} \subseteq Nat /\ {2} \subseteq Nat /\ {1} \subseteq Nat
        BY <2>u
      <4> QED BY <3>1, <4>1 DEF Uploader
    <3> QED BY <3>2, <3>3
  <2> HIDE DEF U
  <2>2. \A e \in {e1, e2, e3, e4} :
          /\ e \in Uploader /\ e.forms = F + 1 /\ e.files = 2 /\ e.opened = 1 /\ ~e.isEnd
          /\ \/ e.sending \in {<<"crlf", 1>>, <<"block", 1>>} /\ ~e.threw /\ e.sending # Nothing_
             \/ e.sending = Nothing_ /\ e.threw
    <3> HIDE DEF G
    <3>1. G(e1) /\ G(e2) /\ G(e3) /\ G(e4)
      BY <2>b, <2>c, <2>d, <2>e, <2>v, <2>w
    <3> QED BY <3>1 DEF G
  <2> HIDE DEF d
  <2>3. /\ d \in Uploader /\ d.forms = F + 1 /\ d.files = 2 /\ d.opened = 1 /\ ~d.isEnd
        /\ \/ d.sending \in {<<"crlf", 1>>, <<"block", 1>>} /\ ~d.threw /\ d.sending # Nothing_
           \/ d.sending = Nothing_ /\ d.threw
    BY <2>1, <2>2
  <2>4. CASE d.sending = Nothing_
    BY <1>1, <1>10, <2>3, <2>4 DEF ClientAt
  <2>5. CASE d.sending # Nothing_
    <3>1. ClientAt(request, d, q + 1)
      BY <1>1, <1>10, <2>3, <2>5 DEF ClientAt, Due
    <3> QED BY <2>5, <3>1
  <2> QED BY <2>4, <2>5
<1>11. q <= F \/ (q = F + 1 /\ n # 0) \/ (q > F /\ n <= 1 /\ q # F + 2 + n /\ (q = F + 1 => n = 0))
       \/ (n <= 1 /\ q = F + 2 + n) \/ (n > 1 /\ q >= F + 2)
  BY <1>1
<1>12. R
  BY <1>6, <1>7, <1>8, <1>9, <1>10, <1>11
<1> QED BY <1>12 DEF b

LEMMA UploadStep ==
  ASSUME request \in Uploads, UploadOK(request, client, sends), SendCallback_
  PROVE  UploadOK(request, client', sends')
<1> DEFINE x == client.sending
           m == Len(sends)
           s == Append(sends, x)
           c == [client EXCEPT !.sending = Nothing_]
           d == client'
<1>1. /\ sends \in Seq(Sending) /\ m \in Nat /\ x # Nothing_ /\ x \in Sending /\ x \in Due(request, m + 1)
      /\ \A i \in 1 .. m : sends[i] \in Due(request, i)
      /\ ClientAt(request, client, m + 1)
  BY DEF UploadOK, Begun, SendCallback_, ClientAt, Uploader
<1>2. sends' = s /\ d = IF Post THEN UploadData(c) ELSE c
  BY DEF SendCallback_
<1>3. s \in Seq(Sending) /\ Len(s) = m + 1 /\ \A i \in 1 .. m + 1 : s[i] \in Due(request, i)
  <2> HIDE DEF x
  <2>1. s \in Seq(Sending) /\ Len(s) = m + 1 /\ s[m + 1] = x /\ \A i \in 1 .. m : s[i] = sends[i]
    BY <1>1, AppendProperties
  <2> HIDE DEF s
  <2>2. \A i \in 1 .. m + 1 : i = m + 1 \/ i \in 1 .. m
    BY <1>1
  <2> QED BY <1>1, <2>1, <2>2
<1> HIDE DEF s, d
<1>4. ClientAt(request, d, IF d.sending = Nothing_ THEN m + 1 ELSE (m + 1) + 1)
  <2>1. CASE Post
    <3>1. m + 1 \in Nat /\ m + 1 >= 1
      BY <1>1
    <3> HIDE DEF m
    <3> QED BY <1>1, <1>2, <2>1, <3>1, UploadDataRight
  <2>2. CASE ~Post
    <3>1. Len(request.files) = 0 /\ request.forms = 0
      BY <2>2, UploadTypes DEF Post
    <3>2. /\ d \in Uploader /\ d.sending = Nothing_ /\ d.forms = client.forms /\ d.files = client.files
          /\ d.opened = client.opened /\ d.isEnd = client.isEnd /\ d.eof = client.eof /\ d.threw = client.threw
      BY <1>1, <1>2, <2>2 DEF ClientAt, Uploader, Sending
    <3> QED BY <1>1, <3>1, <3>2 DEF ClientAt, Total
  <2> QED BY <2>1, <2>2
<1>5. Begun(d, s) = IF d.sending = Nothing_ THEN m + 1 ELSE (m + 1) + 1
  BY <1>1, <1>3 DEF Begun
<1>6. Begun(d, s) >= 1
  BY <1>1, <1>5
<1> HIDE DEF m
<1> QED BY <1>2, <1>3, <1>4, <1>5, <1>6 DEF UploadOK, d

-----------------------------------------------------------------------------
(* The bytes of an answer.                                                 *)

LEMMA Cells ==
  /\ Digits \in Seq(Cell) /\ Len(Digits) = 9
  /\ \A n \in 1 .. 9 : Digits[n] \in Cell
  /\ {"head", "headend", "byte", "0", CCR, CLF} \subseteq Cell
BY DEF Digits, Cell

LEMMA DigitsDiffer ==
  /\ \A m, n \in 1 .. 9 : Digits[m] = Digits[n] => m = n
  /\ \A n \in 1 .. 9 : Digits[n] # "0" /\ Digits[n] # CCR
BY DEF Digits, CCR

LEMMA BytesMade ==
  ASSUME NEW n \in Nat
  PROVE  /\ [i \in 1 .. n |-> "byte"] \in Seq(Cell) /\ Len([i \in 1 .. n |-> "byte"]) = n
<1>1. "byte" \in Cell
  BY Cells
<1> QED BY <1>1

Joined(r, s, t) ==
  /\ Len(r) = Len(s) + Len(t) /\ \A i \in 1 .. Len(s) : r[i] = s[i]
  /\ \A i \in 1 .. Len(t) : r[Len(s) + i] = t[i]

LEMMA ConcatAt ==
  ASSUME NEW S, NEW s \in Seq(S), NEW t \in Seq(S)
  PROVE  s \o t \in Seq(S) /\ Joined(s \o t, s, t)
<1> DEFINE r == s \o t
           n == Len(s)
           m == Len(t)
<1>1. /\ r \in Seq(S) /\ Len(r) = n + m /\ n \in Nat /\ m \in Nat
      /\ \A i \in 1 .. n + m : r[i] = IF i <= n THEN s[i] ELSE t[i - n]
  BY ConcatProperties
<1> HIDE DEF r, n, m
<1>2. \A i \in 1 .. n : r[i] = s[i]
  BY <1>1
<1>3. ASSUME NEW i \in 1 .. m PROVE r[n + i] = t[i]
  <2>1. n + i \in 1 .. n + m /\ ~(n + i <= n) /\ (n + i) - n = i
    BY <1>1
  <2>2. r[n + i] = t[(n + i) - n]
    BY <1>1, <2>1
  <2> QED BY <2>1, <2>2
<1> QED BY <1>1, <1>2, <1>3 DEF Joined, r, n, m

LEMMA ChunkMade ==
  ASSUME NEW n \in 1 .. 9
  PROVE  /\ Chunk(n) \in Seq(Cell) /\ Len(Chunk(n)) = n + 5
         /\ Chunk(n)[1] = Digits[n] /\ Chunk(n)[2] = CCR /\ Chunk(n)[3] = CLF
         /\ \A j \in 1 .. n : Chunk(n)[3 + j] = "byte"
<1> DEFINE h == <<Digits[n], CCR, CLF>>
           d == [i \in 1 .. n |-> "byte"]
           e == <<CCR, CLF>>
           p == h \o d
           c == p \o e
<1>1. h \in Seq(Cell) /\ Len(h) = 3 /\ h[1] = Digits[n] /\ h[2] = CCR /\ h[3] = CLF
  BY Cells
<1>2. d \in Seq(Cell) /\ Len(d) = n /\ \A i \in 1 .. n : d[i] = "byte"
  BY BytesMade
<1>3. e \in Seq(Cell) /\ Len(e) = 2
  BY Cells
<1>c. Chunk(n) = c
  BY DEF Chunk
<1> HIDE DEF h, d, e
<1>a. h \in Seq(Cell) /\ d \in Seq(Cell)
  BY <1>1, <1>2
<1>4. p \in Seq(Cell) /\ Joined(p, h, d)
  BY <1>a, ConcatAt
<1> HIDE DEF p
<1>b. p \in Seq(Cell) /\ e \in Seq(Cell)
  BY <1>3, <1>4
<1>5. c \in Seq(Cell) /\ Joined(c, p, e)
  BY <1>b, ConcatAt
<1> HIDE DEF c
<1>6. Len(p) = n + 3
  BY <1>1, <1>2, <1>4 DEF Joined
<1>7. c \in Seq(Cell) /\ Len(c) = n + 5
  BY <1>3, <1>5, <1>6 DEF Joined
<1>8. \A i \in 1 .. 3 : c[i] = h[i]
  BY <1>1, <1>4, <1>5, <1>6 DEF Joined
<1>9. ASSUME NEW j \in 1 .. n PROVE c[3 + j] = "byte"
  <2>1. 3 + j \in 1 .. Len(p)
    BY <1>6
  <2>2. c[3 + j] = p[3 + j]
    BY <1>5, <2>1 DEF Joined
  <2>3. p[3 + j] = d[j]
    BY <1>1, <1>2, <1>4 DEF Joined
  <2> QED BY <1>2, <2>2, <2>3
<1> QED BY <1>1, <1>7, <1>8, <1>9, <1>c

LEMMA EndMade ==
  /\ EndBytes \in Seq(Cell) /\ Len(EndBytes) = 5
  /\ EndBytes[1] = "0" /\ EndBytes[2] = CCR /\ EndBytes[3] = CLF
BY Cells DEF EndBytes

LEMMA BodyTypes ==
  ASSUME NEW b \in Bodies
  PROVE  /\ b.chunked \in BOOLEAN /\ b.sizes \in Seq(1 .. 9) /\ Len(b.sizes) \in Nat
         /\ \A i \in 1 .. Len(b.sizes) : b.sizes[i] \in 1 .. 9
<1>1. b \in [chunked : BOOLEAN, sizes : Seq(1 .. 9)]
  BY UploadsAssumption
<1> DEFINE K == 1 .. 9
<1>2. b.chunked \in BOOLEAN /\ b.sizes \in Seq(K)
  BY <1>1
<1> HIDE DEF K
<1>3. Len(b.sizes) \in Nat /\ \A i \in 1 .. Len(b.sizes) : b.sizes[i] \in K
  BY <1>2
<1> QED BY <1>2, <1>3 DEF K

LEMMA BeforeNone ==
  ASSUME NEW b
  PROVE  Before(b, 0) = <<>>
<1>1. [i \in 1 .. 0 |-> Chunk(b.sizes[i])] = <<>>
  OBVIOUS
<1> QED BY <1>1 DEF Before, FlattenSeq

LEMMA BeforeNext ==
  ASSUME NEW b \in Bodies, NEW k \in 1 .. Len(b.sizes)
  PROVE  Before(b, k) = Before(b, k - 1) \o Chunk(b.sizes[k]) /\ Before(b, k) \in Seq(Cell)
<1> DEFINE r == [i \in 1 .. k |-> Chunk(b.sizes[i])]
           q == [i \in 1 .. k - 1 |-> Chunk(b.sizes[i])]
<1>1. k \in Nat /\ k > 0 /\ k - 1 \in Nat
  OBVIOUS
<1>2. \A i \in 1 .. k : b.sizes[i] \in 1 .. 9
  <2>1. \A i \in 1 .. k : i \in 1 .. Len(b.sizes)
    OBVIOUS
  <2> QED BY <2>1, BodyTypes
<1>3. \A i \in 1 .. k : r[i] \in Seq(Cell)
  BY <1>2, ChunkMade
<1>4. Len(r) = k /\ Len(q) = k - 1 /\ (\A i \in 1 .. k - 1 : q[i] = r[i]) /\ r[k] = Chunk(b.sizes[k])
  BY <1>1
<1>5. q = <<>> \/ k # 1
  <2>1. k = 1 => 1 .. k - 1 = {}
    OBVIOUS
  <2> QED BY <2>1
<1>6. FlattenSeq(r) = Before(b, k) /\ FlattenSeq(q) = Before(b, k - 1)
  BY DEF Before
<1> HIDE DEF r, q
<1>7. FlattenSeq(r) = FlattenSeq(q) \o r[k] /\ FlattenSeq(r) \in Seq(Cell)
  <2>1. OneMore(Cell, q, r, k)
    BY <1>1, <1>3, <1>4, <1>5 DEF OneMore
  <2> QED BY <2>1, FlattenNext
<1> QED BY <1>4, <1>6, <1>7

LEMMA BeforeMade ==
  ASSUME NEW b \in Bodies, NEW k \in 0 .. Len(b.sizes)
  PROVE  Before(b, k) \in Seq(Cell)
<1>1. CASE k = 0
  BY <1>1, BeforeNone, EmptySeq
<1>2. CASE k # 0
  <2>1. k \in 1 .. Len(b.sizes)
    BY <1>2, BodyTypes
  <2> QED BY <2>1, BeforeNext
<1> QED BY <1>1, <1>2

\* The first chunks are a part of more of them.
LEMMA BeforePart ==
  ASSUME NEW b \in Bodies, NEW k \in Nat, NEW m \in Nat, k <= m, m <= Len(b.sizes)
  PROVE  \E rest \in Seq(Cell) : Before(b, m) = Before(b, k) \o rest
<1> DEFINE T == {i \in k .. m : ~\E rest \in Seq(Cell) : Before(b, i) = Before(b, k) \o rest}
<1>0. Len(b.sizes) \in Nat
  BY BodyTypes
<1>1. SUFFICES ASSUME T # {} PROVE FALSE
  <2>1. m \in k .. m
    OBVIOUS
  <2> QED BY <1>1, <2>1
<1>a. m \in Nat /\ k \in Nat /\ k <= m /\ m <= Len(b.sizes)
  OBVIOUS
<1>2. PICK i \in T : \A j \in T : i <= j
  <2>1. T \in SUBSET Nat
    OBVIOUS
  <2> HIDE DEF T
  <2> QED BY <1>1, <2>1, LeastNumber
<1>3. CASE i = k
  <2>1. Before(b, k) \in Seq(Cell)
    BY <1>0, BeforeMade
  <2>2. Before(b, k) = Before(b, k) \o <<>> /\ <<>> \in Seq(Cell)
    BY <2>1, ConcatEmptySeq
  <2> QED BY <1>2, <1>3, <2>2
<1>4. CASE i # k
  <2>1. i \in 1 .. Len(b.sizes) /\ i - 1 \in k .. m /\ i - 1 < i /\ ~(i <= i - 1) /\ k \in 0 .. Len(b.sizes)
    BY <1>0, <1>2, <1>4, <1>a
  <2>a. i - 1 \notin T
    BY <1>2, <2>1
  <2>2. PICK rest \in Seq(Cell) : Before(b, i - 1) = Before(b, k) \o rest
    BY <2>1, <2>a
  <2> DEFINE c == Chunk(b.sizes[i])
             u == Before(b, k)
  <2>3. Before(b, i) = Before(b, i - 1) \o c
    BY <2>1, BeforeNext
  <2>b. c \in Seq(Cell)
    <3>1. b.sizes[i] \in 1 .. 9
      BY <2>1, BodyTypes
    <3> QED BY <3>1, ChunkMade
  <2>c. u \in Seq(Cell)
    BY <2>1, BeforeMade
  <2> HIDE DEF c, u
  <2>d. (u \o rest) \o c = u \o (rest \o c)
    BY <2>2, <2>b, <2>c, ConcatAssociative
  <2>e. rest \o c \in Seq(Cell)
    BY <2>2, <2>b, ConcatProperties
  <2>4. Before(b, i) = u \o (rest \o c)
    BY <2>2, <2>3, <2>d DEF u
  <2> QED BY <1>2, <2>4, <2>e DEF u
<1> QED BY <1>3, <1>4

\* Chunk k + 1 of a body is where Start says.
ChunkAt(b, k) ==
  /\ Start(b, k + 1) = Start(b, k) + b.sizes[k + 1] + 5 /\ Start(b, k + 1) + 5 <= Len(Answered(b))
  /\ \A j \in 1 .. b.sizes[k + 1] + 5 : Answered(b)[Start(b, k) + j] = Chunk(b.sizes[k + 1])[j]

LEMMA AnswerBytes ==
  ASSUME NEW b \in Bodies
  PROVE  /\ BodyBytes(b) \in Seq(Cell) /\ Answered(b) \in Seq(Cell) /\ Len(Answered(b)) = Len(BodyBytes(b)) + 2
         /\ \A j \in 1 .. Len(BodyBytes(b)) : Answered(b)[2 + j] = BodyBytes(b)[j]
         /\ b.chunked => BodyBytes(b) = Before(b, Len(b.sizes)) \o EndBytes
<1> DEFINE h == <<"head", "headend">>
           B == BodyBytes(b)
<1>1. h \in Seq(Cell) /\ Len(h) = 2
  BY Cells
<1>2. b.chunked => B = Before(b, Len(b.sizes)) \o EndBytes
  <2>1. DOMAIN b.sizes = 1 .. Len(b.sizes)
    BY BodyTypes
  <2> QED BY <2>1 DEF BodyBytes, Before, EndBytes
<1>3. B \in Seq(Cell)
  <2>1. CASE b.chunked
    <3>1. Before(b, Len(b.sizes)) \in Seq(Cell)
      <4>1. Len(b.sizes) \in 0 .. Len(b.sizes)
        BY BodyTypes
      <4> QED BY <4>1, BeforeMade
    <3> QED BY <1>2, <2>1, <3>1, EndMade, ConcatProperties
  <2>2. CASE ~b.chunked
    <3> DEFINE n == IF b.sizes = <<>> THEN 0 ELSE b.sizes[1]
    <3>1. n \in Nat
      <4>1. b.sizes # <<>> => 1 \in 1 .. Len(b.sizes)
        BY BodyTypes, EmptySeq
      <4> QED BY <4>1, BodyTypes
    <3>2. B = [i \in 1 .. n |-> "byte"]
      BY <2>2 DEF BodyBytes
    <3> HIDE DEF n, B
    <3> QED BY <3>1, <3>2, BytesMade
  <2> QED BY <2>1, <2>2
<1>4. Answered(b) = h \o B
  BY DEF Answered
<1> HIDE DEF h, B
<1>a. h \in Seq(Cell) /\ B \in Seq(Cell)
  BY <1>1, <1>3
<1>5. h \o B \in Seq(Cell) /\ Joined(h \o B, h, B)
  BY <1>a, ConcatAt
<1>6. Len(B) \in Nat
  BY <1>3
<1>7. /\ Answered(b) \in Seq(Cell) /\ Len(Answered(b)) = Len(B) + 2
      /\ \A j \in 1 .. Len(B) : Answered(b)[2 + j] = B[j]
  BY <1>1, <1>4, <1>5, <1>6 DEF Joined
<1> QED BY <1>2, <1>3, <1>7 DEF B

LEMMA ChunksShape ==
  ASSUME NEW b \in Bodies, b.chunked
  PROVE  /\ Start(b, 0) = 2 /\ Len(Answered(b)) = Start(b, Len(b.sizes)) + 5
         /\ \A k \in 0 .. Len(b.sizes) : Start(b, k) \in Nat /\ Start(b, k) >= 2
         /\ \A j \in 1 .. 5 : Answered(b)[Start(b, Len(b.sizes)) + j] = EndBytes[j]
         /\ \A k \in Nat : k < Len(b.sizes) => ChunkAt(b, k)
<1> DEFINE n == Len(b.sizes)
           A == Answered(b)
           B == BodyBytes(b)
           p == Before(b, n)
<1>1. n \in Nat /\ n \in 0 .. n
  BY BodyTypes
<1>2. \A k \in 0 .. n : Before(b, k) \in Seq(Cell) /\ Len(Before(b, k)) \in Nat
  BY BeforeMade
<1>3. Start(b, 0) = 2
  BY BeforeNone, EmptySeq DEF Start
<1>4. \A k \in 0 .. n : Start(b, k) = 2 + Len(Before(b, k)) /\ Start(b, k) \in Nat /\ Start(b, k) >= 2
  BY <1>2 DEF Start
<1>5. /\ B = p \o EndBytes /\ p \in Seq(Cell) /\ Len(p) \in Nat
      /\ B \in Seq(Cell) /\ Len(A) = Len(B) + 2 /\ \A j \in 1 .. Len(B) : A[2 + j] = B[j]
  BY <1>1, <1>2, AnswerBytes
<1>a. p \in Seq(Cell) /\ EndBytes \in Seq(Cell) /\ Len(EndBytes) = 5
  BY <1>5, EndMade
<1> HIDE DEF p
<1>b. Joined(p \o EndBytes, p, EndBytes)
  BY <1>a, ConcatAt
<1>6. /\ Len(p \o EndBytes) = Len(p) + 5
      /\ \A i \in 1 .. Len(p) : (p \o EndBytes)[i] = p[i]
      /\ \A i \in 1 .. 5 : (p \o EndBytes)[Len(p) + i] = EndBytes[i]
  BY <1>a, <1>b DEF Joined
<1>7. /\ Len(B) = Len(p) + 5 /\ (\A i \in 1 .. Len(p) : B[i] = p[i])
      /\ \A i \in 1 .. 5 : B[Len(p) + i] = EndBytes[i]
  BY <1>5, <1>6
<1>8. Start(b, n) = 2 + Len(p)
  BY <1>1, <1>4 DEF p
<1> HIDE DEF A, B, p, n
<1>9. Len(A) = Start(b, n) + 5
  BY <1>5, <1>7, <1>8
<1>10. ASSUME NEW j \in 1 .. 5 PROVE A[Start(b, n) + j] = EndBytes[j]
  <2>1. Len(p) + j \in 1 .. Len(B) /\ Start(b, n) + j = 2 + (Len(p) + j)
    BY <1>5, <1>7, <1>8
  <2>2. A[2 + (Len(p) + j)] = B[Len(p) + j]
    BY <1>5, <2>1
  <2> QED BY <1>7, <2>1, <2>2
<1>11. ASSUME NEW k \in Nat, k < n PROVE ChunkAt(b, k)
  <2> DEFINE u == Before(b, k)
             c == Chunk(b.sizes[k + 1])
             s == b.sizes[k + 1]
             w == Before(b, k + 1)
  <2>1. k \in 0 .. n /\ k + 1 \in 0 .. n /\ k + 1 \in 1 .. n /\ (k + 1) - 1 = k
    BY <1>1, <1>11
  <2>2. w = u \o c
    <3>1. k + 1 \in 1 .. Len(b.sizes)
      BY <2>1 DEF n
    <3>2. w = Before(b, (k + 1) - 1) \o c
      BY <3>1, BeforeNext
    <3> QED BY <2>1, <3>2
  <2>3. s \in 1 .. 9
    BY <2>1, BodyTypes DEF n
  <2>4. c \in Seq(Cell) /\ Len(c) = s + 5
    BY <2>3, ChunkMade
  <2>5. PICK rest \in Seq(Cell) : p = w \o rest
    <3> DEFINE i == k + 1
    <3>1. i \in Nat /\ n \in Nat /\ i <= n /\ n <= Len(b.sizes)
      BY <1>1, <2>1 DEF n
    <3> HIDE DEF i
    <3>2. \E rest \in Seq(Cell) : Before(b, n) = Before(b, i) \o rest
      BY <3>1, BeforePart
    <3> QED BY <3>2 DEF p, i
  <2>6. u \in Seq(Cell) /\ w \in Seq(Cell) /\ Len(u) \in Nat /\ Len(w) \in Nat
    BY <1>2, <2>1
  <2>7. Start(b, k) = 2 + Len(u) /\ Start(b, k + 1) = 2 + Len(w)
    BY <1>4, <2>1
  <2> HIDE DEF u, c, s, w
  <2>a. u \in Seq(Cell) /\ w \in Seq(Cell) /\ c \in Seq(Cell) /\ rest \in Seq(Cell)
    BY <2>4, <2>5, <2>6
  <2>8. Joined(u \o c, u, c)
    BY <2>a, ConcatAt
  <2>9. Joined(w \o rest, w, rest)
    BY <2>a, ConcatAt
  <2>10. Len(w) = Len(u) + s + 5 /\ Len(w) <= Len(p) /\ (\A i \in 1 .. Len(w) : p[i] = w[i])
         /\ \A i \in 1 .. s + 5 : w[Len(u) + i] = c[i]
    <3>1. Len(rest) \in Nat
      BY <2>5
    <3>2. Len(w) = Len(u) + s + 5 /\ \A i \in 1 .. s + 5 : w[Len(u) + i] = c[i]
      BY <2>2, <2>3, <2>4, <2>6, <2>8 DEF Joined
    <3>3. Len(p) = Len(w) + Len(rest) /\ \A i \in 1 .. Len(w) : p[i] = w[i]
      BY <2>5, <2>9 DEF Joined
    <3> QED BY <2>6, <3>1, <3>2, <3>3
  <2>11. ASSUME NEW j \in 1 .. s + 5 PROVE A[Start(b, k) + j] = c[j]
    <3>0. Len(p) \in Nat /\ Len(w) = Len(u) + s + 5 /\ Len(w) <= Len(p) /\ Len(B) = Len(p) + 5
          /\ Len(u) \in Nat /\ s \in 1 .. 9 /\ Start(b, k) = 2 + Len(u)
      BY <1>5, <1>7, <2>3, <2>6, <2>7, <2>10
    <3>1. Len(u) + j \in 1 .. Len(w) /\ Len(u) + j \in 1 .. Len(p) /\ Len(u) + j \in 1 .. Len(B)
          /\ Start(b, k) + j = 2 + (Len(u) + j)
      BY <3>0
    <3>2. A[2 + (Len(u) + j)] = B[Len(u) + j]
      BY <1>5, <3>1
    <3>3. B[Len(u) + j] = p[Len(u) + j] /\ p[Len(u) + j] = w[Len(u) + j]
      BY <1>7, <2>10, <3>1
    <3> QED BY <2>10, <3>1, <3>2, <3>3
  <2>12. Start(b, k + 1) = Start(b, k) + s + 5 /\ Start(b, k + 1) + 5 <= Len(A)
    BY <1>5, <1>8, <1>9, <2>3, <2>6, <2>7, <2>10
  <2> QED BY <2>11, <2>12 DEF ChunkAt, A, s, c
<1> QED BY <1>3, <1>4, <1>9, <1>10, <1>11 DEF n, A

LEMMA PartsMade ==
  ASSUME NEW b \in Bodies
  PROVE  /\ Parts(b) \in Seq(Seq(Cell))
         /\ Len(Parts(b)) = (IF b.chunked THEN Len(b.sizes) ELSE 0) + 1
         /\ b.chunked => /\ \A i \in 1 .. Len(b.sizes) : Parts(b)[i] = [j \in 1 .. b.sizes[i] |-> "byte"]
                         /\ Parts(b)[Len(b.sizes) + 1] = <<>>
         /\ ~b.chunked => Parts(b)[1] = BodyBytes(b)
<1> DEFINE S == Seq(Cell)
           n == Len(b.sizes)
<1>1. CASE b.chunked
  <2> DEFINE s == [i \in 1 .. n |-> [j \in 1 .. b.sizes[i] |-> "byte"]]
             t == <<<<>>>>
  <2>1. n \in Nat /\ DOMAIN b.sizes = 1 .. n
    BY BodyTypes
  <2>2. \A i \in 1 .. n : [j \in 1 .. b.sizes[i] |-> "byte"] \in S
    <3>1. \A i \in 1 .. n : b.sizes[i] \in Nat
      BY BodyTypes
    <3> QED BY <3>1, BytesMade
  <2>3. t \in Seq(S) /\ Len(t) = 1 /\ t[1] = <<>>
    BY EmptySeq
  <2>4. s \in Seq(S) /\ Len(s) = n /\ \A i \in 1 .. n : s[i] = [j \in 1 .. b.sizes[i] |-> "byte"]
    <3> DEFINE e(i) == [j \in 1 .. b.sizes[i] |-> "byte"]
    <3>1. s = [i \in 1 .. n |-> e(i)] /\ \A i \in 1 .. n : e(i) \in S
      BY <2>2
    <3> HIDE DEF S, n, e
    <3>2. [i \in 1 .. n |-> e(i)] \in Seq(S) /\ Len([i \in 1 .. n |-> e(i)]) = n
      BY <2>1, <3>1
    <3>3. \A i \in 1 .. n : [k \in 1 .. n |-> e(k)][i] = e(i)
      OBVIOUS
    <3> QED BY <3>1, <3>2, <3>3 DEF e
  <2>5. Parts(b) = s \o t
    BY <1>1, <2>1 DEF Parts
  <2> HIDE DEF s, t, S
  <2>a. s \in Seq(S) /\ t \in Seq(S)
    BY <2>3, <2>4
  <2>6. s \o t \in Seq(S) /\ Joined(s \o t, s, t)
    BY <2>a, ConcatAt
  <2>7. Parts(b) \in Seq(S) /\ Len(Parts(b)) = n + 1 /\ (\A i \in 1 .. n : Parts(b)[i] = s[i])
        /\ Parts(b)[n + 1] = t[1]
    BY <2>1, <2>3, <2>4, <2>5, <2>6 DEF Joined
  <2> QED BY <1>1, <2>3, <2>4, <2>7 DEF S
<1>2. CASE ~b.chunked
  <2>1. Parts(b) = <<BodyBytes(b)>> /\ BodyBytes(b) \in Seq(Cell)
    BY <1>2, AnswerBytes DEF Parts
  <2> HIDE DEF S
  <2>2. BodyBytes(b) \in S
    BY <2>1 DEF S
  <2>3. Parts(b) \in Seq(S) /\ Len(Parts(b)) = 1 /\ Parts(b)[1] = BodyBytes(b)
    BY <2>1, <2>2
  <2> QED BY <1>2, <2>3 DEF S
<1> QED BY <1>1, <1>2, BodyTypes
-----------------------------------------------------------------------------
(* The reader.                                                             *)

Slice(u, t, i, n) == Len(u) = n /\ \A j \in 1 .. n : u[j] = t[i + j]

LEMMA SliceMade ==
  ASSUME NEW S, NEW t \in Seq(S), NEW i \in Nat, NEW n \in Nat, i + n <= Len(t)
  PROVE  SubSeq(t, i + 1, i + n) \in Seq(S) /\ Slice(SubSeq(t, i + 1, i + n), t, i, n)
<1> DEFINE a == i + 1
           b == i + n
           u == SubSeq(t, a, b)
           k == Len(t)
<1>1. k \in Nat /\ \A j \in 1 .. k : t[j] \in S
  OBVIOUS
<1>2. a \in Int /\ b \in Int /\ a >= 1 /\ b <= k /\ b - a + 1 = n /\ (a <= b <=> n # 0)
      /\ \A j \in 1 .. n : a + j - 1 = i + j
  OBVIOUS
<1> HIDE DEF a, b, k
<1>3. \A j \in a .. b : t[j] \in S
  BY <1>1, <1>2
<1>4. /\ u \in Seq(S) /\ Len(u) = IF a <= b THEN b - a + 1 ELSE 0
      /\ \A j \in 1 .. b - a + 1 : u[j] = t[a + j - 1]
  BY <1>2, <1>3, SubSeqProperties
<1> HIDE DEF u
<1>5. Len(u) = n
  BY <1>2, <1>4
<1>6. \A j \in 1 .. n : u[j] = t[i + j]
  BY <1>2, <1>4
<1> QED BY <1>4, <1>5, <1>6 DEF Slice, u, a, b

\* More of the answer fills the buffer further.
LEMMA FillMore ==
  ASSUME NEW b \in Bodies, NEW n \in Nat, NEW m \in Nat, n + m <= Len(Answered(b)),
         NEW v \in Seq(Cell), NEW p \in Nat, Filled(b, n, v, p)
  PROVE  /\ v \o SubSeq(Answered(b), n + 1, n + m) \in Seq(Cell)
         /\ Filled(b, n + m, v \o SubSeq(Answered(b), n + 1, n + m), p)
<1> DEFINE A == Answered(b)
           u == SubSeq(A, n + 1, n + m)
           w == v \o u
<1>1. A \in Seq(Cell)
  BY AnswerBytes
<1>2. p <= n /\ Len(v) = n - p /\ \A j \in 1 .. Len(v) : v[j] = A[p + j]
  BY DEF Filled
<1>3. n \in Nat /\ m \in Nat /\ p \in Nat /\ n + m <= Len(A)
  OBVIOUS
<1> HIDE DEF A
<1>4. u \in Seq(Cell) /\ Slice(u, A, n, m)
  BY <1>1, <1>3, SliceMade
<1> HIDE DEF u
<1>5. v \in Seq(Cell) /\ u \in Seq(Cell)
  BY <1>4
<1>6. w \in Seq(Cell) /\ Joined(w, v, u)
  BY <1>5, ConcatAt
<1> HIDE DEF w
<1>7. Len(w) = (n + m) - p
  BY <1>2, <1>3, <1>4, <1>6 DEF Joined, Slice
<1>8. ASSUME NEW j \in 1 .. Len(w) PROVE w[j] = A[p + j]
  <2>1. CASE j <= n - p
    <3>1. j \in 1 .. Len(v)
      BY <1>2, <1>3, <1>7, <2>1
    <3> QED BY <1>2, <1>6, <3>1 DEF Joined
  <2>2. CASE j > n - p
    <3> DEFINE i == j - (n - p)
    <3>1. i \in 1 .. m /\ j = Len(v) + i /\ n + i = p + j
      BY <1>2, <1>3, <1>7, <2>2
    <3> HIDE DEF i
    <3>2. w[Len(v) + i] = u[i] /\ u[i] = A[n + i]
      BY <1>4, <1>6, <3>1 DEF Joined, Slice
    <3> QED BY <3>1, <3>2
  <2> QED BY <1>2, <1>3, <1>7, <2>1, <2>2
<1>9. p <= n + m
  BY <1>2, <1>3
<1> QED BY <1>6, <1>7, <1>8, <1>9 DEF Filled, w, u, A

\* What a reader is.
Reads(v, buffer, pos, len, need, wants) ==
  /\ v \in Reader /\ v.buffer = buffer /\ v.pos = pos /\ v.len = len /\ v.need = need /\ v.wants = wants

LEMMA ReaderTypes ==
  ASSUME NEW v \in Reader
  PROVE  /\ v.buffer \in Seq(Cell) /\ Len(v.buffer) \in Nat /\ v.pos \in Nat /\ v.len \in Nat /\ v.need \in Int
         /\ v.taken \in BOOLEAN /\ v.wants \in {"head", "some", "exactly", "resumed", "done"}
         /\ Reads(v, v.buffer, v.pos, v.len, v.need, v.wants)
<1>1. /\ v.buffer \in Seq(Cell) /\ v.pos \in Nat /\ v.len \in Nat /\ v.need \in Int
      /\ v.taken \in BOOLEAN /\ v.wants \in {"head", "some", "exactly", "resumed", "done"}
  BY DEF Reader
<1>2. Len(v.buffer) \in Nat
  BY <1>1
<1> QED BY <1>1, <1>2 DEF Reads

LEMMA ReaderMade ==
  ASSUME NEW buffer \in Seq(Cell), NEW pos \in Nat, NEW len \in Nat, NEW need \in Int,
         NEW wants \in {"head", "some", "exactly", "resumed", "done"},
         NEW v \in [buffer : {buffer}, taken : BOOLEAN, pos : {pos}, len : {len}, need : {need}, wants : {wants}]
  PROVE  Reads(v, buffer, pos, len, need, wants)
<1>1. v.buffer = buffer /\ v.pos = pos /\ v.len = len /\ v.need = need /\ v.wants = wants
  OBVIOUS
<1>2. v \in Reader
  <2>1. {buffer} \subseteq Seq(Cell) /\ {pos} \subseteq Nat /\ {len} \subseteq Nat /\ {need} \subseteq Int
        /\ {wants} \subseteq {"head", "some", "exactly", "resumed", "done"}
    OBVIOUS
  <2> DEFINE S == Seq(Cell)
  <2>2. {buffer} \subseteq S
    BY <2>1
  <2> HIDE DEF S
  <2>3. v \in [buffer : S, taken : BOOLEAN, pos : Nat, len : Nat, need : Int,
               wants : {"head", "some", "exactly", "resumed", "done"}]
    BY <2>1, <2>2
  <2> QED BY <2>3 DEF Reader, S
<1> QED BY <1>1, <1>2 DEF Reads

\* Where the parts of an answer are, whether it is cut into chunks or not.
LEMMA Starts ==
  ASSUME NEW b \in Bodies, NEW k \in Nat, k <= (IF b.chunked THEN Len(b.sizes) ELSE 0)
  PROVE  /\ Start(b, k) \in Nat /\ Start(b, k) >= 2 /\ Start(b, 0) = 2
         /\ Len(Answered(b)) \in Nat /\ Start(b, k) <= Len(Answered(b))
         /\ b.chunked => Start(b, k) + 5 <= Len(Answered(b))
<1>1. Len(Answered(b)) \in Nat /\ Len(BodyBytes(b)) \in Nat /\ Len(Answered(b)) = Len(BodyBytes(b)) + 2
  BY AnswerBytes
<1>2. CASE b.chunked
  <2>1. Len(b.sizes) \in Nat /\ k \in 0 .. Len(b.sizes)
    BY <1>2, BodyTypes
  <2>2. Start(b, 0) = 2 /\ Start(b, k) \in Nat /\ Start(b, k) >= 2 /\ Len(Answered(b)) = Start(b, Len(b.sizes)) + 5
    BY <1>2, <2>1, ChunksShape
  <2>3. Start(b, k) + 5 <= Len(Answered(b))
    <3>1. CASE k = Len(b.sizes)
      BY <1>1, <2>2, <3>1
    <3>2. CASE k # Len(b.sizes)
      <4>1. k < Len(b.sizes) /\ k + 1 \in 0 .. Len(b.sizes) /\ k + 1 \in 1 .. Len(b.sizes)
        BY <2>1, <3>2
      <4>2. ChunkAt(b, k) /\ Start(b, k + 1) \in Nat
        BY <1>2, <4>1, ChunksShape
      <4>3. b.sizes[k + 1] \in 1 .. 9
        BY <4>1, BodyTypes
      <4> DEFINE s == b.sizes[k + 1]
                 t == Start(b, k + 1)
      <4>4. t = Start(b, k) + s + 5 /\ t + 5 <= Len(Answered(b)) /\ s \in 1 .. 9 /\ t \in Nat
        BY <4>2, <4>3 DEF ChunkAt
      <4> HIDE DEF s, t
      <4> QED BY <1>1, <2>2, <4>4
    <3> QED BY <3>1, <3>2
  <2> QED BY <1>1, <2>2, <2>3
<1>3. CASE ~b.chunked
  BY <1>1, <1>3 DEF Start
<1> QED BY <1>2, <1>3

\* The part that is next begins with its size, a line end behind it.
NextPart(b, k, buffer) ==
  /\ Len(buffer) >= 1 => buffer[1] = (IF k < Len(b.sizes) THEN Digits[b.sizes[k + 1]] ELSE "0")
  /\ Len(buffer) >= 2 => buffer[2] = CCR
  /\ Len(buffer) >= 3 => buffer[3] = CLF

LEMMA PartBegins ==
  ASSUME NEW b \in Bodies, b.chunked, NEW n \in Nat, NEW k \in Nat, k <= Len(b.sizes),
         NEW v, Len(v) \in Nat, Filled(b, n, v, Start(b, k))
  PROVE  NextPart(b, k, v)
<1> DEFINE A == Answered(b)
           s == Start(b, k)
<1>1. Len(b.sizes) \in Nat /\ Len(v) \in Nat /\ \A j \in 1 .. Len(v) : v[j] = A[s + j]
  BY BodyTypes DEF Filled
<1>2. /\ A[s + 1] = (IF k < Len(b.sizes) THEN Digits[b.sizes[k + 1]] ELSE "0")
      /\ A[s + 2] = CCR /\ A[s + 3] = CLF
  <2>1. CASE k < Len(b.sizes)
    <3> DEFINE z == b.sizes[k + 1]
    <3>1. k + 1 \in 1 .. Len(b.sizes)
      BY <1>1, <2>1
    <3>2. z \in 1 .. 9
      BY <3>1, BodyTypes
    <3>3. \A j \in 1 .. z + 5 : A[s + j] = Chunk(z)[j]
      BY <2>1, ChunksShape DEF ChunkAt
    <3> HIDE DEF z, A, s
    <3>4. Chunk(z)[1] = Digits[z] /\ Chunk(z)[2] = CCR /\ Chunk(z)[3] = CLF
      BY <3>2, ChunkMade
    <3>5. 1 \in 1 .. z + 5 /\ 2 \in 1 .. z + 5 /\ 3 \in 1 .. z + 5
      BY <3>2
    <3> QED BY <2>1, <3>3, <3>4, <3>5 DEF z
  <2>2. CASE ~(k < Len(b.sizes))
    <3>1. k = Len(b.sizes)
      BY <1>1, <2>2
    <3>2. \A j \in 1 .. 5 : A[s + j] = EndBytes[j]
      BY <3>1, ChunksShape
    <3> HIDE DEF A, s
    <3> QED BY <2>2, <3>2, EndMade
  <2> QED BY <2>1, <2>2
<1> HIDE DEF A, s
<1> QED BY <1>1, <1>2 DEF NextPart
-----------------------------------------------------------------------------
(* The steps of the reader.                                                *)

AnswerStep == answer' = answer /\ AnswerOK(answer, arrived', response', bodies')

LEMMA RecvHeadStep ==
  ASSUME answer \in Bodies, AnswerOK(answer, arrived, response, bodies), NEW n, RecvHead(n)
  PROVE  AnswerStep
<1> DEFINE A == Answered(answer)
           B == SubSeq(A, 3, arrived')
           v == response'
           a == arrived'
<1>1. /\ response.wants = "head" /\ n \in 1 .. (Len(A) - arrived) /\ a = arrived + n
      /\ v = (IF a >= 2 THEN [response EXCEPT !.wants = "resumed", !.buffer = B] ELSE response)
      /\ answer' = answer /\ bodies' = bodies
  BY DEF RecvHead
<1>2. response \in Reader /\ arrived \in 0 .. Len(A) /\ bodies = <<>> /\ response.len = 0 /\ Returned(answer, bodies)
  BY <1>1 DEF AnswerOK
<1>3. Len(A) \in Nat /\ A \in Seq(Cell) /\ Start(answer, 0) = 2
  <2>1. 0 \in Nat /\ 0 <= (IF answer.chunked THEN Len(answer.sizes) ELSE 0)
    BY BodyTypes
  <2> QED BY <2>1, Starts, AnswerBytes
<1> HIDE DEF A, a, v
<1>4. a \in Nat /\ a \in 0 .. Len(A)
  BY <1>1, <1>2, <1>3
<1>5. CASE a < 2
  <2>1. v = response /\ v.wants = "head"
    BY <1>1, <1>4, <1>5
  <2>2. AnswerOK(answer, a, v, bodies)
    BY <1>2, <1>4, <1>5, <2>1 DEF AnswerOK, A
  <2> QED BY <1>1, <2>2 DEF AnswerStep, a, v
<1>6. CASE a >= 2
  <2> DEFINE m == a - 2
  <2>1. m \in Nat /\ 2 + m = a /\ 2 + m <= Len(A) /\ 2 \in Nat
    BY <1>3, <1>4, <1>6
  <2> HIDE DEF m
  <2>2. SubSeq(A, 2 + 1, 2 + m) \in Seq(Cell) /\ Slice(SubSeq(A, 2 + 1, 2 + m), A, 2, m)
    BY <1>3, <2>1, SliceMade
  <2>3. B \in Seq(Cell) /\ Slice(B, A, 2, m)
    BY <2>1, <2>2 DEF a
  <2> HIDE DEF B
  <2>4. Reads(v, B, response.pos, 0, response.need, "resumed")
    <3>1. v \in [buffer : {B}, taken : BOOLEAN, pos : {response.pos}, len : {0}, need : {response.need}, wants : {"resumed"}]
      BY <1>1, <1>2, <1>6 DEF Reader
    <3>2. response.pos \in Nat /\ response.need \in Int
      BY <1>2, ReaderTypes
    <3> QED BY <2>3, <3>1, <3>2, ReaderMade
  <2>5. Filled(answer, a, B, 2)
    BY <1>4, <1>6, <2>1, <2>3 DEF Filled, Slice, A
  <2>6. InBody(answer, a, v, 0)
    <3>1. 0 <= (IF answer.chunked THEN Len(answer.sizes) ELSE 0)
      BY BodyTypes
    <3> QED BY <1>3, <1>6, <2>4, <2>5, <3>1 DEF InBody, Reads
  <2>7. Len(bodies) = 0
    BY <1>2, EmptySeq
  <2>8. AnswerOK(answer, a, v, bodies)
    BY <1>2, <1>4, <2>4, <2>6, <2>7 DEF AnswerOK, Reads, A
  <2> QED BY <1>1, <2>8 DEF AnswerStep, a, v
<1> QED BY <1>4, <1>5, <1>6

\* The bytes that are waited for come.
LEMMA RecvMoreStep ==
  ASSUME answer \in Bodies, AnswerOK(answer, arrived, response, bodies), NEW n \in Nat,
         response.wants \in {"some", "exactly"}, arrived + n <= Len(Answered(answer)),
         arrived' = arrived + n, answer' = answer, bodies' = bodies,
         response' = [response EXCEPT !.buffer = @ \o SubSeq(Answered(answer), arrived + 1, arrived + n),
                                      !.wants = "resumed"],
         response.len # 0 => Len(response.buffer) >= 3
  PROVE  AnswerStep
<1> DEFINE A == Answered(answer)
           B == response.buffer \o SubSeq(A, arrived + 1, arrived + n)
           v == response'
           a == arrived'
           k == Len(bodies)
           p == Start(answer, k)
<1>1. response \in Reader /\ arrived \in 0 .. Len(A) /\ InBody(answer, arrived, response, k) /\ Returned(answer, bodies)
  BY DEF AnswerOK
<1>2. k \in Nat
  BY <1>1 DEF Returned
<1>3. k <= (IF answer.chunked THEN Len(answer.sizes) ELSE 0) /\ arrived >= 2 /\ Filled(answer, arrived, response.buffer, p)
      /\ (response.len # 0 => /\ answer.chunked /\ k < Len(answer.sizes) /\ response.len = answer.sizes[k + 1] + 2
                              /\ response.pos = 3 /\ Len(response.buffer) >= 3)
  BY <1>1 DEF InBody
<1> HIDE DEF k
<1>4. p \in Nat /\ Len(A) \in Nat
  BY <1>2, <1>3, Starts
<1>5. arrived \in Nat /\ a = arrived + n /\ a \in 0 .. Len(A) /\ arrived + n <= Len(A)
  BY <1>1, <1>4
<1> HIDE DEF p
<1>6. B \in Seq(Cell) /\ Filled(answer, arrived + n, B, p)
  <2>1. response.buffer \in Seq(Cell)
    BY <1>1, ReaderTypes
  <2> QED BY <1>3, <1>4, <1>5, <2>1, FillMore
<1>7. Len(response.buffer) \in Nat /\ Len(B) >= Len(response.buffer)
  <2>1. Len(B) = (arrived + n) - p /\ Len(response.buffer) = arrived - p
    BY <1>3, <1>6 DEF Filled
  <2> HIDE DEF B
  <2>2. Len(response.buffer) \in Nat
    BY <1>1, ReaderTypes
  <2> QED BY <1>4, <1>5, <2>1, <2>2
<1> HIDE DEF B
<1>8. Reads(v, B, response.pos, response.len, response.need, "resumed")
  <2>1. v \in [buffer : {B}, taken : BOOLEAN, pos : {response.pos}, len : {response.len}, need : {response.need},
               wants : {"resumed"}]
    BY <1>1 DEF Reader, B
  <2>2. response.pos \in Nat /\ response.need \in Int /\ response.len \in Nat
    BY <1>1, ReaderTypes
  <2> HIDE DEF v
  <2> QED BY <1>6, <2>1, <2>2, ReaderMade
<1> HIDE DEF a, v, A
<1>9. InBody(answer, a, v, k)
  <2>1. a >= 2 /\ Filled(answer, a, B, p)
    BY <1>3, <1>5, <1>6
  <2>2. response.len # 0 => Len(B) >= 3
    <3>1. Len(B) \in Nat
      BY <1>6
    <3> QED BY <1>3, <1>7, <3>1
  <2> QED BY <1>3, <1>8, <2>1, <2>2 DEF InBody, Reads, p
<1>10. AnswerOK(answer, a, v, bodies)
  BY <1>1, <1>5, <1>8, <1>9 DEF AnswerOK, Reads, A, k
<1> QED BY <1>10 DEF AnswerStep, a, v

LEMMA RecvSomeStep ==
  ASSUME answer \in Bodies, AnswerOK(answer, arrived, response, bodies), NEW n, RecvSome(n)
  PROVE  AnswerStep
<1>1. /\ response.wants = "some" /\ n \in 1 .. (Len(Answered(answer)) - arrived)
      /\ arrived' = arrived + n /\ answer' = answer /\ bodies' = bodies
      /\ response' = [response EXCEPT !.buffer = @ \o SubSeq(Answered(answer), arrived + 1, arrived + n),
                                      !.wants = "resumed"]
  BY DEF RecvSome
<1>2. arrived \in 0 .. Len(Answered(answer)) /\ InBody(answer, arrived, response, Len(bodies))
  BY <1>1 DEF AnswerOK
<1>3. response.len # 0 => Len(response.buffer) >= 3
  BY <1>2 DEF InBody
<1>4. Len(Answered(answer)) \in Nat
  BY AnswerBytes
<1>5. n \in Nat /\ arrived + n <= Len(Answered(answer))
  BY <1>1, <1>2, <1>4
<1> QED BY <1>1, <1>3, <1>5, RecvMoreStep

LEMMA RecvExactlyStep ==
  ASSUME answer \in Bodies, AnswerOK(answer, arrived, response, bodies), NEW moves \in BOOLEAN, RecvExactly(moves)
  PROVE  AnswerStep /\ undefined' \in BOOLEAN
<1> DEFINE n == response.need
<1>1. /\ response.wants = "exactly" /\ arrived + n <= Len(Answered(answer))
      /\ arrived' = arrived + n /\ answer' = answer /\ bodies' = bodies
      /\ response' = [response EXCEPT !.buffer = @ \o SubSeq(Answered(answer), arrived + 1, arrived + n),
                                      !.wants = "resumed"]
      /\ undefined' \in BOOLEAN
  BY DEF RecvExactly
<1>2. response \in Reader /\ InBody(answer, arrived, response, Len(bodies))
  BY <1>1 DEF AnswerOK
<1>3. (response.len # 0 => Len(response.buffer) >= 3) /\ n > 0
  BY <1>1, <1>2 DEF InBody
<1>4. n \in Nat
  <2>1. n \in Int
    BY <1>2, ReaderTypes
  <2> HIDE DEF n
  <2> QED BY <1>3, <2>1
<1> HIDE DEF n
<1> QED BY <1>1, <1>3, <1>4, RecvMoreStep
\* What a resumed reader is about to look at.
LEMMA Resuming ==
  ASSUME answer \in Bodies, AnswerOK(answer, arrived, response, bodies), response.wants = "resumed"
  PROVE  LET k == Len(bodies)
             p == Start(answer, k)
             N == Len(Answered(answer))
         IN /\ k \in Nat /\ p \in Nat /\ N \in Nat /\ p >= 2 /\ arrived \in Nat /\ arrived <= N /\ arrived >= 2
            /\ k <= (IF answer.chunked THEN Len(answer.sizes) ELSE 0)
            /\ Filled(answer, arrived, response.buffer, p) /\ Len(response.buffer) = arrived - p /\ p <= arrived
            /\ response.buffer \in Seq(Cell) /\ Len(response.buffer) \in Nat
            /\ response \in Reader /\ Returned(answer, bodies)
            /\ response.len # 0 => /\ answer.chunked /\ k < Len(answer.sizes)
                                   /\ response.len = answer.sizes[k + 1] + 2
                                   /\ response.pos = 3 /\ Len(response.buffer) >= 3
<1> DEFINE k == Len(bodies)
           p == Start(answer, k)
           N == Len(Answered(answer))
<1>1. response \in Reader /\ arrived \in 0 .. N /\ InBody(answer, arrived, response, k) /\ Returned(answer, bodies)
  BY DEF AnswerOK
<1>2. k \in Nat
  BY <1>1 DEF Returned
<1>3. /\ k <= (IF answer.chunked THEN Len(answer.sizes) ELSE 0) /\ arrived >= 2 /\ Filled(answer, arrived, response.buffer, p)
      /\ (response.len # 0 => /\ answer.chunked /\ k < Len(answer.sizes) /\ response.len = answer.sizes[k + 1] + 2
                              /\ response.pos = 3 /\ Len(response.buffer) >= 3)
  BY <1>1 DEF InBody
<1> HIDE DEF k
<1>4. p \in Nat /\ N \in Nat /\ p >= 2
  BY <1>2, <1>3, Starts
<1>5. response.buffer \in Seq(Cell) /\ Len(response.buffer) \in Nat
  BY <1>1, ReaderTypes
<1>6. Len(response.buffer) = arrived - p /\ p <= arrived
  BY <1>3 DEF Filled
<1>7. arrived \in Nat /\ arrived <= N
  BY <1>1, <1>4
<1> QED BY <1>1, <1>2, <1>3, <1>4, <1>5, <1>6, <1>7 DEF k

\* A part is returned: what was returned stays a beginning of what should be.
LEMMA ReturnsNext ==
  ASSUME NEW b \in Bodies, NEW w, Returned(b, w), Len(w) + 1 <= Len(Parts(b)), NEW x, x = Parts(b)[Len(w) + 1]
  PROVE  Returned(b, Append(w, x)) /\ Len(Append(w, x)) = Len(w) + 1
<1> DEFINE S == Seq(Cell)
           P == Parts(b)
           k == Len(w)
           r == Append(w, x)
<1>1. P \in Seq(S)
  BY PartsMade
<1> HIDE DEF S
<1>2. w \in Seq(S) /\ k <= Len(P) /\ \A i \in 1 .. k : w[i] = P[i]
  BY DEF Returned, S
<1>3. k \in Nat /\ k + 1 \in 1 .. Len(P)
  BY <1>1, <1>2
<1>4. x \in S
  BY <1>1, <1>3
<1> HIDE DEF P, r
<1>5. w \in Seq(S)
  BY <1>2
<1>6. r \in Seq(S) /\ Len(r) = k + 1 /\ (\A i \in 1 .. k : r[i] = w[i]) /\ r[k + 1] = x
  BY <1>4, <1>5, AppendProperties DEF r
<1> HIDE DEF k
<1>7. ASSUME NEW i \in 1 .. k + 1 PROVE r[i] = P[i]
  <2>1. CASE i = k + 1
    BY <1>6, <2>1 DEF k, P
  <2>2. CASE i # k + 1
    <3>1. i \in 1 .. k
      BY <1>3, <2>2
    <3> QED BY <1>2, <1>6, <3>1
  <2> QED BY <2>1, <2>2
<1>8. Len(r) <= Len(P) /\ \A i \in 1 .. Len(r) : r[i] = P[i]
  <2>1. \A i \in 1 .. Len(r) : i \in 1 .. k + 1
    BY <1>6
  <2> QED BY <1>6, <1>7, <2>1 DEF k, P
<1> QED BY <1>6, <1>8 DEF Returned, r, P, S, k

LEMMA GetBodyStep ==
  ASSUME answer \in Bodies, AnswerOK(answer, arrived, response, bodies), GetBody
  PROVE  AnswerStep
<1> DEFINE L == Len(BodyBytes(answer))
           u == response.buffer
           v == response'
           w == bodies'
           N == Len(Answered(answer))
           k == Len(bodies)
           p == Start(answer, k)
           d == L - Len(u)
<1>1. /\ response.wants = "resumed" /\ ~answer.chunked /\ answer' = answer /\ arrived' = arrived
      /\ \/ /\ Len(u) = L /\ w = Append(bodies, u)
            /\ v = [response EXCEPT !.wants = "done", !.buffer = <<>>]
         \/ /\ Len(u) # L /\ w = bodies
            /\ v = [response EXCEPT !.wants = "exactly", !.need = d]
  BY DEF GetBody, Resumed, Returns
<1>2. /\ k = 0 /\ p = 2 /\ N \in Nat /\ arrived \in Nat /\ arrived <= N /\ arrived >= 2
      /\ Filled(answer, arrived, u, 2) /\ Len(u) = arrived - 2 /\ u \in Seq(Cell) /\ Len(u) \in Nat
      /\ response \in Reader /\ Returned(answer, bodies) /\ response.len = 0
  <2>1. k \in Nat /\ k <= 0
    BY <1>1, Resuming
  <2>2. k = 0
    BY <2>1
  <2>3. p = 2
    BY <1>1, <2>2 DEF Start
  <2> HIDE DEF k, p
  <2> QED BY <1>1, <2>2, <2>3, Resuming DEF k, p
<1>3. L \in Nat /\ N = L + 2 /\ BodyBytes(answer) \in Seq(Cell) /\ \A j \in 1 .. L : Answered(answer)[2 + j] = BodyBytes(answer)[j]
  BY AnswerBytes
<1>4. response.pos \in Nat /\ response.need \in Int /\ response.len \in Nat /\ response.taken \in BOOLEAN
  BY <1>2, ReaderTypes
<1> HIDE DEF v, w, L, N, k, p
<1>5. CASE Len(u) = L
  <2>1. v = [response EXCEPT !.wants = "done", !.buffer = <<>>] /\ w = Append(bodies, u)
    BY <1>1, <1>5
  <2>2. Reads(v, <<>>, response.pos, response.len, response.need, "done")
    <3>1. v \in [buffer : {<<>>}, taken : BOOLEAN, pos : {response.pos}, len : {response.len}, need : {response.need},
                 wants : {"done"}]
      BY <1>2, <2>1 DEF Reader
    <3>2. <<>> \in Seq(Cell)
      BY EmptySeq
    <3> QED BY <1>4, <3>1, <3>2, ReaderMade
  <2>3. u = BodyBytes(answer)
    <3>1. \A j \in 1 .. Len(u) : u[j] = BodyBytes(answer)[j]
      BY <1>2, <1>3, <1>5 DEF Filled
    <3>2. Len(u) = Len(BodyBytes(answer)) /\ u \in Seq(Cell) /\ BodyBytes(answer) \in Seq(Cell)
      BY <1>2, <1>3, <1>5 DEF L
    <3> HIDE DEF u
    <3> QED BY <3>1, <3>2, SeqEqual
  <2>4. Len(bodies) = 0 /\ Len(Parts(answer)) = 1 /\ Parts(answer)[1] = BodyBytes(answer)
    BY <1>1, <1>2, PartsMade DEF k
  <2>5. Returned(answer, w) /\ Len(w) = 1
    <3>1. Len(bodies) + 1 <= Len(Parts(answer)) /\ u = Parts(answer)[Len(bodies) + 1] /\ Len(bodies) + 1 = 1
      BY <2>3, <2>4
    <3> QED BY <1>2, <2>1, <3>1, ReturnsNext
  <2>6. AnswerOK(answer, arrived, v, w)
    BY <1>2, <2>2, <2>4, <2>5 DEF AnswerOK, Reads, N
  <2> QED BY <1>1, <2>6 DEF AnswerStep, v, w
<1>6. CASE Len(u) # L
  <2>1. v = [response EXCEPT !.wants = "exactly", !.need = d] /\ w = bodies
    BY <1>1, <1>6
  <2>2. d \in Int /\ d > 0 /\ arrived + d = N
    <3> HIDE DEF u
    <3> QED BY <1>2, <1>3, <1>6
  <2>3. Reads(v, u, response.pos, response.len, d, "exactly")
    <3>1. v \in [buffer : {u}, taken : BOOLEAN, pos : {response.pos}, len : {response.len}, need : {d}, wants : {"exactly"}]
      BY <1>2, <2>1 DEF Reader
    <3> QED BY <1>2, <1>4, <2>2, <3>1, ReaderMade
  <2> HIDE DEF d, u
  <2>4. InBody(answer, arrived, v, k)
    <3>1. arrived + d <= N
      BY <1>2, <2>2
    <3> QED BY <1>1, <1>2, <2>2, <2>3, <3>1 DEF InBody, Reads, N, p
  <2>5. AnswerOK(answer, arrived, v, bodies)
    BY <1>2, <2>3, <2>4 DEF AnswerOK, Reads, N, k
  <2> QED BY <1>1, <2>1, <2>5 DEF AnswerStep, v, w
<1> QED BY <1>5, <1>6
\* The size is there when a line end is, and it is the size of the next chunk.
LEMMA SizeRight ==
  ASSUME answer \in Bodies, answer.chunked, NEW k \in Nat, k <= Len(answer.sizes),
         response.buffer \in Seq(Cell), NextPart(answer, k, response.buffer)
  PROVE  /\ LineEnds = {} <=> Len(response.buffer) < 3
         /\ LineEnds # {} => SizeRead = IF k < Len(answer.sizes) THEN answer.sizes[k + 1] ELSE 0
<1> DEFINE u == response.buffer
           n == Len(u)
           c == IF k < Len(answer.sizes) THEN Digits[answer.sizes[k + 1]] ELSE "0"
<1>1. n \in Nat /\ (n >= 1 => u[1] = c) /\ (n >= 2 => u[2] = CCR) /\ (n >= 3 => u[3] = CLF)
  BY DEF NextPart
<1>2. k < Len(answer.sizes) => answer.sizes[k + 1] \in 1 .. 9
  <2>1. k < Len(answer.sizes) => k + 1 \in 1 .. Len(answer.sizes)
    BY BodyTypes
  <2> QED BY <2>1, BodyTypes
<1>3. c # CCR
  <2>1. "0" # CCR
    BY DEF CCR
  <2> QED BY <1>2, <2>1, DigitsDiffer
<1>4. LineEnds = {i \in 1 .. (n - 1) : u[i] = CCR /\ u[i + 1] = CLF}
  BY DEF LineEnds
<1> HIDE DEF n, u
<1>5. ASSUME n >= 3 PROVE LineEnds # {}
  <2>1. 2 \in 1 .. (n - 1) /\ u[2] = CCR /\ u[2 + 1] = CLF
    BY <1>1, <1>5
  <2> QED BY <1>4, <2>1
<1>6. ASSUME n < 3 PROVE LineEnds = {}
  <2> SUFFICES ASSUME NEW i \in 1 .. (n - 1), u[i] = CCR PROVE FALSE
    BY <1>4
  <2>1. i = 1 /\ n >= 1
    BY <1>1, <1>6
  <2>2. u[i] = c
    BY <1>1, <2>1
  <2> QED BY <1>3, <2>2
<1>7. ASSUME LineEnds # {} PROVE SizeRead = IF k < Len(answer.sizes) THEN answer.sizes[k + 1] ELSE 0
  <2>1. u[1] = c
    BY <1>1, <1>6, <1>7
  <2>2. CASE k < Len(answer.sizes)
    <3> DEFINE z == answer.sizes[k + 1]
    <3>1. z \in 1 .. 9 /\ u[1] = Digits[z]
      BY <1>2, <2>1, <2>2
    <3> HIDE DEF z
    <3>2. u[1] # "0"
      BY <3>1, DigitsDiffer
    <3>3. SizeRead = CHOOSE n_ \in 1 .. 9 : Digits[n_] = u[1]
      BY <3>2 DEF SizeRead, u
    <3>4. \A m \in 1 .. 9 : Digits[m] = u[1] <=> m = z
      BY <3>1, DigitsDiffer
    <3>5. SizeRead = z
      BY <3>1, <3>3, <3>4
    <3> QED BY <2>2, <3>5 DEF z
  <2>3. CASE ~(k < Len(answer.sizes))
    BY <2>1, <2>3 DEF SizeRead, u
  <2> QED BY <2>2, <2>3
<1>8. n >= 3 \/ n < 3
  BY <1>1
<1> QED BY <1>1, <1>5, <1>6, <1>7, <1>8 DEF n, u

LEMMA GetChunkStep ==
  ASSUME answer \in Bodies, AnswerOK(answer, arrived, response, bodies), GetChunk
  PROVE  AnswerStep
<1> DEFINE u == response.buffer
           v == response'
           w == bodies'
           N == Len(Answered(answer))
           n == Len(answer.sizes)
           k == Len(bodies)
           p == Start(answer, k)
           d == 5 - Len(u)
<1>1. /\ response.wants = "resumed" /\ answer.chunked /\ response.len = 0 /\ answer' = answer /\ arrived' = arrived
      /\ \/ LineEnds = {} /\ v = [response EXCEPT !.wants = "some"] /\ w = bodies
         \/ LineEnds # {} /\ SizeRead > 0 /\ v = [response EXCEPT !.pos = 3, !.len = SizeRead + 2] /\ w = bodies
         \/ LineEnds # {} /\ ~(SizeRead > 0) /\ d = 0 /\ w = Append(bodies, <<>>) /\ v = [response EXCEPT !.wants = "done"]
         \/ LineEnds # {} /\ ~(SizeRead > 0) /\ d < 0
         \/ LineEnds # {} /\ ~(SizeRead > 0) /\ d # 0 /\ ~(d < 0) /\ w = bodies
              /\ v = [response EXCEPT !.wants = "exactly", !.need = d]
  BY DEF GetChunk, Resumed, Returns, EndChunk
<1>2. /\ k \in Nat /\ p \in Nat /\ N \in Nat /\ arrived \in Nat /\ arrived <= N /\ arrived >= 2
      /\ k <= n /\ Filled(answer, arrived, u, p) /\ Len(u) = arrived - p /\ u \in Seq(Cell) /\ Len(u) \in Nat
      /\ response \in Reader /\ Returned(answer, bodies)
  BY <1>1, Resuming
<1>3. response.pos \in Nat /\ response.need \in Int /\ response.len \in Nat /\ response.taken \in BOOLEAN
  BY <1>2, ReaderTypes
<1>4. n \in Nat /\ N = Start(answer, n) + 5 /\ (k < n => answer.sizes[k + 1] \in 1 .. 9)
  <2>1. k < n => k + 1 \in 1 .. n
    BY <1>2, BodyTypes
  <2> QED BY <1>1, <2>1, BodyTypes, ChunksShape
<1> HIDE DEF v, w, N, k, p
<1>5. NextPart(answer, k, u)
  BY <1>1, <1>2, PartBegins DEF p
<1>6. /\ LineEnds = {} <=> Len(u) < 3
      /\ LineEnds # {} => SizeRead = IF k < n THEN answer.sizes[k + 1] ELSE 0
  BY <1>1, <1>2, <1>5, SizeRight
<1>8. CASE LineEnds = {}
  <2>1. v = [response EXCEPT !.wants = "some"] /\ w = bodies
    BY <1>1, <1>8
  <2>2. Reads(v, u, response.pos, 0, response.need, "some")
    <3>1. v \in [buffer : {u}, taken : BOOLEAN, pos : {response.pos}, len : {0}, need : {response.need}, wants : {"some"}]
      BY <1>1, <1>2, <2>1 DEF Reader
    <3> QED BY <1>2, <1>3, <3>1, ReaderMade
  <2> HIDE DEF u
  <2>3. InBody(answer, arrived, v, k)
    BY <1>1, <1>2, <1>6, <1>8, <2>2 DEF InBody, Reads, p
  <2>4. AnswerOK(answer, arrived, v, bodies)
    BY <1>2, <2>2, <2>3 DEF AnswerOK, Reads, N, k
  <2> QED BY <1>1, <2>1, <2>4 DEF AnswerStep, v, w
<1>9. CASE LineEnds # {} /\ k < n
  <2> DEFINE z == answer.sizes[k + 1]
  <2>1. SizeRead = z /\ z \in 1 .. 9
    BY <1>4, <1>6, <1>9
  <2> HIDE DEF z
  <2>2. v = [response EXCEPT !.pos = 3, !.len = z + 2] /\ w = bodies
    BY <1>1, <1>9, <2>1
  <2>3. Reads(v, u, 3, z + 2, response.need, "resumed")
    <3>1. v \in [buffer : {u}, taken : BOOLEAN, pos : {3}, len : {z + 2}, need : {response.need}, wants : {"resumed"}]
      BY <1>1, <1>2, <2>2 DEF Reader
    <3>2. z + 2 \in Nat
      BY <2>1
    <3> QED BY <1>2, <1>3, <3>1, <3>2, ReaderMade
  <2>4. Len(u) >= 3
    <3> DEFINE m == Len(u)
    <3>1. m \in Nat /\ ~(m < 3)
      BY <1>2, <1>6, <1>9
    <3> HIDE DEF m
    <3>2. m >= 3
      BY <3>1
    <3> QED BY <3>2 DEF m
  <2> HIDE DEF u
  <2>5. InBody(answer, arrived, v, k)
    BY <1>1, <1>2, <1>9, <2>3, <2>4 DEF InBody, Reads, p, z
  <2>6. AnswerOK(answer, arrived, v, bodies)
    BY <1>2, <2>3, <2>5 DEF AnswerOK, Reads, N, k
  <2> QED BY <1>1, <2>2, <2>6 DEF AnswerStep, v, w
<1>10. CASE LineEnds # {} /\ ~(k < n)
  <2>1. SizeRead = 0 /\ k = n
    BY <1>2, <1>4, <1>6, <1>10
  <2>2. d \in Int /\ d >= 0 /\ arrived + d = N
    <3>1. N = p + 5
      BY <1>4, <2>1 DEF p, k
    <3> HIDE DEF u
    <3> QED BY <1>2, <3>1
  <2> HIDE DEF d
  <2>3. CASE d = 0
    <3>0. ~(SizeRead > 0) /\ ~(d < 0) /\ ~(d # 0)
      BY <2>1, <2>3
    <3>1. w = Append(bodies, <<>>) /\ v = [response EXCEPT !.wants = "done"]
      BY <1>1, <1>10, <3>0
    <3>2. Reads(v, u, response.pos, 0, response.need, "done")
      <4>1. v \in [buffer : {u}, taken : BOOLEAN, pos : {response.pos}, len : {0}, need : {response.need}, wants : {"done"}]
        BY <1>1, <1>2, <3>1 DEF Reader
      <4> QED BY <1>2, <1>3, <4>1, ReaderMade
    <3>3. Len(Parts(answer)) = n + 1 /\ Parts(answer)[n + 1] = <<>>
      BY <1>1, PartsMade
    <3>4. Returned(answer, w) /\ Len(w) = n + 1
      <4>1. Len(bodies) + 1 <= Len(Parts(answer)) /\ <<>> = Parts(answer)[Len(bodies) + 1] /\ Len(bodies) = n
        BY <1>4, <2>1, <3>3 DEF k
      <4> QED BY <1>2, <3>1, <4>1, ReturnsNext
    <3>5. AnswerOK(answer, arrived, v, w)
      BY <1>2, <3>2, <3>3, <3>4 DEF AnswerOK, Reads, N
    <3> QED BY <1>1, <3>5 DEF AnswerStep, v, w
  <2>4. CASE d # 0
    <3>1. d > 0 /\ ~(d < 0) /\ ~(SizeRead > 0)
      BY <2>1, <2>2, <2>4
    <3>2. w = bodies /\ v = [response EXCEPT !.wants = "exactly", !.need = d]
      BY <1>1, <1>10, <2>4, <3>1
    <3>3. Reads(v, u, response.pos, 0, d, "exactly")
      <4>1. v \in [buffer : {u}, taken : BOOLEAN, pos : {response.pos}, len : {0}, need : {d}, wants : {"exactly"}]
        BY <1>1, <1>2, <3>2 DEF Reader
      <4> QED BY <1>2, <1>3, <2>2, <4>1, ReaderMade
    <3> HIDE DEF u
    <3>4. InBody(answer, arrived, v, k)
      <4>1. arrived + d <= N
        BY <1>2, <2>2
      <4> QED BY <1>1, <1>2, <2>2, <3>1, <3>3, <4>1 DEF InBody, Reads, N, p
    <3>5. AnswerOK(answer, arrived, v, bodies)
      BY <1>2, <3>3, <3>4 DEF AnswerOK, Reads, N, k
    <3> QED BY <1>1, <3>2, <3>5 DEF AnswerStep, v, w
  <2> QED BY <2>3, <2>4
<1> QED BY <1>8, <1>9, <1>10
LEMMA ChunkDataStep ==
  ASSUME answer \in Bodies, AnswerOK(answer, arrived, response, bodies), ChunkData
  PROVE  AnswerStep
<1> DEFINE u == response.buffer
           v == response'
           w == bodies'
           A == Answered(answer)
           n == Len(answer.sizes)
           k == Len(bodies)
           p == Start(answer, k)
           q == Start(answer, k + 1)
           z == answer.sizes[k + 1]
           l == response.len
           m == Len(u)
           d == l - (m - response.pos)
<1>1. /\ response.wants = "resumed" /\ answer.chunked /\ l > 0 /\ answer' = answer /\ arrived' = arrived
      /\ IF m - response.pos >= l
         THEN w = Append(bodies, Data(response)) /\ v = [response EXCEPT !.len = 0, !.buffer = AfterData(response)]
         ELSE w = bodies /\ v = [response EXCEPT !.wants = "exactly", !.need = d]
  BY DEF ChunkData, Resumed, Returns
<1>2. /\ k \in Nat /\ p \in Nat /\ Len(A) \in Nat /\ arrived \in Nat /\ arrived <= Len(A) /\ arrived >= 2
      /\ k <= n /\ Filled(answer, arrived, u, p) /\ m = arrived - p /\ p <= arrived /\ u \in Seq(Cell) /\ m \in Nat
      /\ response \in Reader /\ Returned(answer, bodies)
      /\ (l # 0 => k < n /\ l = z + 2 /\ response.pos = 3 /\ m >= 3)
  BY <1>1, Resuming
<1>3. response.pos \in Nat /\ response.need \in Int /\ l \in Nat /\ response.taken \in BOOLEAN
  BY <1>2, ReaderTypes
<1>4. k < n /\ l = z + 2 /\ response.pos = 3 /\ m >= 3
  BY <1>1, <1>2, <1>3
<1>5. z \in 1 .. 9 /\ n \in Nat /\ k + 1 \in 1 .. n
  <2>1. k + 1 \in 1 .. n /\ n \in Nat
    BY <1>2, <1>4, BodyTypes
  <2> QED BY <2>1, BodyTypes
<1>6. q = p + z + 5 /\ q + 5 <= Len(A) /\ q \in Nat /\ \A j \in 1 .. z + 5 : A[p + j] = Chunk(z)[j]
  <2>1. ChunkAt(answer, k)
    BY <1>1, <1>2, <1>4, ChunksShape
  <2>2. k + 1 \in 0 .. n
    BY <1>5
  <2>3. q \in Nat
    BY <1>1, <2>2, ChunksShape
  <2> QED BY <2>1, <2>3 DEF ChunkAt
<1> HIDE DEF v, w, A, k, p, q, z, n
<1>7. CASE m - response.pos >= l
  <2> DEFINE f == AfterData(response)
             x == Data(response)
             r == m - (z + 5)
  <2>1. w = Append(bodies, x) /\ v = [response EXCEPT !.len = 0, !.buffer = f]
    BY <1>1, <1>7
  <2> HIDE DEF u, l
  <2>2. /\ r \in Nat /\ z + 5 \in Nat /\ (z + 5) + r = m /\ (z + 5) + r <= m /\ z \in Nat /\ 3 \in Nat /\ 3 + z <= m
        /\ response.pos + l = z + 5 /\ response.pos + l - 2 = 3 + z
    <3> HIDE DEF m
    <3> QED BY <1>2, <1>3, <1>4, <1>5, <1>7
  <2>3. f \in Seq(Cell) /\ Slice(f, u, z + 5, r)
    <3>1. f = SubSeq(u, (z + 5) + 1, (z + 5) + r)
      <4>1. f = SubSeq(u, response.pos + l + 1, m)
        BY DEF AfterData, u, l
      <4> HIDE DEF f, r, m
      <4> QED BY <2>2, <4>1
    <3> DEFINE i == z + 5
    <3>2. i \in Nat /\ r \in Nat /\ i + r <= Len(u) /\ u \in Seq(Cell)
      BY <1>2, <2>2
    <3> HIDE DEF f, r, i
    <3>3. SubSeq(u, i + 1, i + r) \in Seq(Cell) /\ Slice(SubSeq(u, i + 1, i + r), u, i, r)
      BY <3>2, SliceMade
    <3> QED BY <3>1, <3>3 DEF i
  <2>4. x \in Seq(Cell) /\ Slice(x, u, 3, z)
    <3>1. x = SubSeq(u, 3 + 1, 3 + z)
      <4>1. x = SubSeq(u, response.pos + 1, response.pos + l - 2)
        BY DEF Data, u, l
      <4> HIDE DEF x, r, m
      <4> QED BY <1>4, <2>2, <4>1
    <3>2. z \in Nat /\ 3 \in Nat /\ 3 + z <= Len(u) /\ u \in Seq(Cell)
      BY <1>2, <2>2
    <3> HIDE DEF x
    <3>3. SubSeq(u, 3 + 1, 3 + z) \in Seq(Cell) /\ Slice(SubSeq(u, 3 + 1, 3 + z), u, 3, z)
      BY <3>2, SliceMade
    <3> QED BY <3>1, <3>3
  <2> HIDE DEF f, x
  <2>5. Reads(v, f, 3, 0, response.need, "resumed")
    <3>1. v \in [buffer : {f}, taken : BOOLEAN, pos : {3}, len : {0}, need : {response.need}, wants : {"resumed"}]
      BY <1>1, <1>2, <1>4, <2>1 DEF Reader
    <3> QED BY <1>3, <2>3, <3>1, ReaderMade
  <2>6. \A j \in 1 .. m : u[j] = A[p + j]
    BY <1>2 DEF Filled, A
  <2>7. Filled(answer, arrived, f, q)
    <3> HIDE DEF m, r
    <3>1. Len(f) = r /\ \A j \in 1 .. r : f[j] = u[(z + 5) + j]
      BY <2>3 DEF Slice
    <3>2. r = arrived - q /\ q <= arrived
      BY <1>2, <1>5, <1>6, <2>2
    <3>3. ASSUME NEW j \in 1 .. r PROVE f[j] = A[q + j]
      <4>1. (z + 5) + j \in 1 .. m /\ p + ((z + 5) + j) = q + j
        BY <1>2, <1>5, <1>6, <2>2
      <4>2. u[(z + 5) + j] = A[p + ((z + 5) + j)]
        BY <2>6, <4>1
      <4> QED BY <3>1, <4>1, <4>2
    <3> QED BY <3>1, <3>2, <3>3 DEF Filled, A
  <2>8. x = Parts(answer)[k + 1] /\ k + 1 <= Len(Parts(answer)) /\ Len(Parts(answer)) = n + 1
    <3> DEFINE y == [j \in 1 .. z |-> "byte"]
    <3>1. Parts(answer)[k + 1] = y /\ Len(Parts(answer)) = n + 1
      BY <1>1, <1>5, PartsMade DEF z, n
    <3>2. y \in Seq(Cell) /\ Len(y) = z /\ \A j \in 1 .. z : y[j] = "byte"
      BY <2>2, BytesMade
    <3> HIDE DEF y, m, r
    <3>3. Len(x) = z /\ \A j \in 1 .. z : x[j] = u[3 + j]
      BY <2>4 DEF Slice
    <3>4. ASSUME NEW j \in 1 .. z PROVE x[j] = "byte"
      <4>1. 3 + j \in 1 .. m /\ 3 + j \in 1 .. z + 5
        BY <1>2, <1>5, <2>2
      <4>2. u[3 + j] = A[p + (3 + j)] /\ A[p + (3 + j)] = Chunk(z)[3 + j]
        BY <1>6, <2>6, <4>1
      <4>3. Chunk(z)[3 + j] = "byte"
        BY <1>5, ChunkMade
      <4> QED BY <3>3, <4>2, <4>3
    <3>5. x = y
      BY <2>4, <3>2, <3>3, <3>4, SeqEqual
    <3> QED BY <1>2, <1>4, <1>5, <3>1, <3>5
  <2>9. Returned(answer, w) /\ Len(w) = k + 1
    BY <1>2, <2>1, <2>8, ReturnsNext DEF k
  <2>10. InBody(answer, arrived, v, k + 1)
    <3>1. k + 1 <= (IF answer.chunked THEN Len(answer.sizes) ELSE 0)
      BY <1>1, <1>5 DEF n
    <3> QED BY <1>2, <2>5, <2>7, <3>1 DEF InBody, Reads, q
  <2>11. AnswerOK(answer, arrived, v, w)
    BY <1>2, <2>5, <2>9, <2>10 DEF AnswerOK, Reads, A
  <2> QED BY <1>1, <2>11 DEF AnswerStep, v, w
<1>8. CASE ~(m - response.pos >= l)
  <2>1. w = bodies /\ v = [response EXCEPT !.wants = "exactly", !.need = d]
    BY <1>1, <1>8
  <2> HIDE DEF l
  <2>2. d \in Int /\ d > 0 /\ arrived + d = q
    <3> HIDE DEF m
    <3> QED BY <1>2, <1>3, <1>4, <1>5, <1>6, <1>8
  <2>3. Reads(v, u, 3, l, d, "exactly")
    <3> HIDE DEF d
    <3>1. v \in [buffer : {u}, taken : BOOLEAN, pos : {3}, len : {l}, need : {d}, wants : {"exactly"}]
      BY <1>2, <1>4, <2>1 DEF Reader, l
    <3> QED BY <1>2, <1>3, <2>2, <3>1, ReaderMade
  <2> HIDE DEF d
  <2>4. InBody(answer, arrived, v, k)
    <3>1. arrived + d <= Len(A)
      BY <1>2, <1>6, <2>2
    <3>2. l # 0
      BY <1>4, <1>5
    <3>3. k <= (IF answer.chunked THEN Len(answer.sizes) ELSE 0)
      BY <1>1, <1>2 DEF n
    <3> HIDE DEF u
    <3> QED BY <1>1, <1>2, <1>4, <2>2, <2>3, <3>1, <3>2, <3>3 DEF InBody, Reads, A, p, z, n, m
  <2>5. AnswerOK(answer, arrived, v, bodies)
    BY <1>2, <2>3, <2>4 DEF AnswerOK, Reads, A, k
  <2> QED BY <1>1, <2>1, <2>5 DEF AnswerStep, v, w
<1> QED BY <1>7, <1>8
-----------------------------------------------------------------------------

LEMMA ClientStarts ==
  ASSUME HttpClientInit
  PROVE  ClientInv
<1>1. /\ request \in Uploads /\ answer \in Bodies /\ sends = <<>> /\ arrived = 0 /\ bodies = <<>> /\ undefined = FALSE
      /\ client = [forms |-> 1, files |-> 1, read |-> 0, opened |-> 0, eof |-> FALSE, isEnd |-> FALSE,
                   sending |-> <<"head", 0>>, threw |-> FALSE]
      /\ response = [buffer |-> <<>>, taken |-> FALSE, pos |-> 0, len |-> 0, wants |-> "head", need |-> 0]
  BY DEF HttpClientInit
<1>2. UploadOK(request, client, sends)
  <2>1. request.forms \in Nat /\ Len(request.files) \in Nat
    BY <1>1, UploadTypes
  <2>2. <<"head", 0>> \in Sending /\ <<"head", 0>> # Nothing_
    BY SendingHas
  <2>3. /\ client \in Uploader /\ client.sending = <<"head", 0>> /\ client.forms = 1 /\ client.files = 1 /\ client.opened = 0
        /\ ~client.eof /\ ~client.isEnd /\ ~client.threw
    BY <1>1, <2>2 DEF Uploader
  <2>4. sends \in Seq(Sending) /\ Len(sends) = 0
    BY <1>1
  <2>5. Begun(client, sends) = 1
    BY <2>2, <2>3, <2>4 DEF Begun
  <2>6. Total(request) >= 1 /\ Due(request, 1) = {<<"head", 0>>}
    BY <2>1 DEF Total, Due
  <2>7. ClientAt(request, client, 1)
    BY <2>1, <2>2, <2>3, <2>6 DEF ClientAt
  <2> QED BY <2>4, <2>5, <2>7 DEF UploadOK
<1>3. AnswerOK(answer, arrived, response, bodies)
  <2>1. response \in Reader /\ response.wants = "head" /\ response.len = 0
    <3>1. <<>> \in Seq(Cell)
      BY EmptySeq
    <3> QED BY <1>1, <3>1 DEF Reader
  <2>2. Len(Answered(answer)) \in Nat /\ Len(Parts(answer)) \in Nat
    BY <1>1, AnswerBytes, PartsMade
  <2>3. Returned(answer, bodies)
    <3>1. bodies \in Seq(Seq(Cell)) /\ Len(bodies) = 0
      BY <1>1
    <3> QED BY <2>2, <3>1 DEF Returned
  <2> QED BY <1>1, <2>1, <2>2, <2>3 DEF AnswerOK
<1> QED BY <1>1, <1>2, <1>3 DEF ClientInv

LEMMA ClientSteps ==
  ASSUME ClientInv, [HttpClientNext]_clientVars
  PROVE  ClientInv'
<1>1. /\ request \in Uploads /\ answer \in Bodies /\ undefined \in BOOLEAN
      /\ UploadOK(request, client, sends) /\ AnswerOK(answer, arrived, response, bodies)
  BY DEF ClientInv
<1>2. ASSUME request' = request, client' = client, sends' = sends, AnswerStep, undefined' \in BOOLEAN
      PROVE  ClientInv'
  BY <1>1, <1>2 DEF ClientInv, AnswerStep
<1>3. CASE SendCallback_
  <2>1. UploadOK(request, client', sends')
    BY <1>1, <1>3, UploadStep
  <2>2. request' = request /\ answer' = answer /\ arrived' = arrived /\ response' = response /\ bodies' = bodies
        /\ undefined' = undefined
    BY <1>3 DEF SendCallback_
  <2> QED BY <1>1, <2>1, <2>2 DEF ClientInv
<1>4. ASSUME NEW n, RecvHead(n) PROVE ClientInv'
  <2>1. request' = request /\ client' = client /\ sends' = sends /\ undefined' = undefined
    BY <1>4 DEF RecvHead
  <2>2. AnswerStep
    BY <1>1, <1>4, RecvHeadStep
  <2> QED BY <1>1, <1>2, <2>1, <2>2
<1>5. ASSUME NEW n, RecvSome(n) PROVE ClientInv'
  <2>1. request' = request /\ client' = client /\ sends' = sends /\ undefined' = undefined
    BY <1>5 DEF RecvSome
  <2>2. AnswerStep
    BY <1>1, <1>5, RecvSomeStep
  <2> QED BY <1>1, <1>2, <2>1, <2>2
<1>6. ASSUME NEW moves \in BOOLEAN, RecvExactly(moves) PROVE ClientInv'
  <2>1. request' = request /\ client' = client /\ sends' = sends
    BY <1>6 DEF RecvExactly
  <2>2. AnswerStep /\ undefined' \in BOOLEAN
    BY <1>1, <1>6, RecvExactlyStep
  <2> QED BY <1>2, <2>1, <2>2
<1>7. CASE GetBody
  <2>1. request' = request /\ client' = client /\ sends' = sends /\ undefined' = undefined
    BY <1>7 DEF GetBody
  <2>2. AnswerStep
    BY <1>1, <1>7, GetBodyStep
  <2> QED BY <1>1, <1>2, <2>1, <2>2
<1>8. CASE GetChunk
  <2>1. request' = request /\ client' = client /\ sends' = sends /\ undefined' = undefined
    BY <1>8 DEF GetChunk
  <2>2. AnswerStep
    BY <1>1, <1>8, GetChunkStep
  <2> QED BY <1>1, <1>2, <2>1, <2>2
<1>9. CASE ChunkData
  <2>1. request' = request /\ client' = client /\ sends' = sends /\ undefined' = undefined
    BY <1>9 DEF ChunkData
  <2>2. AnswerStep
    BY <1>1, <1>9, ChunkDataStep
  <2> QED BY <1>1, <1>2, <2>1, <2>2
<1>10. CASE UNCHANGED clientVars
  BY <1>1, <1>10 DEF ClientInv, clientVars
<1> QED BY <1>3, <1>4, <1>5, <1>6, <1>7, <1>8, <1>9, <1>10 DEF HttpClientNext

\* What the state says of the sends: they are in order and end when they should.
LEMMA UploadSafe ==
  ASSUME request \in Uploads, UploadOK(request, client, sends)
  PROVE  /\ UploadInOrder /\ FormsEnd
         /\ client.forms \in 1..(request.forms + 1) /\ client.files \in 1..(Len(request.files) + 1)
         /\ client.opened < client.files /\ client.eof => client.opened > 0
<1> DEFINE F == request.forms
           n == Len(request.files)
           m == Len(sends)
           q == Begun(client, sends)
           T == Total(request)
<1>1. /\ F \in Nat /\ n \in Nat /\ (Post <=> F > 0 \/ n # 0)
      /\ T = IF F = 0 /\ n = 0 THEN 1 ELSE F + 2 + n
  BY UploadTypes DEF Post, Total
<1>2. /\ sends \in Seq(Sending) /\ m \in Nat /\ q >= 1 /\ ClientAt(request, client, q) /\ DOMAIN sends = 1 .. m
      /\ \A i \in 1 .. m : sends[i] \in Due(request, i)
  BY DEF UploadOK
<1>3. q = m + (IF client.sending = Nothing_ THEN 0 ELSE 1)
  BY DEF Begun
<1>4. /\ n <= 1 => q <= T
      /\ client.sending = Nothing_ => IF n <= 1 THEN q = T ELSE client.threw
      /\ client.forms = IF q <= F + 1 THEN q ELSE F + 1
      /\ client.files = IF q >= F + 2 /\ n # 0 THEN 2 ELSE 1
      /\ client.opened = client.files - 1
      /\ client.eof => n > 1 /\ q >= F + 2
  BY <1>2 DEF ClientAt
<1>5. \A i \in 1 .. m :
        /\ i = 1 => sends[i] = <<"head", 0>>
        /\ i \in 2 .. F + 1 => sends[i] = <<"form", i - 1>>
        /\ i = F + 2 /\ n # 0 => sends[i] = <<"file", 1>>
        /\ i > F + 1 /\ ~(i = F + 2 /\ n # 0) /\ n <= 1 => sends[i] = <<"end", 0>>
        /\ i > F + 1 /\ ~(i = F + 2 /\ n # 0) /\ n > 1 => sends[i] \in {<<"block", 1>>, <<"crlf", 1>>}
  BY <1>1, <1>2 DEF Due
<1> HIDE DEF F, n, m, q, T
<1>6. q \in Nat /\ m <= q
  BY <1>2, <1>3
<1>7. /\ client.forms \in 1 .. (F + 1) /\ client.files \in 1 .. (n + 1)
      /\ client.opened < client.files /\ (client.eof => client.opened > 0)
  BY <1>1, <1>2, <1>4, <1>6
<1>8. ASSUME NEW i \in 1 .. m
      PROVE  \/ i = 1 /\ sends[i] = <<"head", 0>>
             \/ i \in 2 .. F + 1 /\ sends[i] = <<"form", i - 1>>
             \/ i = F + 2 /\ n # 0 /\ sends[i] = <<"file", 1>>
             \/ i > F + 1 /\ ~(i = F + 2 /\ n # 0) /\ n <= 1 /\ sends[i] = <<"end", 0>>
             \/ i > F + 1 /\ ~(i = F + 2 /\ n # 0) /\ n > 1 /\ sends[i] \in {<<"block", 1>>, <<"crlf", 1>>}
  BY <1>1, <1>2, <1>5
<1>9. ASSUME NEW i \in 1 .. m
      PROVE  /\ sends[i][1] = "form" <=> i \in 2 .. F + 1
             /\ sends[i][1] = "file" <=> i = F + 2 /\ n # 0
             /\ sends[i][1] = "head" <=> i = 1
             /\ sends[i][1] = "end" => i > F + 1 /\ n <= 1 /\ ~(i = F + 2 /\ n # 0)
  BY <1>1, <1>8
<1>10. FormsEnd
  <2> SUFFICES ASSUME client.sending = Nothing_, ~client.threw
               PROVE  IF Post THEN Last(sends) = <<"end", 0>> /\ n <= 1 ELSE sends = <<<<"head", 0>>>>
    BY DEF FormsEnd, n
  <2>1. n <= 1 /\ q = T /\ m = T
    BY <1>2, <1>3, <1>4
  <2>2. CASE Post
    <3>1. m \in 1 .. m /\ m > F + 1 /\ ~(m = F + 2 /\ n # 0)
      BY <1>1, <1>2, <2>1, <2>2
    <3> QED BY <1>5, <2>1, <2>2, <3>1 DEF Last, m
  <2>3. CASE ~Post
    <3>1. m = 1
      BY <1>1, <2>1, <2>3
    <3>2. sends[1] = <<"head", 0>>
      BY <1>5, <3>1
    <3>3. sends = <<<<"head", 0>>>>
      <4> DEFINE x == <<"head", 0>>
                 t == <<x>>
      <4>1. x \in Sending
        BY SendingHas
      <4>2. x = sends[1]
        BY <3>2
      <4> HIDE DEF x
      <4>3. t \in Seq(Sending) /\ Len(t) = 1 /\ t[1] = x
        BY <4>1
      <4> HIDE DEF t
      <4>4. Len(sends) = Len(t) /\ \A i \in 1 .. Len(sends) : sends[i] = t[i]
        BY <3>1, <4>2, <4>3 DEF m
      <4>5. sends = t
        BY <1>2, <4>3, <4>4, SeqEqual
      <4> QED BY <4>5 DEF t, x
    <3> QED BY <2>3, <3>3
  <2> QED BY <2>2, <2>3
<1>11. UploadInOrder
  <2>1. ASSUME NEW i \in 1 .. m
        PROVE  /\ i = 1 => sends[i] = <<"head", 0>>
               /\ i \in 2 .. F + 1 => sends[i] = <<"form", i - 1>>
               /\ i > F + 1 => sends[i][1] \notin {"head", "form"}
    BY <1>1, <1>5, <1>9
  <2>2. ASSUME NEW i \in Is("end")
        PROVE  i = Len(sends) /\ Cardinality(Is("form")) = F /\ Cardinality(Is("file")) = n
    <3>1. i \in 1 .. m /\ sends[i][1] = "end"
      BY <1>2 DEF Is
    <3>2. i > F + 1 /\ n <= 1 /\ ~(i = F + 2 /\ n # 0)
      BY <1>9, <3>1
    <3>3. m = F + 2 + n /\ i = m
      BY <1>1, <1>2, <1>4, <1>6, <3>1, <3>2
    <3>4. Is("form") = 2 .. F + 1
      <4>1. \A j \in 2 .. F + 1 : j \in 1 .. m
        BY <1>1, <3>3
      <4>2. \A j : j \in Is("form") <=> j \in 1 .. m /\ sends[j][1] = "form"
        BY <1>2 DEF Is
      <4> QED BY <1>9, <4>1, <4>2
    <3>5. Cardinality(Is("form")) = F
      <4> DEFINE e == F + 1
      <4>1. e \in Int /\ 2 \in Int /\ (IF 2 > e THEN 0 ELSE e - 2 + 1) = F
        BY <1>1
      <4> HIDE DEF e
      <4>2. Cardinality(2 .. e) = IF 2 > e THEN 0 ELSE e - 2 + 1
        BY <4>1, FS_Interval
      <4> QED BY <3>4, <4>1, <4>2 DEF e
    <3>6. \A j : j \in Is("file") <=> j \in 1 .. m /\ j = F + 2 /\ n # 0
      <4>1. \A j : j \in Is("file") <=> j \in 1 .. m /\ sends[j][1] = "file"
        BY <1>2 DEF Is
      <4> QED BY <1>9, <4>1
    <3>7. Cardinality(Is("file")) = n
      <4>1. CASE n = 0
        <5>1. Is("file") = {}
          BY <3>6, <4>1
        <5> QED BY <4>1, <5>1, FS_EmptySet
      <4>2. CASE n # 0
        <5>1. n = 1 /\ F + 2 \in 1 .. m
          BY <1>1, <3>2, <3>3, <4>2
        <5>2. Is("file") = {F + 2}
          BY <3>6, <4>2, <5>1
        <5> QED BY <5>1, <5>2, FS_Singleton
      <4> QED BY <4>1, <4>2
    <3> QED BY <3>3, <3>5, <3>7 DEF m
  <2> QED BY <1>2, <2>1, <2>2 DEF UploadInOrder, F, n
<1> QED BY <1>7, <1>10, <1>11 DEF F, n

LEMMA BodySafe ==
  ASSUME answer \in Bodies, AnswerOK(answer, arrived, response, bodies)
  PROVE  BodiesAsSent /\ BodyEnds
<1> DEFINE P == Parts(answer)
           S == Seq(Cell)
           m == Len(bodies)
           N == Len(Answered(answer))
<1>1. P \in Seq(S)
  BY PartsMade
<1>2. bodies \in Seq(S) /\ m <= Len(P) /\ \A i \in 1 .. m : bodies[i] = P[i]
  BY DEF AnswerOK, Returned
<1>3. Wanted = P
  BY DEF Wanted, Parts
<1> HIDE DEF P, S
<1>4. m \in Nat /\ Len(P) \in Nat
  BY <1>1, <1>2
<1>5. BodiesAsSent
  <2> DEFINE s == SubSeq(bodies, 1, m)
             t == SubSeq(P, 1, m)
  <2>1. \A i \in 1 .. m : bodies[i] \in S /\ P[i] \in S
    BY <1>1, <1>2, <1>4
  <2> HIDE DEF m
  <2>2. s \in Seq(S) /\ Len(s) = m /\ \A i \in 1 .. m : s[i] = bodies[i]
    BY <1>4, <2>1, FirstPart
  <2>3. t \in Seq(S) /\ Len(t) = m /\ \A i \in 1 .. m : t[i] = P[i]
    BY <1>4, <2>1, FirstPart
  <2> HIDE DEF s, t
  <2>4. s = t
    BY <1>2, <2>2, <2>3, SeqEqual
  <2> QED BY <1>2, <1>3, <2>4 DEF BodiesAsSent, IsPrefix, s, t, m
<1>6. BodyEnds
  <2>1. response \in Reader /\ arrived \in 0 .. N /\ N \in Nat
    BY AnswerBytes DEF AnswerOK
  <2>2. response.wants # "crash"
    BY <2>1, ReaderTypes
  <2>3. ASSUME response.wants = "done" PROVE bodies = Wanted
    <3>1. Len(bodies) = Len(P)
      BY <2>3 DEF AnswerOK, P
    <3> QED BY <1>1, <1>2, <1>3, <3>1, SeqEqual DEF m
  <2>4. ASSUME response.wants = "exactly" PROVE response.need <= N - arrived /\ response.need > 0
    <3>1. response.need > 0 /\ arrived + response.need <= N
      BY <2>4 DEF AnswerOK, InBody
    <3>2. response.need \in Int
      BY <2>1, ReaderTypes
    <3> QED BY <2>1, <3>1, <3>2
  <2>5. ASSUME response.wants = "some" PROVE arrived < N
    <3> DEFINE p == Start(answer, m)
    <3>1. answer.chunked /\ Len(response.buffer) < 3 /\ Len(response.buffer) = arrived - p /\ m <= Len(answer.sizes)
      BY <2>5 DEF AnswerOK, InBody, Filled
    <3>2. p \in Nat /\ p + 5 <= N
      BY <1>4, <3>1, Starts
    <3> HIDE DEF p
    <3> QED BY <2>1, <3>1, <3>2
  <2> QED BY <2>2, <2>3, <2>4, <2>5 DEF BodyEnds
<1> QED BY <1>5, <1>6

\* In every state of a request ClientSafe holds: uploads go out in order to their
\* end, and what get_body returns is the body as sent, to its end, however the
\* answer is cut (xhttp_client.hpp, response.hpp).
THEOREM ClientIsSafe == HttpClientSpec => []ClientSafe
<1>1. HttpClientInit => ClientInv
  BY ClientStarts
<1>2. ClientInv /\ [HttpClientNext]_clientVars => ClientInv'
  BY ClientSteps
<1>3. ClientInv => ClientSafe
  <2> SUFFICES ASSUME ClientInv PROVE ClientSafe
    OBVIOUS
  <2>1. /\ request \in Uploads /\ answer \in Bodies
        /\ UploadOK(request, client, sends) /\ AnswerOK(answer, arrived, response, bodies)
    BY DEF ClientInv
  <2>2. UploadInOrder /\ FormsEnd /\ BodiesAsSent /\ BodyEnds
    BY <2>1, UploadSafe, BodySafe
  <2>3. HttpClientTypeOK
    <3>1. response \in Reader /\ arrived \in 0 .. Len(Answered(answer))
      BY <2>1 DEF AnswerOK
    <3>2. response.wants = "exactly" => response.need > 0
      BY <2>1 DEF AnswerOK, InBody
    <3>3. response.wants \in {"head", "some", "exactly", "resumed", "done", "crash"}
      BY <3>1, ReaderTypes
    <3> QED BY <2>1, <3>1, <3>2, <3>3, UploadSafe DEF HttpClientTypeOK
  <2> QED BY <2>2, <2>3 DEF ClientSafe
<1> QED BY <1>1, <1>2, <1>3, PTL DEF HttpClientSpec

=============================================================================
