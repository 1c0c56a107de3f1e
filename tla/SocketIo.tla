------------------------------ MODULE SocketIo ------------------------------
(***************************************************************************)
(* xsocket.io: the sockets of an xserver, which one thread serves.  A      *)
(* socket is polled by its client, then upgraded to a websocket; what it   *)
(* sends waits for a poll or for the send before it.  Handlers of events   *)
(* join and leave rooms and emit.  A packet is its type and a number.      *)
(***************************************************************************)
EXTENDS Naturals, Sequences, FiniteSets

CONSTANTS
  Sockets, RoomNames,
  Namespaces,   \* those clients name
  Known,        \* those with a handler of connections
  MaxEmits,     \* bound on the packets that handlers and the server emit
  MaxAsks       \* bound on the packets of all clients

ASSUME SioAssumption == /\ "/" \in Known /\ Known \subseteq Namespaces
                        /\ MaxEmits \in Nat /\ MaxAsks \in Nat

VARIABLES
  socks,     \* the sockets
  members,   \* rooms_: <<namespace, room, socket>>
  running,   \* the sockets whose handler of an event runs: at most one
  emits,     \* the number of packets emitted
  toRooms,   \* ghost: those that were emitted to rooms of a socket's namespace
  asks       \* the number of packets from clients

sioVars == <<socks, members, running, emits, toRooms, asks>>

\* A socket: whether it is in sockets_, its flags, packets_, is_send_, timer_id_,
\* rooms_ and whether polling_ can be locked; of its client, whether it waits for the
\* answer to a poll and the packets it was told; what was given to send_packet, and how often its handler of "disconnect" ran.
NewSocket ==
  [registered |-> FALSE, connect_ack |-> FALSE, upgrade |-> FALSE, is_close |-> FALSE, nsp |-> "/",
   packets |-> <<>>, is_send |-> FALSE, timer |-> FALSE, rooms |-> {}, polling |-> FALSE,
   due |-> FALSE, told |-> <<>>, given |-> <<>>, closed |-> 0]

SioInit ==
  /\ socks = [s \in Sockets |-> NewSocket] /\ members = {} /\ running = {}
  /\ emits = 0 /\ toRooms = {} /\ asks = 0

Packet(type, n) == [type |-> type, n |-> n]

SioTypeOK ==
  /\ \A s \in Sockets : socks[s].nsp \in Namespaces /\ socks[s].rooms \subseteq RoomNames
  /\ members \subseteq Namespaces \X RoomNames \X Sockets
  /\ Cardinality(running) <= 1 /\ emits <= MaxEmits /\ toRooms \subseteq 1..emits /\ asks <= MaxAsks
  /\ \A s \in Sockets : socks[s].is_send => socks[s].upgrade

---------------------------------------------------------------------------
(* What a socket sends.                                                    *)

Respond(k, packets) == [k EXCEPT !.told = @ \o packets, !.due = FALSE]
SendFrame(k, packets) == [k EXCEPT !.told = @ \o packets, !.is_send = TRUE]
Noop == <<>>   \* send_noop: a packet that says nothing

\* send_packet.  The request of the last poll is taken as long as it exists, even when
\* its poll was answered.
SendPacket(k_, p) ==
  LET k == [k_ EXCEPT !.given = Append(@, p)]
  IN CASE ~k.upgrade /\ k.polling -> Respond(k, <<p>>)
       [] k.upgrade /\ k.packets = <<>> /\ ~k.is_send -> SendFrame(k, <<p>>)
       [] OTHER -> [k EXCEPT !.packets = Append(@, p)]

\* Packets that waited go together, in one frame as well.
Flush(k) ==
  IF k.packets = <<>> THEN k
  ELSE LET e == [k EXCEPT !.packets = <<>>] IN IF k.upgrade THEN SendFrame(e, k.packets) ELSE Respond(e, k.packets)

\* on_close: the socket is erased and with it destroyed; its destructor cancels the
\* timer and leaves the rooms.  Nothing of it is left.
OnClose_(k) ==
  [NewSocket EXCEPT !.closed = k.closed + (IF k.connect_ack THEN 1 ELSE 0), !.due = k.due]

---------------------------------------------------------------------------
(* Requests.                                                               *)

Idle == running = {}
Asks == Idle /\ asks < MaxAsks /\ asks' = asks + 1
Change(s, k) == socks' = [socks EXCEPT ![s] = k]

\* A GET without a session: new_socket.
NewSession(s) ==
  /\ Idle /\ socks[s] \in {NewSocket, [NewSocket EXCEPT !.due = TRUE]} /\ Change(s, [socks[s] EXCEPT !.registered = TRUE])
  /\ UNCHANGED <<members, running, emits, toRooms, asks>>

\* connect_ack: the handler of connections may emit or join a room.
ConnectAck(s) ==
  LET k == SendPacket([socks[s] EXCEPT !.connect_ack = TRUE], Packet("connect", 0))
      second == Packet(IF k.nsp \in Known THEN "connect" ELSE "error", 1)
      answered(e) == Flush(IF e.nsp = "/" THEN e ELSE SendPacket(e, second))
  IN \/ Change(s, answered(k)) /\ UNCHANGED <<members, emits>>
     \/ /\ k.nsp \in Known /\ emits < MaxEmits /\ emits' = emits + 1
        /\ Change(s, answered(SendPacket(k, Packet("event", emits + 1)))) /\ UNCHANGED members
     \/ \E r \in RoomNames :
          /\ k.nsp \in Known /\ members' = members \cup {<<k.nsp, r, s>>}
          /\ Change(s, answered([k EXCEPT !.rooms = @ \cup {r}])) /\ UNCHANGED emits

\* A poll, of a client that waits for none: on_polling.
Poll(s) ==
  /\ Idle /\ socks[s].registered /\ ~socks[s].due
  /\ IF ~socks[s].connect_ack THEN ConnectAck(s)
     ELSE /\ Change(s, IF socks[s].upgrade THEN Respond(socks[s], Noop)
                       ELSE Flush([socks[s] EXCEPT !.polling = TRUE, !.due = TRUE]))
          /\ UNCHANGED <<members, emits>>
  /\ UNCHANGED <<running, toRooms, asks>>

\* The connection of the last poll is lost and its request destroyed.
PollLost(s) ==
  /\ Idle /\ socks[s].polling /\ Change(s, [socks[s] EXCEPT !.polling = FALSE, !.due = FALSE])
  /\ UNCHANGED <<members, running, emits, toRooms, asks>>

\* on_packet: an event is handled in the namespace of the packet before it, and like
\* a connect it makes its namespace the socket's.
OnPacket(k, type, nsp) ==
  CASE type = "ping" -> [SendPacket(k, Packet("pong", asks + 1)) EXCEPT !.timer = TRUE]
    [] type = "close" -> [k EXCEPT !.is_close = TRUE]
    [] OTHER -> [k EXCEPT !.nsp = nsp]
Handles(k, type, nsp) == type = "event" /\ k.connect_ack /\ nsp = k.nsp

Types == {"ping", "close", "event", "connect"}

\* A POST.
Post_(s) ==
  /\ Asks /\ socks[s].registered
  /\ \E type \in Types, nsp \in Namespaces :
       /\ Change(s, OnPacket(socks[s], type, nsp))
       /\ running' = IF Handles(socks[s], type, nsp) THEN {s} ELSE {}
  /\ UNCHANGED <<members, emits, toRooms>>

\* handle_Upgrade, of a client that has its first answer.  What waits is sent behind the
\* handshake; the last poll gets a noop.
Upgraded(k) ==
  LET u == [k EXCEPT !.upgrade = TRUE, !.is_send = TRUE]
  IN IF k.polling THEN Respond(u, Noop) ELSE u
Upgrade(s) ==
  /\ Idle /\ socks[s].registered /\ socks[s].connect_ack /\ ~socks[s].upgrade /\ Change(s, Upgraded(socks[s]))
  /\ UNCHANGED <<members, running, emits, toRooms, asks>>

WebsocketSent(s) ==
  /\ Idle /\ socks[s].registered /\ socks[s].is_send
  /\ Change(s, Flush([socks[s] EXCEPT !.is_send = FALSE]))
  /\ UNCHANGED <<members, running, emits, toRooms, asks>>

WebsocketLost(s) ==
  /\ Idle /\ socks[s].registered /\ socks[s].upgrade /\ Change(s, OnClose_(socks[s]))
  /\ UNCHANGED <<members, running, emits, toRooms, asks>>

\* A frame from the client; a handler runs before what is behind it.
WebsocketFrame(s) ==
  /\ Asks /\ socks[s].registered /\ socks[s].upgrade
  /\ \E type \in Types, nsp \in Namespaces :
       LET k == OnPacket(socks[s], type, nsp)
       IN /\ Change(s, IF k.is_close /\ ~Handles(socks[s], type, nsp) THEN OnClose_(k) ELSE k)
          /\ running' = IF Handles(socks[s], type, nsp) THEN {s} ELSE {}
  /\ UNCHANGED <<members, emits, toRooms>>

\* The timer that a ping has set.
Timeout_(s) ==
  /\ Idle /\ socks[s].registered /\ socks[s].timer
  /\ Change(s, OnClose_(SendPacket(socks[s], Packet("close", 0))))
  /\ UNCHANGED <<members, running, emits, toRooms, asks>>

---------------------------------------------------------------------------
(* Handlers, and emits of the server.                                      *)

\* The handler is left; a websocket that was told to close before is closed.
Left(ks, s) == [ks EXCEPT ![s] = IF @.upgrade /\ @.is_close THEN OnClose_(@) ELSE @]
Returns_(s) == s \in running /\ running' = {}

Quiet(s) == Returns_(s) /\ socks' = Left(socks, s) /\ UNCHANGED <<members, emits, toRooms, asks>>

Join(s) ==
  /\ Returns_(s)
  /\ \E r \in RoomNames \ socks[s].rooms :
       /\ members' = members \cup {<<socks[s].nsp, r, s>>}
       /\ socks' = Left([socks EXCEPT ![s].rooms = @ \cup {r}], s)
  /\ UNCHANGED <<emits, toRooms, asks>>

\* leave_room_ takes the room for the namespace and the namespace for the room.
Leave(s) ==
  /\ Returns_(s)
  /\ \E r \in socks[s].rooms :
       /\ members' = members \ {<<r, socks[s].nsp, s>>}
       /\ socks' = Left([socks EXCEPT ![s].rooms = @ \ {r}], s)
  /\ UNCHANGED <<emits, toRooms, asks>>

\* A packet for the sockets given, to each as often as it is given.
EmitTo(times) ==
  [s \in Sockets |->
     LET p == Packet("event", emits + 1)
     IN CASE ~socks[s].registered \/ times[s] = 0 -> socks[s]
          [] socks[s].registered /\ times[s] = 1 -> SendPacket(socks[s], p)
          [] OTHER -> SendPacket(SendPacket(socks[s], p), p)]

\* Who is in the rooms of the namespace, each as often as he is.
InRooms(nsp, rooms) == [s \in Sockets |-> Cardinality({r \in rooms : <<nsp, r, s>> \in members})]

\* broadcast_room: everyone once, the sender as well.
\* Mutant: once for every room.
ToRoomsEach(s, rooms) ==
  [t \in Sockets |-> IF socks[t].nsp = socks[s].nsp THEN InRooms(socks[s].nsp, rooms)[t] ELSE 0]
ToRooms(s, rooms) ==
  [t \in Sockets |-> IF socks[t].nsp = socks[s].nsp /\ InRooms(socks[s].nsp, rooms)[t] > 0 THEN 1 ELSE 0]

\* do_broadcast without rooms.
ToOthers(s) == [t \in Sockets |-> IF t # s /\ socks[t].nsp = socks[s].nsp THEN 1 ELSE 0]

Emitting == emits < MaxEmits /\ emits' = emits + 1 /\ UNCHANGED <<members, asks>>

Emit(s) ==
  /\ Returns_(s) /\ Emitting
  /\ \/ socks' = Left(EmitTo([t \in Sockets |-> IF t = s THEN 1 ELSE 0]), s) /\ UNCHANGED toRooms
     \/ socks' = Left(EmitTo(ToOthers(s)), s) /\ UNCHANGED toRooms
     \/ \E rooms \in (SUBSET RoomNames) \ {{}} :
          socks' = Left(EmitTo(ToRooms(s, rooms)), s) /\ toRooms' = toRooms \cup {emits + 1}

\* xserver::do_emit: who is in two of the rooms gets the packet twice.
DoEmit ==
  /\ Idle /\ Emitting /\ UNCHANGED <<running, toRooms>>
  /\ \E nsp \in Namespaces, rooms \in SUBSET RoomNames :
       socks' = EmitTo(IF rooms # {} THEN InRooms(nsp, rooms)
                       ELSE [s \in Sockets |-> IF nsp \in {"/", socks[s].nsp} THEN 1 ELSE 0])

SioNext ==
  \/ \E s \in Sockets :
       \/ NewSession(s) \/ Poll(s) \/ PollLost(s) \/ Post_(s) \/ Upgrade(s)
       \/ WebsocketSent(s) \/ WebsocketLost(s) \/ WebsocketFrame(s) \/ Timeout_(s)
       \/ Quiet(s) \/ Join(s) \/ Leave(s) \/ Emit(s)
  \/ DoEmit

SioSpec == SioInit /\ [][SioNext]_sioVars

---------------------------------------------------------------------------

\* SentInOrder_: what a socket is given to send is sent once and in its order, over the
\* polls and the websocket, or waits.
SentInOrder_ == \A s \in Sockets : socks[s].told \o socks[s].packets = socks[s].given

\* PollsAnswered: nothing waits while the client waits for the answer to a poll, and
\* no poll is left waiting by an upgrade.
PollsAnswered == \A s \in Sockets : socks[s].due => socks[s].packets = <<>> /\ ~socks[s].upgrade

\* LeftOnce: the handler of "disconnect" runs once for a socket and only at its end.
LeftOnce == \A s \in Sockets : socks[s].closed <= (IF socks[s].registered THEN 0 ELSE 1)

\* OnceEach: a packet for rooms reaches a socket in several of them once.
OnceEach ==
  \A s \in Sockets, n \in toRooms : \A i, j \in DOMAIN socks[s].given :
    socks[s].given[i] = Packet("event", n) /\ socks[s].given[j] = Packet("event", n) => i = j

\* Packets reach a socket in order and once, over whichever transport it has, and
\* the socket ends once.
SocketsSafe == SioTypeOK /\ SentInOrder_ /\ PollsAnswered /\ LeftOnce /\ OnceEach

=============================================================================
