--------------------------- MODULE SocketIoPackets ---------------------------
(***************************************************************************)
(* The packets of xsocket.io: decode_packet over what a client posts or    *)
(* sends in a frame, and encode_packet.  A text is a sequence of character *)
(* codes; a packet is its type, the type of its payload (100 for none),    *)
(* its namespace, its number (0 for none) and its payload.                 *)
(***************************************************************************)
EXTENDS Naturals, Sequences, SequencesExt

CONSTANTS
  Posts,   \* sequences of packets that a client posts
  Singles  \* packets that it sends in frames, or that are read as encode_packet writes them

None_ == 100
Root == <<47>>              \* "/"
Comma_ == 44
Colon_ == 58
Digit(c) == 48 <= c /\ c <= 57

RECURSIVE Decimal(_)
Decimal(n) == IF n < 10 THEN <<48 + n>> ELSE Append(Decimal(n \div 10), 48 + (n % 10))
RECURSIVE Strtol(_)
Strtol(digits) == IF digits = <<>> THEN 0 ELSE 10 * Strtol(Front(digits)) + Last(digits) - 48

PayloadType(p) == IF p.payload_type = None_ THEN <<>> ELSE <<48 + p.payload_type>>

\* encode_packet for a websocket, of a packet without a number.
EncodePacket(p) ==
  LET nsp == p.type = 4 /\ p.nsp # Root
  IN <<48 + p.type>> \o PayloadType(p) \o (IF nsp THEN p.nsp ELSE <<>>)
       \o (IF nsp /\ p.payload # <<>> THEN <<Comma_>> ELSE <<>>) \o p.payload

\* What a client writes, and how it joins what it posts.
Written_(p) ==
  <<48 + p.type>> \o PayloadType(p)
    \o (IF p.nsp = Root THEN <<>> ELSE p.nsp \o (IF p.payload = <<>> THEN <<>> ELSE <<Comma_>>))
    \o (IF p.id = 0 THEN <<>> ELSE Decimal(p.id)) \o p.payload
Posted(ps) == FlattenSeq([i \in DOMAIN ps |-> Decimal(Len(Written_(ps[i]))) \o <<Colon_>> \o Written_(ps[i])])

---------------------------------------------------------------------------

VARIABLES
  source,    \* the packets, whether a post or a frame, and whether of a client
  read_,     \* pos: the characters read
  decoded,   \* the packets
  decode     \* whether decode_packet runs, has returned or has thrown

sioPacketVars == <<source, read_, decoded, decode>>

PacketText ==
  CASE source.by = "post" -> Posted(source.packets)
    [] source.by = "frame" -> Written_(source.packets[1])
    [] source.by = "server" -> EncodePacket(source.packets[1])
TextLength == Len(PacketText)
Char(p) == PacketText[p + 1]

SioPacketInit ==
  /\ source \in [by : {"post"}, packets : Posts] \cup [by : {"frame", "server"}, packets : {<<p>> : p \in Singles}]
  /\ source.by = "server" => source.packets[1].id = 0
  /\ read_ = 0 /\ decoded = <<>> /\ decode = "runs"

SioPacketTypeOK ==
  /\ read_ \in 0..TextLength /\ decode \in {"runs", "returned", "thrown"}
  /\ \A i \in DOMAIN decoded : decoded[i].type \in 0..6 /\ decoded[i].payload_type \in 0..6 \cup {None_}

\* The length of a packet and where it starts; a frame is one packet.
LengthAt(p) ==
  IF source.by # "post" THEN [ok |-> TRUE, len |-> TextLength, at |-> p]
  ELSE LET colon == SelectInSubSeq(PacketText, p + 1, TextLength, LAMBDA c : ~Digit(c))
           len == Strtol(SubSeq(PacketText, p + 1, (IF colon = 0 THEN TextLength ELSE colon - 1)))
       IN [ok |-> colon # 0 /\ len > 0 /\ PacketText[colon] = Colon_ /\ colon < TextLength, len |-> len, at |-> colon]

\* A namespace at p runs to a comma, or to the end of all that was posted.
NamespaceAt(p) ==
  IF p >= TextLength \/ Char(p) # 47 THEN [nsp |-> Root, at |-> p]
  ELSE LET comma == SelectInSubSeq(PacketText, p + 1, TextLength, LAMBDA c : c = Comma_)
       IN IF comma = 0 THEN [nsp |-> SubSeq(PacketText, p + 1, TextLength), at |-> TextLength]
          ELSE [nsp |-> SubSeq(PacketText, p + 1, comma - 1), at |-> comma]

NumberAt(p) ==
  LET behind == SelectInSubSeq(PacketText, p + 1, TextLength, LAMBDA c : ~Digit(c)) IN IF behind = 0 THEN TextLength ELSE behind - 1

DecodedPacket(p, at_) == read_' = at_ /\ decoded' = Append(decoded, p) /\ UNCHANGED <<source, decode>>
Thrown == decode' = "thrown" /\ UNCHANGED <<source, read_, decoded>>
Type_(p) == [type |-> Char(p) - 48, payload_type |-> None_, nsp |-> Root, id |-> 0, payload |-> <<>>]

DecodePacket ==
  /\ decode = "runs" /\ read_ < TextLength
  /\ LET length == LengthAt(read_)
         ends == length.at + length.len
         p == Type_(length.at)
         behind_ == NamespaceAt(length.at + 2)
         number == NumberAt(behind_.at)
     IN CASE ~length.ok -> Thrown
          [] length.ok /\ Char(length.at) \notin 48..54 -> Thrown
          [] length.ok /\ p.type \in 0..6 /\ length.len = 1 -> DecodedPacket(p, length.at + 1)
          [] length.ok /\ p.type = 2 /\ length.len > 1 ->
               DecodedPacket([p EXCEPT !.payload = SubSeq(PacketText, length.at + 2, ends)], ends)
          [] length.ok /\ p.type \in 0..6 \ {2} /\ length.len > 1 ->
               IF Char(length.at + 1) \notin 48..54 THEN Thrown
               ELSE LET t == [p EXCEPT !.payload_type = Char(length.at + 1) - 48]
                    IN IF length.len = 2 THEN DecodedPacket(t, ends)
                       ELSE IF number > ends THEN Thrown
                       ELSE DecodedPacket([t EXCEPT !.nsp = behind_.nsp, !.id = Strtol(SubSeq(PacketText, behind_.at + 1, number)),
                                              !.payload = SubSeq(PacketText, number + 1, ends)], ends)

DecodeEnds ==
  /\ decode = "runs" /\ read_ = TextLength /\ decode' = "returned" /\ UNCHANGED <<source, read_, decoded>>

SioPacketNext == DecodePacket \/ DecodeEnds

SioPacketSpec == SioPacketInit /\ [][SioPacketNext]_sioPacketVars

---------------------------------------------------------------------------

\* Without a payload a namespace ends with its packet.
Bare(p) == p.nsp # Root /\ p.payload = <<>>

\* PacketsDecoded: decode_packet gives the packets sent, each with all its fields.
PacketsDecoded == IsPrefix(decoded, source.packets) /\ (decode = "returned" => decoded = source.packets)

\* ThrownAtBare: it throws only at a namespace that no comma ends and something follows.
ThrownAtBare ==
  decode = "thrown" =>
    LET n == Len(decoded) + 1 IN n < Len(source.packets) /\ Bare(source.packets[n])

\* Packets are decoded as they were encoded.
PacketsSafe == SioPacketTypeOK /\ PacketsDecoded /\ ThrownAtBare

=============================================================================
