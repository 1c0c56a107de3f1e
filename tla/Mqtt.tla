-------------------------------- MODULE Mqtt --------------------------------
(***************************************************************************)
(* MQTT packets: xmqtt's msg_packer, and packet_parser fed with the bytes  *)
(* in fragments of any size.  Bytes are numbers, a string is a sequence of *)
(* bytes, and a message carries the fields its type has in proto.hpp.      *)
(***************************************************************************)
EXTENDS Naturals, Sequences, FiniteSets, SequencesExt

CONSTANTS Streams   \* sequences of messages

ASSUME StreamsAssumption == \A s \in Streams : s # <<>>

TypeByte ==
  [connect |-> 16, connect_ack |-> 32, publish |-> 48, publish_ack |-> 64, publish_rec |-> 80,
   publish_rel |-> 96, publish_comp |-> 112, subscribe |-> 128, subscribe_ack |-> 144,
   unsubscribe |-> 160, unsubscribe_ack |-> 176, ping_req |-> 192, ping_rsp |-> 208, disconnect |-> 224]

OnlyId == {"publish_ack", "publish_rec", "publish_rel", "publish_comp", "unsubscribe_ack"}
Empty_ == {"ping_req", "ping_rsp", "disconnect"}

---------------------------------------------------------------------------
(* msg_packer.                                                             *)

U16(n) == <<n \div 256, n % 256>>
Text_(str) == U16(Len(str)) \o str            \* copy_data

RECURSIVE EncodeVarint(_)
EncodeVarint(n) == IF n < 128 THEN <<n>> ELSE <<128 + (n % 128)>> \o EncodeVarint(n \div 128)

Flag(set, bit) == IF set THEN bit ELSE 0
Given(texts) == texts # <<>>

\* A connect with a user but a password of its own, or a will, has them in these
\* fields; the quality of the will is packed as all or nothing, and of what is
\* kept alive the low byte as a truth value.
PackConnect(m) ==
  Text_(m.protocol) \o <<m.level>>
    \o <<Flag(Given(m.user), 128) + Flag(Given(m.password), 64) + Flag(m.retain, 32)
          + Flag(m.will_qos > 0, 24) + Flag(Given(m.will), 4) + Flag(m.clean, 2)>>
    \o <<m.keep_alive \div 256, Flag(m.keep_alive > 0, 1)>> \o Text_(m.client)
    \o FlattenSeq([i \in DOMAIN m.will |-> Text_(m.will[i])])
    \o FlattenSeq([i \in DOMAIN m.user |-> Text_(m.user[i])])
    \o FlattenSeq([i \in DOMAIN m.password |-> Text_(m.password[i])])

PackConnectAck(m) == <<Flag(m.present, 1), m.code>>
PackPublish(m) == Text_(m.topic) \o (IF m.qos > 0 THEN U16(m.id) ELSE <<>>) \o m.payload
PackSubscribe(m) ==
  U16(m.id) \o FlattenSeq([i \in DOMAIN m.topics |-> Text_(m.topics[i][1]) \o <<m.topics[i][2]>>])
PackUnsubscribe(m) == U16(m.id) \o FlattenSeq([i \in DOMAIN m.topics |-> Text_(m.topics[i])])
PackSubscribeAck(m) == U16(m.id) \o m.codes
PackId(m) == U16(m.id)
PackEmpty == <<>>

PackBody(m) ==
  CASE m.type = "connect" -> PackConnect(m)
    [] m.type = "connect_ack" -> PackConnectAck(m)
    [] m.type = "publish" -> PackPublish(m)
    [] m.type = "subscribe" -> PackSubscribe(m)
    [] m.type = "unsubscribe" -> PackUnsubscribe(m)
    [] m.type = "subscribe_ack" -> PackSubscribeAck(m)
    [] m.type \in OnlyId -> PackId(m)
    [] m.type \in Empty_ -> PackEmpty

FirstByte(m) ==
  TypeByte[m.type] + (CASE m.type \in {"publish_rel", "subscribe"} -> 2
                        [] m.type = "publish" -> Flag(m.dup, 8) + 2 * m.qos + Flag(m.retain, 1)
                        [] OTHER -> 0)

\* Of a publish with a long payload only the header is followed.
Big(m) == m.type = "publish" /\ "length" \in DOMAIN m
Pack(m) ==
  IF Big(m) THEN <<TypeByte["publish"]>> \o EncodeVarint(m.length)
  ELSE <<FirstByte(m)>> \o EncodeVarint(Len(PackBody(m))) \o PackBody(m)

---------------------------------------------------------------------------
(* check_utf8: a character of two bytes is taken for cut off unless it is; *)
(* one of three or four needs its bytes in range.                          *)

In(b, lo, hi) == lo <= b /\ b <= hi
Second(b) == CASE b = 224 -> <<160, 191>> [] b = 237 -> <<128, 159>> [] b = 240 -> <<144, 191>>
               [] b = 244 -> <<128, 143>> [] OTHER -> <<128, 191>>
Width(b) == CASE b <= 127 -> 1 [] In(b, 224, 239) -> 3 [] In(b, 240, 244) -> 4 [] OTHER -> 0
RECURSIVE CheckUtf8(_)
CheckUtf8(s) ==
  \/ s = <<>>
  \/ LET w == Width(s[1]) IN
     /\ s[1] # 0 /\ w > 0 /\ w <= Len(s)
     /\ w > 1 => In(s[2], Second(s[1])[1], Second(s[1])[2]) /\ \A i \in 3..w : In(s[i], 128, 191)
     /\ CheckUtf8(SubSeq(s, w + 1, Len(s)))

---------------------------------------------------------------------------
(* packet_parser: the messages.                                            *)

Bad == [type |-> "bad"]
NoText == <<>>   \* none that could be read: no string of a message is empty here
Ntoh16(b, p) == 256 * b[p] + b[p + 1]
\* A string at p: whether it is there, and where what follows it starts.
TextAt(b, p) == p + 1 <= Len(b) /\ p + 1 + Ntoh16(b, p) <= Len(b)
After(b, p) == p + 2 + Ntoh16(b, p)
TextOf(b, p) == SubSeq(b, p + 2, After(b, p) - 1)
Bit(b, bit) == (b \div bit) % 2 = 1

\* The strings of a connect behind its client id, in a row, none of them empty.
RECURSIVE TextsAt(_, _, _)
TextsAt(b, p, n) ==
  IF n = 0 THEN IF p = Len(b) + 1 THEN <<>> ELSE <<NoText>>
  ELSE IF ~TextAt(b, p) \/ Ntoh16(b, p) = 0 THEN <<NoText>>
  ELSE <<TextOf(b, p)>> \o TextsAt(b, After(b, p), n - 1)

ParseConnect(first, b) ==
  IF ~TextAt(b, 1) \/ Ntoh16(b, 1) = 0 \/ After(b, 1) + 3 > Len(b) \/ ~TextAt(b, After(b, 1) + 4) THEN Bad
  ELSE LET p == After(b, 1)
           flags == b[p + 1]
           will == IF Bit(flags, 4) THEN 2 ELSE 0
           user == IF Bit(flags, 128) THEN 1 ELSE 0
           password == IF Bit(flags, 64) THEN 1 ELSE 0
           texts == TextsAt(b, After(b, p + 4), will + user + password)
       IN IF \/ ((first % 8) \div 2 = 1 /\ b[p] # 3)
             \/ (texts # <<>> /\ Last(texts) = NoText)
             \/ (will = 2 /\ ~CheckUtf8(texts[1]))
          THEN Bad
          ELSE [type |-> "connect", protocol |-> TextOf(b, 1), level |-> b[p],
                retain |-> Bit(flags, 32), will_qos |-> (flags \div 8) % 4, clean |-> Bit(flags, 2),
                keep_alive |-> 256 * b[p + 2] + b[p + 3], client |-> TextOf(b, p + 4),
                will |-> SubSeq(texts, 1, will), user |-> SubSeq(texts, will + 1, will + user),
                password |-> SubSeq(texts, will + user + 1, will + user + password)]

ParseConnectAck(b) ==
  IF Len(b) # 2 THEN Bad ELSE [type |-> "connect_ack", present |-> Bit(b[1], 1), code |-> b[2]]

ParsePublish(first, b) ==
  LET qos == (first % 8) \div 2
      p == After(b, 1)
      behind_ == p + (IF qos > 0 THEN 2 ELSE 0)
  IN IF ~TextAt(b, 1) \/ Ntoh16(b, 1) = 0 \/ ~CheckUtf8(TextOf(b, 1)) \/ behind_ > Len(b) + 1 THEN Bad
     ELSE [type |-> "publish", dup |-> Bit(first, 8), qos |-> qos, retain |-> Bit(first, 1),
           topic |-> TextOf(b, 1), id |-> IF qos > 0 THEN Ntoh16(b, p) ELSE 0,
           payload |-> SubSeq(b, behind_, Len(b))]

\* The topics of a subscribe, each with the quality asked for, or an unsubscribe.
RECURSIVE Topics(_, _, _)
Topics(b, p, qos) ==
  IF p > Len(b) THEN <<>>
  ELSE IF \/ ~TextAt(b, p) \/ Ntoh16(b, p) = 0 \/ ~CheckUtf8(TextOf(b, p))
          \/ (qos /\ (After(b, p) > Len(b) \/ b[After(b, p)] > 3))
  THEN <<NoText>>
  ELSE IF qos THEN <<<<TextOf(b, p), b[After(b, p)]>>>> \o Topics(b, After(b, p) + 1, qos)
  ELSE <<TextOf(b, p)>> \o Topics(b, After(b, p), qos)

ParseSubscribe(flags, b) ==
  LET topics == Topics(b, 3, TRUE)
  IN IF (flags % 8) \div 2 # 1 \/ Len(b) < 2 \/ topics = <<>> \/ Last(topics) = NoText THEN Bad
     ELSE [type |-> "subscribe", id |-> Ntoh16(b, 1), topics |-> topics]

ParseUnsubscribe(flags, b) ==
  LET topics == Topics(b, 3, FALSE)
  IN IF flags # 0 \/ Len(b) < 2 \/ (topics # <<>> /\ Last(topics) = NoText) THEN Bad
     ELSE [type |-> "unsubscribe", id |-> Ntoh16(b, 1), topics |-> topics]

\* Every code of a subscribe_ack is read from the first byte of the message.
ParseSubscribeAck(flags, b) ==
  IF flags # 0 \/ Len(b) < 3 THEN Bad
  ELSE [type |-> "subscribe_ack", id |-> Ntoh16(b, 1), codes |-> [i \in 1..(Len(b) - 2) |-> b[1]]]

ParseId(type, flags, b) ==
  IF flags # (IF type = "publish_rel" THEN 2 ELSE 0) \/ Len(b) # 2 THEN Bad
  ELSE [type |-> type, id |-> Ntoh16(b, 1)]

ParseEmpty(type, flags, b) == IF flags # 0 \/ b # <<>> THEN Bad ELSE [type |-> type]

TypeOf(first) == {t \in DOMAIN TypeByte : TypeByte[t] = 16 * (first \div 16)}
ParseMsg(first, b) ==
  IF TypeOf(first) = {} THEN Bad
  ELSE LET t == CHOOSE t \in TypeOf(first) : TRUE
           flags == first % 16
       IN CASE t = "connect" -> ParseConnect(first, b)
            [] t = "connect_ack" -> ParseConnectAck(b)
            [] t = "publish" -> ParsePublish(first, b)
            [] t = "subscribe" -> ParseSubscribe(flags, b)
            [] t = "unsubscribe" -> ParseUnsubscribe(flags, b)
            [] t = "subscribe_ack" -> ParseSubscribeAck(flags, b)
            [] t \in OnlyId -> ParseId(t, flags, b)
            [] t \in Empty_ -> ParseEmpty(t, flags, b)

---------------------------------------------------------------------------
(* packet_parser: the bytes.                                               *)

VARIABLES
  packets,   \* the messages sent
  fed,       \* how many of their bytes were handed to do_parse
  left,      \* what is left of the fragment
  framing,   \* step_, fixed_header_ and variant32_shift_
  body,      \* buffer_
  got,       \* the messages handed to the handlers
  mqtt       \* whether do_parse runs, waits or has returned false

mqttVars == <<packets, fed, left, framing, body, got, mqtt>>

Bytes == FlattenSeq([i \in DOMAIN packets |-> Pack(packets[i])])

MqttInit ==
  /\ packets \in Streams /\ fed = 0 /\ left = <<>> /\ body = <<>> /\ got = <<>> /\ mqtt = "waits"
  /\ framing = [step |-> "type", first |-> 0, remaining |-> 0, shift |-> 0]

MqttTypeOK ==
  /\ packets \in Streams /\ fed \in 0..Len(Bytes) /\ Len(left) <= fed
  /\ framing.step \in {"type", "length", "data"} /\ framing.first \in 0..255
  /\ framing.shift \in {0, 7, 14, 21, 28}
  /\ framing.step = "data" => Len(body) <= framing.remaining
  /\ mqtt \in {"waits", "parses", "false"}

Feed(n) ==
  /\ mqtt = "waits" /\ n \in 1..(Len(Bytes) - fed)
  /\ fed' = fed + n /\ left' = SubSeq(Bytes, fed + 1, fed + n) /\ mqtt' = "parses"
  /\ UNCHANGED <<packets, framing, body, got>>

Parsed(h, b) ==
  LET msg == ParseMsg(h.first, b)
  IN IF msg = Bad THEN mqtt' = "false" /\ got' = got ELSE mqtt' = mqtt /\ got' = Append(got, msg)

ParseType ==
  /\ mqtt = "parses" /\ left # <<>> /\ framing.step = "type"
  /\ framing' = [framing EXCEPT !.step = "length", !.first = Head(left), !.remaining = 0]
  /\ left' = Tail(left) /\ UNCHANGED <<packets, fed, body, got, mqtt>>

\* The bits that a byte with more behind it adds: the shift binds tighter than
\* the mask, so that the second adds its highest bit and later ones nothing.
MoreBits(value, shift) == CASE shift = 0 -> value % 128 [] shift = 7 -> 128 [] OTHER -> 0

ParseLength ==
  /\ mqtt = "parses" /\ left # <<>> /\ framing.step = "length"
  /\ LET value == Head(left)
         more == value >= 128
         h == IF more THEN [framing EXCEPT !.remaining = @ + MoreBits(value, framing.shift), !.shift = @ + 7]
              ELSE [framing EXCEPT !.remaining = @ + value * 2 ^ framing.shift, !.shift = 0, !.step = "data"]
         ends == ~more \/ (h.shift >= 21 /\ Len(left) > 1)
     IN IF ends /\ h.remaining = 0
        THEN framing' = [h EXCEPT !.step = "type"] /\ body' = <<>> /\ Parsed(h, <<>>)
        ELSE framing' = h /\ body' = (IF more THEN body ELSE <<>>) /\ UNCHANGED <<got, mqtt>>
  /\ left' = Tail(left) /\ UNCHANGED <<packets, fed>>

Missing == framing.remaining - Len(body)
TakeMissing == IF Missing < Len(left) THEN Missing ELSE Len(left)

StoreRemaining ==
  /\ mqtt = "parses" /\ left # <<>> /\ framing.step = "data"
  /\ LET b == body \o SubSeq(left, 1, TakeMissing)
     IN /\ left' = SubSeq(left, TakeMissing + 1, Len(left)) /\ body' = b
        /\ IF Len(b) = framing.remaining
           THEN framing' = [framing EXCEPT !.step = "type"] /\ Parsed(framing, b)
           ELSE UNCHANGED <<framing, got, mqtt>>
  /\ UNCHANGED <<packets, fed>>

FragmentEnds ==
  /\ mqtt = "parses" /\ left = <<>> /\ mqtt' = "waits"
  /\ UNCHANGED <<packets, fed, left, framing, body, got>>

MqttNext ==
  \/ \E n \in 1..(Len(Bytes) - fed) : Feed(n)
  \/ ParseType \/ ParseLength \/ StoreRemaining \/ FragmentEnds

MqttSpec == MqttInit /\ [][MqttNext]_mqttVars

---------------------------------------------------------------------------

\* What a message is read back as: the time to keep alive loses its low byte but
\* for whether it was set, the quality of a will is the highest or none, and the
\* codes of a subscribe_ack are all the high byte of its number.
ReadAs(m) ==
  CASE m.type = "connect" -> [m EXCEPT !.keep_alive = 256 * (@ \div 256) + Flag(@ > 0, 1),
                                       !.will_qos = IF @ > 0 THEN 3 ELSE 0]
    [] m.type = "subscribe_ack" -> [m EXCEPT !.codes = [i \in DOMAIN @ |-> m.id \div 256]]
    [] OTHER -> m

\* Characters of two bytes, which no topic may have
TwoBytes(str) == \E i \in DOMAIN str : In(str[i], 194, 223)
Refused(m) ==
  \/ m.type = "publish" /\ ~Big(m) /\ TwoBytes(m.topic)
  \/ m.type = "subscribe" /\ \E i \in DOMAIN m.topics : TwoBytes(m.topics[i][1])

\* PacketsRead: however the bytes are cut, the handlers get the messages sent, in
\* their order, each once and, but for what ReadAs says, with all its fields.
PacketsRead ==
  IsPrefix(got, [i \in DOMAIN packets |-> ReadAs(packets[i])])

\* PacketsEnd: do_parse fails only at a topic with a character of two bytes, and
\* when all bytes are in every message was read.
PacketsEnd ==
  /\ mqtt = "false" => Refused(packets[Len(got) + 1])
  /\ (mqtt = "waits" /\ fed = Len(Bytes)) => Len(got) >= Len(packets) - (IF Big(Last(packets)) THEN 1 ELSE 0)

\* LengthRead: the length of a message is the one sent up to 16383 bytes; of a
\* longer one the second seven bits are read as one.
LengthRead ==
  (framing.step = "data" /\ Big(Last(packets)) /\ Len(got) = Len(packets) - 1) =>
    LET n == Last(packets).length
    IN framing.remaining = IF n < 16384 THEN n ELSE 16384 * (n \div 16384) + 128 + (n % 128)

\* Messages are read as sent, to the last, with their lengths.
MqttRead == MqttTypeOK /\ PacketsRead /\ PacketsEnd /\ LengthRead

=============================================================================
