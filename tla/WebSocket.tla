----------------------------- MODULE WebSocket ------------------------------
(***************************************************************************)
(* A WebSocket connection of the server: session.hpp, frame_parser.hpp and *)
(* frame_builder.hpp of xwebsocket.                                        *)
(*                                                                         *)
(* The peer sends its handshake and then frames, each a sequence of bytes: *)
(* the type, the length, the bytes of a longer length, the key and the     *)
(* payload.  The stream is cut anywhere.  A payload byte is right when it  *)
(* is decoded with the key byte that coded it.  Two bytes stand for the    *)
(* bytes of a longer length, and a length of which a byte was lost is so   *)
(* large that the payload never ends.  When the parser takes another byte  *)
(* for the type of a frame it is "lost": what it delivers then is left out.*)
(***************************************************************************)
EXTENDS Naturals, Sequences, FiniteSets, SequencesExt

CONSTANTS Frames,      \* the sequences of frames that the peer may send
          MaxText      \* texts that the user sends

KeyLength == 4
Huge == 1000

Frame == [type : {"text", "close"}, len : Nat, long : BOOLEAN, masked : BOOLEAN]

\* Longer lengths are for payloads that the short one is too small for.
ASSUME FramesAssumption ==
  /\ MaxText \in Nat /\ Frames \subseteq Seq(Frame)
  /\ \A s \in Frames : \A i \in DOMAIN s : s[i].long => s[i].len > 0

VARIABLES
  wsSends,     \* the frames of the peer
  wsStream,    \* its bytes that have not arrived, the handshake first
  fragment,    \* what has arrived and is not parsed
  handshake,   \* make_handshake_
  refuses,     \* the request is no handshake: "no", "key", "upgrade"
  step,        \* parser_step_
  header,      \* frame_header_
  keyPos, extPos,
  payload,     \* payload_: how long it is, and whether its bytes are right
  wsState,     \* "open", "parses", "closed"
  delivered,   \* frames given to the frame callback
  closeTold,   \* how often close_callback_ was called
  outList, wsSending,   \* send_buffer_list_, and what is being written
  wsOut,       \* what the peer receives: texts by their numbers, and answers
  texts, answerAfter,   \* texts sent, and those sent before the request came
  wsCuts       \* history: the frames that were cut in their long length or their coding

wsVars == <<wsSends, wsStream, fragment, handshake, refuses, step, header, keyPos, extPos,
            payload, wsState, delivered, closeTold, outList, wsSending, wsOut, texts, answerAfter, wsCuts>>
parseVars == <<step, header, keyPos, extPos, payload, delivered>>
outVars   == <<outList, wsSending, wsOut, texts, answerAfter>>
peerVars  == <<wsSends, wsStream, refuses, wsCuts>>

---------------------------------------------------------------------------
\* What make_frame makes, but that make_frame leaves the key out of an empty
\* frame, which other peers do not.

Byte(f, what, i) == [of |-> f, what |-> what, i |-> i]
Part(f, what, n) == [i \in 1..n |-> Byte(f, what, i - 1)]

MakeFrame(f, frame) ==
  Part(f, "type", 1) \o Part(f, "len", 1)
  \o (IF frame.long THEN Part(f, "ext", 2) ELSE <<>>)
  \o (IF frame.masked THEN Part(f, "key", KeyLength) ELSE <<>>)
  \o Part(f, "data", frame.len)

NoHeader == [of |-> 0, len |-> 0, ext |-> <<>>, key |-> [i \in 0..(KeyLength - 1) |-> 9]]

Nothing == [len |-> 0, right |-> TRUE]

WsTypeOK ==
  /\ wsSends \in Frames /\ handshake \in BOOLEAN
  /\ step \in {"fixed", "len", "ext", "key", "data", "lost"}
  /\ keyPos \in 0..KeyLength /\ extPos \in 0..2
  /\ wsState \in {"open", "parses", "closed"}
  /\ closeTold \in 0..2 /\ texts \in 0..MaxText /\ answerAfter \in 0..texts
  /\ (wsState # "parses" => fragment = <<>>)

WsInit ==
  /\ wsSends \in Frames /\ refuses \in {"no", "key", "upgrade"}
  /\ wsStream = <<Byte(0, "handshake", 0)>> \o
                FlattenSeq([f \in 1..Len(wsSends) |-> MakeFrame(f, wsSends[f])])
  /\ fragment = <<>> /\ handshake = FALSE
  /\ step = "fixed" /\ header = NoHeader /\ keyPos = 0 /\ extPos = 0 /\ payload = Nothing
  /\ wsState = "open" /\ delivered = <<>> /\ closeTold = 0
  /\ outList = <<>> /\ wsSending = <<>> /\ wsOut = <<>> /\ texts = 0 /\ answerAfter = 0 /\ wsCuts = {}

---------------------------------------------------------------------------
\* Sending: one buffer is written at a time, the rest is listed.

Text(n) == <<"text", n>>
Answer(status) == <<"answer", status>>

SendData(list, sending, data) ==
  IF sending = <<>> THEN [list |-> list, sending |-> <<data>>]
  ELSE [list |-> Append(list, data), sending |-> sending]

\* send_text, of the frame callback or of another place of the same thread.
\* On a closed connection async_send throws to the caller.
SendText ==
  /\ texts < MaxText /\ wsState = "open"
  /\ texts' = texts + 1
  /\ LET s == SendData(outList, wsSending, Text(texts + 1))
     IN outList' = s.list /\ wsSending' = s.sending
  /\ UNCHANGED <<peerVars, fragment, handshake, parseVars, wsState, closeTold,
                 wsOut, answerAfter>>

SendCallback ==
  /\ wsSending # <<>> /\ wsState = "open"
  /\ wsOut' = wsOut \o wsSending
  /\ IF outList = <<>> THEN wsSending' = <<>> /\ UNCHANGED outList
     ELSE wsSending' = <<Head(outList)>> /\ outList' = Tail(outList)
  /\ UNCHANGED <<peerVars, fragment, handshake, parseVars, wsState, closeTold, texts, answerAfter>>

\* on_close: the peer has gone, noticed by a receive or by a send.
OnClose ==
  /\ wsState = "open"
  /\ wsState' = "closed" /\ closeTold' = closeTold + 1
  /\ UNCHANGED <<peerVars, fragment, handshake, parseVars, outVars>>

---------------------------------------------------------------------------
\* Receiving.

\* What is harmed by a cut before a byte.
Coded(b) == b.what = "key" \/ (b.what = "data" /\ wsSends[b.of].masked)
Harm(b) ==
  {<<c.of, IF c.what = "ext" THEN "length" ELSE "bytes">> :
     c \in {d \in {b} : (d.what = "ext" \/ Coded(d)) /\ d.i % KeyLength # 0}}

\* A fragment arrives.  The first takes the whole handshake: the parser of
\* the request is another module's.
Arrive(n) ==
  /\ wsState = "open" /\ n \in 1..Len(wsStream)
  /\ fragment' = SubSeq(wsStream, 1, n)
  /\ wsStream' = SubSeq(wsStream, n + 1, Len(wsStream))
  /\ wsState' = "parses"
  /\ wsCuts' = IF n = Len(wsStream) THEN wsCuts ELSE wsCuts \union Harm(wsStream[n + 1])
  /\ UNCHANGED <<wsSends, handshake, refuses, parseVars, closeTold, outVars>>

\* A request that is no handshake is answered by 404 and closed.  Then the
\* handshake is made all the same: it throws without a key, and else goes to
\* the list.  What came behind the request is parsed, and receiving again throws
\* as the connection has gone.
Handshake ==
  /\ wsState = "parses" /\ fragment # <<>> /\ fragment[1].what = "handshake"
  /\ handshake' = TRUE /\ answerAfter' = texts
  /\ LET s == SendData(outList, wsSending, Answer(IF refuses = "no" THEN "101" ELSE "404"))
     IN /\ wsSending' = s.sending
        /\ outList' = IF refuses = "upgrade" THEN Append(s.list, Answer("101")) ELSE s.list
  /\ closeTold' = IF refuses = "no" THEN 0 ELSE 1
  /\ fragment' = IF refuses = "key" THEN <<>> ELSE Tail(fragment)
  /\ wsState' = CASE fragment' # <<>> -> "parses"
                  [] fragment' = <<>> -> IF refuses = "no" THEN "open" ELSE "closed"
  /\ UNCHANGED <<peerVars, parseVars, wsOut, texts>>

\* The parser took n bytes of the fragment.
Take(n) == /\ fragment' = SubSeq(fragment, n + 1, Len(fragment))
           /\ wsState' = CASE n < Len(fragment) -> "parses"
                           [] n = Len(fragment) -> IF closeTold = 0 THEN "open" ELSE "closed"
           /\ UNCHANGED <<peerVars, handshake, closeTold, outVars>>
Least(a, b) == IF a < b THEN a ELSE b
Parsing(s) == /\ wsState = "parses" /\ handshake /\ step = s /\ fragment # <<>>
              /\ fragment[1].what # "handshake"

\* The callback is given the frame, and the parser starts again.
Deliver(f, bytes) ==
  /\ delivered' = Append(delivered, [of |-> f, len |-> bytes.len, right |-> bytes.right])
  /\ step' = "fixed" /\ keyPos' = 0 /\ extPos' = 0 /\ payload' = Nothing /\ header' = NoHeader

FixedHeader ==
  /\ Parsing("fixed") /\ Take(1)
  /\ header' = [NoHeader EXCEPT !.of = fragment[1].of]
  /\ extPos' = 0 /\ step' = IF fragment[1].what = "type" THEN "len" ELSE "lost"
  /\ UNCHANGED <<keyPos, payload, delivered>>

Misparse == Parsing("lost") /\ Take(Len(fragment)) /\ UNCHANGED parseVars

HeaderFrame == wsSends[header.of]
AfterLength == IF HeaderFrame.masked THEN "key" ELSE "data"

\* An empty frame is delivered at once, and the key that a masked one has
\* would be taken for the next frame.
PayloadLen ==
  /\ Parsing("len") /\ Take(1)
  /\ IF HeaderFrame.len = 0 THEN Deliver(header.of, Nothing)
     ELSE /\ header' = [header EXCEPT !.len = HeaderFrame.len]
          /\ step' = IF HeaderFrame.long THEN "ext" ELSE AfterLength
          /\ UNCHANGED <<keyPos, extPos, payload, delivered>>

\* memcpy to the start of the field, wherever the earlier bytes went.
ExtendedLen ==
  /\ Parsing("ext")
  /\ LET n == Least(2 - extPos, Len(fragment))
         ext == SubSeq(fragment, 1, n)
     IN /\ Take(n) /\ extPos' = extPos + n
        /\ header' = [header EXCEPT !.len = IF extPos + n < 2 \/ n = 2 THEN @ ELSE Huge]
        /\ step' = IF extPos + n = 2 THEN AfterLength ELSE step
        /\ UNCHANGED <<keyPos, payload, delivered>>

\* Mutant: the key is counted from one.
KeyFromOne(n) == [i \in 0..(KeyLength - 1) |-> IF i \in 1..(n - 1) THEN fragment[i].i ELSE header.key[i]]

CopyKey(n) == [i \in 0..(KeyLength - 1) |-> IF i < n THEN fragment[i + 1].i ELSE header.key[i]]

MaskingKey ==
  /\ Parsing("key")
  /\ LET n == Least(KeyLength - keyPos, Len(fragment))
     IN /\ Take(n) /\ keyPos' = keyPos + n
        /\ header' = [header EXCEPT !.key = CopyKey(n)]
        /\ step' = IF keyPos + n = KeyLength THEN "data" ELSE step
        /\ UNCHANGED <<extPos, payload, delivered>>

\* The i-th byte of what has arrived is decoded with the key byte i % 4,
\* which is the right one if the payload was cut at a multiple of four.
Decoded(i) ==
  HeaderFrame.masked => header.key[(i - 1) % KeyLength] = fragment[i].i % KeyLength

Remain == header.len - payload.len

PayloadData ==
  /\ Parsing("data")
  /\ LET n == Least(Remain, Len(fragment))
         bytes == [len |-> payload.len + n,
                   right |-> payload.right /\ \A i \in 1..n : Decoded(i)]
     IN /\ Take(n)
        /\ IF bytes.len >= header.len THEN Deliver(header.of, bytes)
           ELSE payload' = bytes /\ UNCHANGED <<step, header, keyPos, extPos, delivered>>

WsNext ==
  \/ SendText \/ SendCallback \/ OnClose
  \/ \E n \in 1..Len(wsStream) : Arrive(n)
  \/ Handshake \/ FixedHeader \/ Misparse \/ PayloadLen \/ ExtendedLen \/ MaskingKey \/ PayloadData

WsSpec == WsInit /\ [][WsNext]_wsVars

---------------------------------------------------------------------------

\* The frames up to the f-th are found: no empty one has a key, and none was
\* cut in its long length.
Framed(f) ==
  /\ \A g \in 1..(f - 1) : ~(wsSends[g].masked /\ wsSends[g].len = 0)
  /\ \A g \in 1..f : <<g, "length">> \notin wsCuts

\* FramesAsSent: as far as they can be found, the frames given to the callback
\* are the frames of the peer, in order and with their length; their bytes are
\* right if the stream was not cut in the key or, at a place that is no
\* multiple of four, in the masked payload.
FramesAsSent ==
  \A i \in DOMAIN delivered : Framed(i) =>
    /\ delivered[i].of = i /\ delivered[i].len = wsSends[i].len
    /\ <<i, "bytes">> \notin wsCuts => delivered[i].right

\* AllParsed: when the session waits for bytes and none are under way, every
\* frame of the peer that can be found was delivered, however it was cut.
AllParsed ==
  (wsState = "open" /\ wsStream = <<>>) =>
    \A f \in 1..Len(wsSends) : Framed(f) => Len(delivered) >= f

\* OutInOrder: all that is sent leaves in the order of the calls, and the answer
\* to the request has its place between the texts sent before and after it.
OutInOrder ==
  wsOut \o wsSending \o outList =
    [i \in 1..answerAfter |-> Text(i)]
    \o (IF ~handshake THEN <<>>
        ELSE CASE refuses = "no"  -> <<Answer("101")>>
               [] refuses = "key" -> <<Answer("404")>>
               [] OTHER           -> <<Answer("404"), Answer("101")>>)
    \o [i \in 1..(texts - answerAfter) |-> Text(answerAfter + i)]

\* ClosedOnce: the close callback is called once, when the connection is
\* closed, and a request without a key delivers no frame.
ClosedOnce ==
  /\ closeTold <= 1
  /\ (wsState = "closed" => closeTold = 1)
  /\ (closeTold = 1 /\ delivered # <<>> => wsState = "closed" \/ refuses = "upgrade")
  /\ (refuses = "key" => delivered = <<>>)

\* Frames come as sent and all of them, texts leave in order, the end is told once.
WebSocketSafe == WsTypeOK /\ FramesAsSent /\ AllParsed /\ OutInOrder /\ ClosedOnce

=============================================================================
