------------------------------- MODULE Redis --------------------------------
(***************************************************************************)
(* One connection of the Redis client (xredis/detail/client.hpp) and the   *)
(* parser of its replies (xredis/detail/reply_parser.hpp).                 *)
(*                                                                         *)
(* Requests are numbered in the order in which they are made.  A reply is  *)
(* a sequence of pieces: a type byte, a number, the two bytes of the line  *)
(* end, a text.  A piece remembers the request that it answers, so that    *)
(* one sees whose answer a callback is given.  The stream of pieces is     *)
(* cut anywhere, and the parser goes on with what it has.                  *)
(*                                                                         *)
(* A failed xnet_assert throws; what is thrown in a receive callback is    *)
(* caught by the loop of the proactor, and nothing is received afterwards. *)
(* Left out: errno that strtol leaves set by an earlier call, and the      *)
(* first status reply, whose text pointer was never initialised: the       *)
(* program may end there, as it may at every step.                         *)
(***************************************************************************)
EXTENDS Naturals, Integers, Sequences, FiniteSets, SequencesExt

CONSTANTS Requests,     \* how many requests are made
          Kinds,        \* the kinds of callbacks that each may have
          MaxConnect    \* how often the connection is tried

\* string_callback, integral_callback, string_map_callback, array_string_callback
ASSUME RedisAssumption == /\ Requests \in Nat /\ MaxConnect \in Nat
                          /\ Kinds \in [1..Requests -> SUBSET {"string", "integer", "map", "list"}]

VARIABLES
  link,       \* the connection: "new" "connecting" "up" "lost"
  tries,      \* connections tried
  isConnected, isSend,
  queue,      \* send_buffer_queue_: requests not handed to the connection
  flight,     \* the request the connection is writing, 0 when none
  asked,      \* the kind of callback of each request, in order
  callbacks,  \* callbacks_: the requests whose callbacks wait
  sent,       \* requests that reached the server, in order
  served,     \* how many of those the server has answered
  stream,     \* pieces on their way to the client
  data, pos,  \* data_ and pos_
  funcs,      \* parser_funcs_, the next one last
  obj,        \* the value being parsed
  moved,      \* is_moved_error_
  parser,     \* "waits", "runs", "stuck" (an exception left it), "dead"
  told,       \* what the callback of each request was told
  spoiled     \* history: what the caller or the network did to the matching

connVars   == <<link, tries, isConnected, isSend, queue, flight, asked>>
serverVars == <<sent, served, stream>>
parserVars == <<data, pos, funcs, obj, moved, parser>>
redisVars  == <<connVars, serverVars, parserVars, callbacks, told, spoiled>>

CR == "\r"
LF == "\n"

Line(type, text) == <<type, text, CR, LF>>
Bulk == Line("$", "1") \o <<"x", CR, LF>>

\* The replies that the server may give to a request of a kind.
Replies(kind) ==
  {Line("-", "ERR"), Line("-", "MOVED")} \union
  CASE kind = "string"  -> {Line("+", "OK"), Bulk, Line("$", "-1")}
    [] kind = "integer" -> {Line(":", "7")}
    [] OTHER            -> {Line("*", "2") \o Bulk \o Bulk}

NoObj == [type |-> "new", len |-> 0, whose |-> {}, text |-> {}]

RedisTypeOK ==
  /\ link \in {"new", "connecting", "up", "lost"} /\ tries \in 0..MaxConnect
  /\ {isConnected, isSend, moved} \subseteq BOOLEAN
  /\ Len(asked) <= Requests /\ \A r \in 1..Len(asked) : asked[r] \in Kinds[r]
  /\ flight \in 0..Len(asked)
  /\ \A s \in {queue, callbacks, sent} : s \in Seq(1..Len(asked))
  /\ served \in 0..Len(sent)
  /\ pos \in Nat /\ obj.len \in -1..7
  /\ \A r \in DOMAIN told : r \in 1..Len(asked)
  /\ parser \in {"waits", "runs", "stuck", "dead"}
  /\ spoiled \subseteq {"overlap", "cut", "retry"}

RedisInit ==
  /\ link = "new" /\ tries = 0 /\ isConnected = FALSE /\ isSend = FALSE
  /\ queue = <<>> /\ flight = 0 /\ asked = <<>>
  /\ callbacks = <<>> /\ sent = <<>> /\ served = 0 /\ stream = <<>>
  /\ data = <<>> /\ pos = 0 /\ funcs = <<>> /\ obj = NoObj
  /\ moved = FALSE /\ parser = "waits" /\ told = <<>> /\ spoiled = {}

Pending(f) == f # 0

---------------------------------------------------------------------------
\* The client.

\* redis::set_addr, and again after a connection that failed.  What is still
\* queued then belongs to callbacks that have been told of the failure.
Connect ==
  /\ link = "new" /\ tries < MaxConnect
  /\ link' = "connecting" /\ tries' = tries + 1
  /\ spoiled' = IF queue = <<>> \/ tries = 0 THEN spoiled ELSE spoiled \union {"retry"}
  /\ UNCHANGED <<isConnected, isSend, queue, flight, asked,
                 serverVars, parserVars, callbacks, told>>

\* send_req
SendNext ==
  IF queue = <<>> THEN isSend' = FALSE /\ UNCHANGED <<queue, flight>>
  ELSE /\ flight' = Head(queue) /\ queue' = Tail(queue) /\ isSend' = TRUE

Connected ==
  /\ link = "connecting"
  /\ link' = "up" /\ isConnected' = TRUE
  /\ SendNext
  /\ UNCHANGED <<tries, asked, serverVars, parserVars, callbacks, told, spoiled>>

\* Every callback is told but the list callbacks, and the list is cleared.
TellAll(what) ==
  /\ told' = [r \in DOMAIN told \union {q \in ToSet(callbacks) : asked[q] # "list"} |->
                IF r \in ToSet(callbacks) THEN <<what>> ELSE told[r]]
  /\ callbacks' = <<>>

ConnectFailed ==
  /\ link = "connecting"
  /\ link' = "new"
  /\ TellAll("failed")
  /\ UNCHANGED <<tries, isConnected, isSend, queue, flight, asked,
                 serverVars, parserVars, spoiled>>

\* Mutant: A request that does not wait behind the queue.
AheadOfQueue(kind) ==
  /\ Len(asked) < Requests /\ parser = "waits" /\ kind \in Kinds[Len(asked) + 1]
  /\ asked' = Append(asked, kind)
  /\ callbacks' = Append(callbacks, Len(asked) + 1)
  /\ IF link = "up" /\ ~Pending(flight) THEN flight' = Len(asked) + 1 /\ queue' = queue
     ELSE queue' = <<Len(asked) + 1>> \o queue /\ flight' = flight
  /\ UNCHANGED <<link, tries, isConnected, isSend, serverVars, parserVars, told, spoiled>>

\* async_send throws when the connection still writes, or is closed.  The
\* request is then never sent, while its callback stays in the list.
Req(kind) ==
  LET r == Len(asked) + 1
      direct == isConnected /\ queue = <<>> /\ ~isSend
      ok == link = "up" /\ ~Pending(flight)
  IN /\ Len(asked) < Requests /\ kind \in Kinds[r]
     /\ parser # "dead" /\ (parser = "runs" => Len(funcs) = 0)
     /\ asked' = Append(asked, kind)
     /\ callbacks' = Append(callbacks, r)
     /\ IF direct THEN /\ flight' = IF ok THEN r ELSE flight
                       /\ queue' = queue
                       /\ spoiled' = IF ok THEN spoiled ELSE spoiled \union {"overlap"}
                  ELSE /\ queue' = Append(queue, r)
                       /\ UNCHANGED <<flight, spoiled>>
     /\ UNCHANGED <<link, tries, isConnected, isSend, serverVars, parserVars, told>>

\* The bytes of a request are all written: the send callback.
Written ==
  /\ Pending(flight) /\ link = "up" /\ parser \in {"waits", "stuck"}
  /\ sent' = Append(sent, flight)
  /\ IF queue = <<>> THEN flight' = 0 /\ isSend' = FALSE /\ queue' = queue
                     ELSE SendNext
  /\ UNCHANGED <<link, tries, isConnected, asked, served, stream,
                 parserVars, callbacks, told, spoiled>>

\* The peer closes: the receive callback with no bytes, or a send that
\* fails.  A stuck parser has no receive callback any more.
RecvLost ==
  /\ link = "up" /\ parser = "waits"
  /\ TellAll("lost")
  /\ link' = "lost"
  /\ UNCHANGED <<tries, isConnected, isSend, queue, flight, asked,
                 serverVars, parserVars, spoiled>>

SendLost ==
  /\ link = "up" /\ parser \in {"waits", "stuck"} /\ Pending(flight)
  /\ TellAll("lost")
  /\ link' = "lost" /\ isSend' = FALSE
  /\ UNCHANGED <<tries, isConnected, queue, flight, asked,
                 serverVars, parserVars, spoiled>>

---------------------------------------------------------------------------
\* The server and the network.

Serve ==
  /\ served < Len(sent) /\ link = "up"
  /\ served' = served + 1
  /\ \E reply \in Replies(asked[sent[served + 1]]) :
       stream' = stream \o [i \in 1..Len(reply) |->
                              [ch |-> reply[i], of |-> sent[served + 1]]]
  /\ UNCHANGED <<connVars, sent, parserVars, callbacks, told, spoiled>>

\* parse: a fragment arrives.  It may end between the two bytes of a line end.
Receive(n) ==
  /\ link = "up" /\ parser = "waits" /\ n \in 1..Len(stream)
  /\ data' = data \o SubSeq(stream, 1, n)
  /\ stream' = SubSeq(stream, n + 1, Len(stream))
  /\ parser' = "runs"
  /\ spoiled' = IF stream[n].ch = CR THEN spoiled \union {"cut"} ELSE spoiled
  /\ UNCHANGED <<connVars, sent, served, pos, funcs, obj, moved, callbacks, told>>

---------------------------------------------------------------------------
\* The parser: run() calls the last function of the list until one of them
\* wants more bytes.  Positions count from 0, as in data_.

At(i) == data[i + 1].ch
LineEnd(i) == /\ i + 1 < Len(data) /\ At(i) = CR /\ At(i + 1) = LF
\* The positions a scan for a line end goes over: up to the first one.
Scanned(from) ==
  {i \in from..(Len(data) - 1) : \A j \in from..i : ~LineEnd(j)}
Whose(S) == {data[i + 1].of : i \in S}
Texts(S) == {At(i) : i \in {j \in S : At(j) # CR}}
Ended(from) == \E i \in from..(Len(data) - 1) : LineEnd(i)

ParserStep == UNCHANGED <<connVars, serverVars, callbacks, told, spoiled, moved>>

Number(texts) == CASE texts = {"-1"} -> -1 [] texts = {"1"} -> 1
                   [] texts = {"2"} -> 2   [] texts = {"7"} -> 7 [] OTHER -> 0

\* Wants more bytes: the function goes back on the list, and parse returns.
Wait(f) == /\ funcs' = f /\ parser' = "waits"

FuncsOf(ch) == CASE ch = ":" -> <<"integral">>   [] ch = "$" -> <<"bulk", "len">>
                 [] ch = "*" -> <<"array", "len">> [] ch \in {"+", "-"} -> <<"str">>
                 [] OTHER -> <<>>

\* The first value of a reply is obj; what is in an array adds to it.
Typed(type) == IF obj.type = "new" THEN type ELSE obj.type

\* prepare, called for a new reply and for each value of an array
Prepare ==
  /\ parser = "runs" /\ (IF funcs = <<>> THEN TRUE ELSE Last(funcs) = "prepare")
  /\ IF pos >= Len(data) THEN Wait(funcs) /\ UNCHANGED <<data, pos, obj>>
     ELSE LET rest == IF funcs = <<>> THEN <<"done">> ELSE Front(funcs)
          IN /\ funcs' = rest \o FuncsOf(At(pos))
             /\ obj' = [obj EXCEPT !.type = CASE At(pos) = "-" -> "error"
                                              [] At(pos) = "+" -> "ok" [] OTHER -> @,
                                   !.whose = @ \union Whose({pos})]
             /\ pos' = pos + 1
             /\ UNCHANGED <<data, parser>>
  /\ ParserStep

\* get_str does not go back when the line is not whole, and takes a line end
\* cut in two for text.
GetStr ==
  /\ parser = "runs" /\ funcs # <<>> /\ Last(funcs) = "str"
  /\ LET over == Scanned(pos)
     IN /\ obj' = [obj EXCEPT !.whose = @ \union Whose(over), !.text = @ \union Texts(over)]
        /\ pos' = pos + Cardinality(over) + (IF Ended(pos) THEN 2 ELSE 0)
        /\ IF Ended(pos) THEN funcs' = Front(funcs) /\ parser' = parser
                         ELSE Wait(funcs)
  /\ UNCHANGED data /\ ParserStep

\* get_len and get_integal go back when the line is not whole.
GetNumber ==
  /\ parser = "runs" /\ funcs # <<>> /\ Last(funcs) \in {"len", "integral"}
  /\ LET over == Scanned(pos)
     IN IF ~Ended(pos) THEN Wait(funcs) /\ UNCHANGED <<obj, pos>>
        ELSE /\ pos' = pos + Cardinality(over) + 2
             /\ obj' = IF Last(funcs) = "len"
                       THEN [obj EXCEPT !.len = Number(Texts(over)),
                                        !.whose = @ \union Whose(over)]
                       ELSE [obj EXCEPT !.type = Typed("integral"),
                                        !.whose = @ \union Whose(over)]
             /\ funcs' = Front(funcs) /\ parser' = parser
  /\ UNCHANGED data /\ ParserStep

\* get_bulk does not wait for the line end after the text: pos_ goes beyond
\* the bytes.  The length -1 of a value that does not exist makes a string of
\* a huge length, which throws.
GetBulk ==
  /\ parser = "runs" /\ funcs # <<>> /\ Last(funcs) = "bulk"
  /\ CASE obj.len = -1 -> /\ parser' = "stuck" /\ funcs' = Front(funcs)
                          /\ UNCHANGED <<pos, obj>>
       [] obj.len # -1 /\ pos + obj.len > Len(data) -> Wait(funcs) /\ UNCHANGED <<pos, obj>>
       [] OTHER -> /\ pos' = pos + obj.len + 2
                   /\ obj' = [obj EXCEPT !.type = Typed("bulk"),
                                !.whose = @ \union Whose(pos..(pos + obj.len - 1))]
                   /\ funcs' = Front(funcs) /\ parser' = parser
  /\ UNCHANGED data /\ ParserStep

GetArray ==
  /\ parser = "runs" /\ funcs # <<>> /\ Last(funcs) = "array"
  /\ funcs' = Front(funcs) \o [i \in 1..obj.len |-> "prepare"]
  /\ obj' = [obj EXCEPT !.type = Typed("array")]
  /\ UNCHANGED <<data, pos, parser>> /\ ParserStep

\* What parser_done does with the callback: "told", "dropped" (nothing is
\* called), "throws" (an error for an integral callback makes a string of a
\* null pointer), or "dead" (a value that is not there).
Outcome(kind) ==
  CASE kind = "list" -> "dropped"
    [] kind = "map" -> IF obj.type = "error" THEN "told" ELSE "dropped"
    [] kind = "integer" /\ obj.type = "error" -> "throws"
    [] kind = "integer" /\ obj.type # "error" -> "told"
    [] OTHER -> IF obj.type \in {"new", "integral", "array"} THEN "dead" ELSE "told"

\* check_moved_error
MovedError(kind) == obj.type = "error" /\ kind # "list" /\ "MOVED" \in obj.text

\* The rest of run and reset_task: a position beyond the bytes throws, after
\* the callback has been called; a reply that moved ends the run.
ResetTask(kind) ==
  IF pos > Len(data) THEN parser' = "stuck" /\ UNCHANGED <<data, pos, obj>>
  ELSE /\ data' = SubSeq(data, pos + 1, Len(data)) /\ pos' = 0
       /\ obj' = NoObj
       /\ parser' = IF moved \/ MovedError(kind) THEN "waits" ELSE "runs"

ParserDone ==
  /\ parser = "runs" /\ funcs # <<>> /\ Last(funcs) = "done"
  /\ UNCHANGED <<connVars, serverVars, spoiled>>
  /\ IF callbacks = <<>>
     THEN /\ parser' = "dead"
          /\ UNCHANGED <<funcs, data, pos, obj, moved, callbacks, told>>
     ELSE LET r == Head(callbacks)
              kind == asked[r]
          IN /\ callbacks' = Tail(callbacks)
             /\ funcs' = <<>>
             /\ moved' = (moved \/ MovedError(kind))
             /\ told' = IF Outcome(kind) = "told"
                        THEN [q \in DOMAIN told \union {r} |->
                                IF q = r THEN <<"reply", obj.whose>> ELSE told[q]]
                        ELSE told
             /\ CASE Outcome(kind) = "throws" -> parser' = "stuck" /\ UNCHANGED <<data, pos, obj>>
                  [] Outcome(kind) = "dead"   -> parser' = "dead" /\ UNCHANGED <<data, pos, obj>>
                  [] OTHER -> ResetTask(kind)

RedisNext ==
  \/ Connect \/ Connected \/ ConnectFailed
  \/ \E kind \in UNION Range(Kinds) : Req(kind)
  \/ Written \/ RecvLost \/ SendLost \/ Serve
  \/ \E n \in 1..Len(stream) : Receive(n)
  \/ Prepare \/ GetStr \/ GetNumber \/ GetBulk \/ GetArray \/ ParserDone

RedisSpec == RedisInit /\ [][RedisNext]_redisVars

---------------------------------------------------------------------------

\* AnswersMatch: a callback is given the reply to its own request and nothing
\* of another reply, as long as no request was made while another was being
\* written, no line end was cut in two, and no connection was tried again
\* with requests of an earlier one in the queue.  The first of these leaves
\* a callback without a reply, so that a later one answers it: never an
\* earlier one.
AnswersMatch ==
  \A r \in DOMAIN told : told[r][1] = "reply" =>
    /\ spoiled = {} => told[r][2] = {r}
    /\ spoiled \subseteq {"overlap"} => \A q \in told[r][2] : q >= r

\* SentInOrder: requests reach the server in the order in which their
\* callbacks were registered, whether they went through the queue or not,
\* and a queue that is not empty has a request being written before it.
SentInOrder ==
  /\ \A i, j \in 1..Len(sent) : i < j => sent[i] < sent[j]
  /\ (link = "up" /\ queue # <<>>) => Pending(flight) /\ isSend

\* LostTold: when the connection is lost or could not be made, every request
\* made before it, not answered and with a callback other than a list
\* callback has been told.
LostTold ==
  (link = "lost" \/ (link = "new" /\ tries > 0)) =>
    \A r \in 1..Len(asked) :
      (asked[r] = "string" /\ r \notin DOMAIN told) =>
        \/ r \in ToSet(callbacks)
        \/ parser = "dead"

\* NothingLeft: when the parser of an undisturbed client waits for bytes it
\* has none of a whole reply left: a reply that is all there has been taken,
\* however the stream was cut.
NothingLeft ==
  (parser = "waits" /\ link = "up" /\ ~moved /\ spoiled = {} /\ stream = <<>>)
    => (Len(callbacks) = Len(asked) - served /\ data = <<>>)

\* Requests leave in order, each answer is at its own callback, and none waits for
\* a reply that is there or will not come.
RedisSafe == RedisTypeOK /\ AnswersMatch /\ SentInOrder /\ LostTold /\ NothingLeft

=============================================================================
