----------------------------- MODULE HttpClient -----------------------------
(***************************************************************************)
(* One request of the HTTP client: xhttp_client's client, which sends it   *)
(* and uploads forms and files from the send callback, and its response,   *)
(* which reads the body, by its length or by chunks, from within the       *)
(* user's coroutine.                                                       *)
(***************************************************************************)
EXTENDS Integers, Sequences, FiniteSets, SequencesExt

CONSTANTS
  Uploads,    \* of a request: [forms, files], the files as [full, tail] blocks
  Bodies,     \* of an answer: [chunked, sizes], the sizes of its chunks or its length
  MaxEnds     \* bound: line ends the client sends behind a file

ASSUME UploadsAssumption ==
  /\ MaxEnds \in Nat
  /\ Uploads \subseteq [forms : Nat, files : Seq([full : Nat, tail : 0 .. 1])]
  /\ Bodies \subseteq [chunked : BOOLEAN, sizes : Seq(1 .. 9)]

CCR == "\r"  CLF == "\n"
Digits == <<"1", "2", "3", "4", "5", "6", "7", "8", "9">>

VARIABLES
  request,    \* what is uploaded; none for a GET
  sends,      \* the sends done: what the peer got
  client,     \* client: the forms and files left, the open file, is_end_, is_send_
  answer,     \* the body of the answer
  arrived,    \* how much of the answer the client received
  response,   \* response: body_buffer_, what it waits for
  bodies,     \* what get_body returned
  undefined   \* whether a pointer was used after the buffer it pointed into moved

clientVars == <<request, sends, client, answer, arrived, response, bodies, undefined>>

\* The answer: its head, which ends in two pieces, and its bytes.
Chunk(n) == <<Digits[n], CCR, CLF>> \o [i \in 1..n |-> "byte"] \o <<CCR, CLF>>
BodyBytes(b) ==
  IF b.chunked THEN FlattenSeq([i \in DOMAIN b.sizes |-> Chunk(b.sizes[i])]) \o <<"0", CCR, CLF, CCR, CLF>>
  ELSE [i \in 1..(IF b.sizes = <<>> THEN 0 ELSE b.sizes[1]) |-> "byte"]
Answered(b) == <<"head", "headend">> \o BodyBytes(b)

HttpClientInit ==
  /\ request \in Uploads /\ sends = <<>> /\ answer \in Bodies /\ arrived = 0
  /\ client = [forms |-> 1, files |-> 1, read |-> 0, opened |-> 0, eof |-> FALSE, isEnd |-> FALSE,
               sending |-> <<"head", 0>>, threw |-> FALSE]
  /\ response = [buffer |-> <<>>, taken |-> FALSE, pos |-> 0, len |-> 0, wants |-> "head", need |-> 0]
  /\ bodies = <<>> /\ undefined = FALSE

HttpClientTypeOK ==
  /\ client.forms \in 1..(request.forms + 1) /\ client.files \in 1..(Len(request.files) + 1)
  /\ client.opened < client.files /\ client.eof => client.opened > 0
  /\ response.wants \in {"head", "some", "exactly", "resumed", "done", "crash"}
  /\ response.wants = "exactly" => response.need > 0
  /\ arrived \in 0..Len(Answered(answer))

---------------------------------------------------------------------------
(* The upload.                                                             *)

Post == request.forms > 0 \/ request.files # <<>>
FormsLeft(c) == c.forms <= request.forms
FilesLeft(c) == c.files <= Len(request.files)

Nothing_ == <<"nothing", 0>>

\* check_end, do_upload_form and do_upload_file: what is sent next.  The end goes
\* out when no form and no file is left, and a file is taken off the list before
\* its bytes are read; the end of a file is remembered after the file is closed.
CheckEnd_(c) ==
  IF c.isEnd \/ FormsLeft(c) \/ FilesLeft(c) THEN c ELSE [c EXCEPT !.sending = <<"end", 0>>, !.isEnd = TRUE]

UploadForm(c) ==
  IF FormsLeft(c) THEN [c EXCEPT !.sending = <<"form", c.forms>>, !.forms = @ + 1] ELSE c

UploadFile(c) ==
  IF c.eof THEN [c EXCEPT !.sending = <<"crlf", c.opened>>, !.read = 0]
  ELSE IF ~FilesLeft(c) THEN c
  ELSE IF c.opened = 0
       THEN [c EXCEPT !.sending = <<"file", c.files>>, !.opened = c.files, !.files = @ + 1, !.read = 0]
  ELSE LET file == request.files[c.opened]
       IN IF c.read < file.full THEN [c EXCEPT !.sending = <<"block", c.opened>>, !.read = @ + 1]
          ELSE IF file.tail = 1 THEN [c EXCEPT !.sending = <<"block", c.opened>>, !.read = @ + 1, !.eof = TRUE]
          ELSE [c EXCEPT !.eof = TRUE, !.threw = TRUE]   \* a send of nothing is refused

UploadData(c) ==
  LET form == UploadForm(CheckEnd_(c))
  IN IF form.sending # Nothing_ THEN form ELSE UploadFile(form)

\* The send callback.
Ends == Cardinality({i \in DOMAIN sends : sends[i][1] = "crlf"})
SendCallback_ ==
  /\ client.sending # Nothing_ /\ ~client.threw /\ Ends < MaxEnds
  /\ sends' = Append(sends, client.sending)
  /\ LET c == [client EXCEPT !.sending = Nothing_] IN client' = IF Post THEN UploadData(c) ELSE c
  /\ UNCHANGED <<request, answer, arrived, response, bodies, undefined>>

---------------------------------------------------------------------------
(* The answer.                                                             *)

\* The recv callback of the response: what is behind the head stays in the parser.
RecvHead(n) ==
  /\ response.wants = "head" /\ n \in 1..(Len(Answered(answer)) - arrived)
  /\ <<"head", 0>> \in ToSet(sends)
  /\ arrived' = arrived + n
  /\ response' = IF arrived' >= 2
                 THEN [response EXCEPT !.wants = "resumed", !.buffer = SubSeq(Answered(answer), 3, arrived')]
                 ELSE response
  /\ UNCHANGED <<request, sends, client, answer, bodies, undefined>>

\* async_recv_data(0)
RecvSome(n) ==
  /\ response.wants = "some" /\ n \in 1..(Len(Answered(answer)) - arrived)
  /\ arrived' = arrived + n
  /\ response' = [response EXCEPT !.buffer = @ \o SubSeq(Answered(answer), arrived + 1, arrived + n),
                                  !.wants = "resumed"]
  /\ UNCHANGED <<request, sends, client, answer, bodies, undefined>>

\* async_recv_data of a number of bytes.  When the buffer moves as it grows, the
\* place of the chunk's data, kept as a pointer, is no longer in it.
RecvExactly(moves) ==
  /\ response.wants = "exactly" /\ arrived + response.need <= Len(Answered(answer))
  /\ arrived' = arrived + response.need
  /\ response' = [response EXCEPT
       !.buffer = @ \o SubSeq(Answered(answer), arrived + 1, arrived + response.need), !.wants = "resumed"]
  /\ undefined' = (moves /\ response.len > 2)
  /\ UNCHANGED <<request, sends, client, answer, bodies>>

Resumed == response.wants = "resumed" /\ ~undefined
Returns(body, r) == bodies' = Append(bodies, body) /\ response' = r

\* get_body of an answer with a length
GetBody ==
  /\ Resumed /\ ~answer.chunked
  /\ LET length == Len(BodyBytes(answer))
     IN IF Len(response.buffer) = length
        THEN Returns(response.buffer, [response EXCEPT !.wants = "done", !.buffer = <<>>])
        ELSE /\ response' = [response EXCEPT !.wants = "exactly", !.need = length - Len(response.buffer)]
             /\ bodies' = bodies
  /\ UNCHANGED <<request, sends, client, answer, arrived, undefined>>

LineEnds == {i \in 1..(Len(response.buffer) - 1) : response.buffer[i] = CCR /\ response.buffer[i + 1] = CLF}
\* strtoul at the start of the buffer
SizeRead == IF response.buffer[1] = "0" THEN 0 ELSE CHOOSE n \in 1..9 : Digits[n] = response.buffer[1]

EndChunk == 5

\* get_body of the next chunk, which the user calls until it returns nothing:
\* its head, and at the last one the line end behind it.
GetChunk ==
  /\ Resumed /\ answer.chunked /\ response.len = 0
  /\ IF LineEnds = {} THEN response' = [response EXCEPT !.wants = "some"] /\ bodies' = bodies
     ELSE IF SizeRead > 0
     THEN response' = [response EXCEPT !.pos = 3, !.len = SizeRead + 2] /\ bodies' = bodies
     ELSE LET remain == EndChunk - Len(response.buffer)
          IN IF remain = 0 THEN Returns(<<>>, [response EXCEPT !.wants = "done"])
             ELSE /\ bodies' = bodies   \* a size_t: less than none is more than memory
                  /\ response' = IF remain < 0 THEN [response EXCEPT !.wants = "crash"]
                                 ELSE [response EXCEPT !.wants = "exactly", !.need = remain]
  /\ UNCHANGED <<request, sends, client, answer, arrived, undefined>>

\* Mutant: the line end behind the data is part of it.
DataWithLineEnd(r) == SubSeq(r.buffer, r.pos + 1, r.pos + r.len)
Data(r) == SubSeq(r.buffer, r.pos + 1, r.pos + r.len - 2)
AfterData(r) == SubSeq(r.buffer, r.pos + r.len + 1, Len(r.buffer))
ChunkData ==
  /\ Resumed /\ answer.chunked /\ response.len > 0
  /\ LET remain == Len(response.buffer) - response.pos
     IN IF remain >= response.len
        THEN Returns(Data(response), [response EXCEPT !.len = 0, !.buffer = AfterData(response)])
        ELSE /\ response' = [response EXCEPT !.wants = "exactly", !.need = response.len - remain]
             /\ bodies' = bodies
  /\ UNCHANGED <<request, sends, client, answer, arrived, undefined>>

HttpClientNext ==
  \/ SendCallback_
  \/ \E n \in 1..(Len(Answered(answer)) - arrived) : RecvHead(n) \/ RecvSome(n)
  \/ \E moves \in BOOLEAN : RecvExactly(moves)
  \/ GetBody \/ GetChunk \/ ChunkData

HttpClientSpec == HttpClientInit /\ [][HttpClientNext]_clientVars

---------------------------------------------------------------------------

Is(what) == {i \in DOMAIN sends : sends[i][1] = what}
\* UploadInOrder: the head goes out first, then every form once in its order,
\* then what there is of files; the end goes out once, after every form and the
\* head of every file, and nothing follows it.
UploadInOrder ==
  /\ \A i \in DOMAIN sends :
       /\ i = 1 => sends[i] = <<"head", 0>>
       /\ i \in 2 .. request.forms + 1 => sends[i] = <<"form", i - 1>>
       /\ i > request.forms + 1 => sends[i][1] \notin {"head", "form"}
  /\ \A i \in Is("end") :
       i = Len(sends) /\ Cardinality(Is("form")) = request.forms
       /\ Cardinality(Is("file")) = Len(request.files)

\* FormsEnd: a request without files is sent to its end; one with files stops
\* behind the head of the last one, and one with more goes on with line ends.
FormsEnd ==
  (client.sending = Nothing_ /\ ~client.threw) =>
    IF Post THEN Last(sends) = <<"end", 0>> /\ Len(request.files) <= 1 ELSE sends = <<<<"head", 0>>>>

Wanted ==
  IF answer.chunked THEN [i \in DOMAIN answer.sizes |-> [j \in 1..answer.sizes[i] |-> "byte"]] \o <<<<>>>>
  ELSE <<BodyBytes(answer)>>

\* BodiesAsSent: however the answer is cut, what get_body returns is the body,
\* chunk by chunk, unless the pointer into the buffer was lost.
BodiesAsSent == IsPrefix(bodies, Wanted)

\* BodyEnds: the reader never waits for more than the server has yet to send, and
\* nothing but the lost pointer keeps it from the end of the body.
BodyEnds ==
  ~undefined =>
    /\ response.wants # "crash"
    /\ response.wants = "some" => arrived < Len(Answered(answer))
    /\ response.wants = "exactly" => response.need <= Len(Answered(answer)) - arrived
    /\ response.wants = "done" => bodies = Wanted

\* Uploads go out in order to their end, bodies come in as sent to theirs.
ClientSafe == HttpClientTypeOK /\ UploadInOrder /\ FormsEnd /\ BodiesAsSent /\ BodyEnds

=============================================================================
