----------------------------- MODULE HttpServer -----------------------------
(***************************************************************************)
(* One connection of the HTTP server: xhttp_server's request, response and *)
(* downloader and xserver::handle_request, which runs the handler of the   *)
(* user as a coroutine.  The handler answers at once, answers after it     *)
(* yielded, waits for the body, or sends a file; it ends in do_receive,    *)
(* which arms the connection again.  What a coroutine throws ends the      *)
(* process.  Heads are whole here; HttpParser models their parsing.        *)
(***************************************************************************)
EXTENDS Integers, Sequences, FiniteSets, SequencesExt

CONSTANTS
  Scripts,    \* what the peer sends: sequences of requests [does, body, range]
  FileSize    \* of the file sent, in blocks of the downloader's buffer

\* A request: what its handler does, the pieces of its body, the range it asks
\* for.  Left out is a suffix longer than the file, whose begin is negative.
Asked == [does : {"answers", "later", "body", "download", "upgrade"}, body : Nat, range : Nat \X Nat]

ASSUME ScriptsAssumption == FileSize \in Nat /\ Scripts \subseteq Seq(Asked)

VARIABLES
  script,     \* the requests of the peer
  outgoing,   \* what the peer has not sent yet
  inbox,      \* what it sent and the server has not received
  peerGone,   \* whether it closed
  srv,        \* the request object, its connection and the coroutine
  wire,       \* what the peer received
  handled,    \* the requests whose handler ran (history)
  habits      \* whether the peer pipelined, the handler waited for a body, bytes were misread (history)

httpServerVars == <<script, outgoing, inbox, peerGone, srv, wire, handled, habits>>

Item(what, k) == [what |-> what, k |-> k]
\* A request as it is sent: its head, and its body piece by piece.
Sent(s, k) == <<Item("head", k)>> \o [i \in 1..s[k].body |-> Item("body", k)]

HttpServerInit ==
  /\ script \in Scripts /\ inbox = <<>> /\ peerGone = FALSE
  /\ outgoing = FlattenSeq([k \in DOMAIN script |-> Sent(script, k)])
  /\ srv = [parser |-> <<>>, body |-> 0, armed |-> "request", sends |-> "request",
            sending |-> <<>>, buffers |-> <<>>, isSend |-> FALSE, isClose |-> FALSE,
            inCallback |-> FALSE, open |-> TRUE, listed |-> TRUE, run |-> "none",
            begin |-> 0, end |-> 0, offset |-> 0, crashed |-> FALSE]
  /\ wire = <<>> /\ handled = <<>>
  /\ habits = [pipelined |-> FALSE, waited |-> FALSE, misread |-> FALSE]

HttpServerTypeOK ==
  /\ srv.armed \in {"none", "request", "body"} /\ srv.sends \in {"request", "download"}
  /\ srv.run \in {"none", "later", "body", "download"}
  /\ Len(srv.sending) <= 1 /\ srv.body \in Nat
  /\ srv.isSend \in BOOLEAN /\ srv.isClose \in BOOLEAN /\ srv.listed \in BOOLEAN
  /\ (srv.isSend /\ srv.open /\ ~srv.crashed) => srv.sends = "request" /\ Len(srv.sending) = 1

Current == Last(handled)

---------------------------------------------------------------------------
(* The steps handlers are made of, on the state of the server.             *)

Crash(s) == [s EXCEPT !.crashed = TRUE]

\* async_recv_some: asserts that the connection is there and not receiving
Arm(s, callback) ==
  IF ~s.open \/ s.armed # "none" THEN Crash(s) ELSE [s EXCEPT !.armed = callback]
AsyncSend(s, item) ==
  IF ~s.open \/ s.sending # <<>> THEN Crash(s) ELSE [s EXCEPT !.sending = <<item>>]

DoReceive(s) == Arm([s EXCEPT !.sends = "request"], "request")

\* Mutant: the newest buffer is sent first.
TrySendNewest(s) ==
  IF s.isSend \/ s.isClose \/ s.buffers = <<>> THEN s
  ELSE AsyncSend([s EXCEPT !.isSend = TRUE, !.buffers = Front(@)], Last(s.buffers))
TrySend(s) ==
  IF s.isSend \/ s.isClose \/ s.buffers = <<>> THEN s
  ELSE AsyncSend([s EXCEPT !.isSend = TRUE, !.buffers = Tail(@)], Head(s.buffers))

\* response::done
Done(s, k) == TrySend([s EXCEPT !.buffers = Append(@, Item("answer", k))])

RemoveRequest(s) == [s EXCEPT !.listed = FALSE, !.open = FALSE, !.armed = "none", !.sending = <<>>]

Close(s) ==
  LET c == [s EXCEPT !.isClose = TRUE, !.open = FALSE, !.armed = "none"]
  IN IF s.inCallback THEN c ELSE RemoveRequest(c)

Reset(s) == [s EXCEPT !.parser = <<>>, !.body = 0, !.isClose = FALSE, !.inCallback = FALSE]

\* The end of handle_request, after the handler returned
EndHandler(s) ==
  LET e == [s EXCEPT !.run = "none"]
  IN IF e.isClose THEN RemoveRequest(e) ELSE DoReceive(Reset(e))

ContentLength(k) == script[k].body

\* body(): at once when the body is there, a receive otherwise
Body(s, k) ==
  IF Len(s.parser) = ContentLength(k) THEN EndHandler(Done(s, k))
  ELSE Arm([s EXCEPT !.run = "body", !.body = Len(s.parser)], "body")

\* downloader::do_send_file: get_range, the head of the answer, then the blocks
Download(s, k) ==
  LET r == script[k].range
  IN AsyncSend([s EXCEPT !.run = "download", !.sends = "download",
                         !.begin = r[1], !.end = r[2], !.offset = r[1]],
               Item("answer", k))

Handle(s, k) ==
  LET h == [s EXCEPT !.inCallback = TRUE]
  IN CASE script[k].does = "answers" -> EndHandler(Done(h, k))
       [] script[k].does = "later" -> [h EXCEPT !.run = "later"]
       [] script[k].does = "body" -> Body(h, k)
       [] script[k].does = "download" -> Download(h, k)

\* recv_callback: what does not hold a whole head is kept.  There is no handler
\* of upgrades: the answer is 404 and the connection is closed.
Heads_(s) == {i \in DOMAIN s.parser : s.parser[i].what = "head"}
FirstHead(s) == CHOOSE i \in Heads_(s) : \A j \in Heads_(s) : i <= j
RecvRequest(s) ==
  IF Heads_(s) = {} THEN Arm(s, "request")
  ELSE LET k == s.parser[FirstHead(s)].k
           p == [s EXCEPT !.parser = SubSeq(@, FirstHead(s) + 1, Len(@))]
       IN IF script[k].does = "upgrade" THEN Close(Done(p, k)) ELSE Handle(p, k)

\* The receive callback of body()
RecvBody(s, n) ==
  LET b == [s EXCEPT !.body = @ + n]
  IN IF b.body = ContentLength(Current) THEN EndHandler(Done(DoReceive(b), Current))
     ELSE Arm(b, "body")

\* The send callback of do_receive
SendCallbackOf(s) == TrySend([s EXCEPT !.isSend = FALSE])

\* The send callback of the downloader.  Past the end of the file nothing is
\* sent, and nothing resumes the handler.
SendBlock(s) ==
  IF s.begin = s.end THEN EndHandler(s)
  ELSE IF s.offset >= FileSize THEN s
  ELSE AsyncSend([s EXCEPT !.begin = @ + 1, !.offset = @ + 1], Item("block", s.offset))

---------------------------------------------------------------------------

PeerSends ==
  /\ ~peerGone /\ outgoing # <<>>
  /\ inbox' = Append(inbox, Head(outgoing)) /\ outgoing' = Tail(outgoing)
  /\ habits' = [habits EXCEPT !.pipelined =
       @ \/ (Head(outgoing).what = "head" /\ Head(outgoing).k > 1
             /\ (inbox # <<>> \/ srv.run # "none" \/ srv.sending # <<>>
                   \/ Len(handled) < Head(outgoing).k - 1))]
  /\ UNCHANGED <<script, peerGone, srv, wire, handled>>

PeerLeaves ==
  /\ ~peerGone /\ peerGone' = TRUE
  /\ UNCHANGED <<script, outgoing, inbox, srv, wire, handled, habits>>

Alive == srv.listed /\ ~srv.crashed

RecvCallback(n) ==
  /\ Alive /\ srv.armed # "none" /\ n \in 1..Len(inbox)
  /\ inbox' = SubSeq(inbox, n + 1, Len(inbox))
  /\ LET got == SubSeq(inbox, 1, n)
         s == [srv EXCEPT !.armed = "none"]
         p == [s EXCEPT !.parser = @ \o got]
     IN IF srv.armed = "body"
        THEN srv' = RecvBody(s, n) /\ UNCHANGED <<handled, habits>>
        ELSE /\ srv' = RecvRequest(p)
             /\ handled' = IF Heads_(p) = {} THEN handled
                           ELSE Append(handled, p.parser[FirstHead(p)].k)
             /\ habits' = [habits EXCEPT
                  !.misread = @ \/ p.parser[1].what = "body",
                  !.waited = @ \/ (Heads_(p) # {} /\ RecvRequest(p).run = "body")]
  /\ UNCHANGED <<script, outgoing, peerGone, wire>>

\* The connection is lost: the callback of body() closes it and goes on with
\* the handler, which arms what is closed.
ReceiveLost ==
  /\ Alive /\ srv.armed # "none" /\ inbox = <<>> /\ peerGone
  /\ LET s == [srv EXCEPT !.armed = "none"]
     IN srv' = IF srv.armed = "body" THEN DoReceive([s EXCEPT !.open = FALSE]) ELSE Close(s)
  /\ UNCHANGED <<script, outgoing, inbox, peerGone, wire, handled, habits>>

SendDone ==
  /\ Alive /\ srv.open /\ srv.sending # <<>> /\ ~peerGone
  /\ wire' = wire \o srv.sending
  /\ LET s == [srv EXCEPT !.sending = <<>>]
     IN srv' = IF srv.sends = "download" THEN SendBlock(s) ELSE SendCallbackOf(s)
  /\ UNCHANGED <<script, outgoing, inbox, peerGone, handled, habits>>

SendFails ==
  /\ Alive /\ srv.open /\ srv.sending # <<>> /\ peerGone
  /\ LET s == [srv EXCEPT !.sending = <<>>]
     IN srv' = IF srv.sends = "download" THEN EndHandler(Close(s)) ELSE Close(s)
  /\ UNCHANGED <<script, outgoing, inbox, peerGone, wire, handled, habits>>

\* What the handler waits for has come: it answers and returns.
Later ==
  /\ Alive /\ srv.run = "later"
  /\ srv' = EndHandler(Done(srv, Current))
  /\ UNCHANGED <<script, outgoing, inbox, peerGone, wire, handled, habits>>

HttpServerNext ==
  \/ PeerSends \/ PeerLeaves
  \/ \E n \in 1..Len(inbox) : RecvCallback(n)
  \/ ReceiveLost \/ SendDone \/ SendFails \/ Later

HttpServerSpec == HttpServerInit /\ [][HttpServerNext]_httpServerVars

---------------------------------------------------------------------------

\* What the peer should get for a request: a file is its blocks in the range.
Answer_(k) ==
  <<Item("answer", k)>> \o
    (IF script[k].does # "download" THEN <<>>
     ELSE LET r == script[k].range
          IN [i \in 1..(IF r[2] < FileSize THEN r[2] ELSE FileSize) - r[1] |-> Item("block", r[1] + i - 1)])

\* AnswersInOrder: the peer gets the answers of the requests that were handled,
\* in their order, each once and each whole before the next, unless a range ends
\* before it begins.
AnswersInOrder ==
  (\A k \in DOMAIN script : script[k].range[1] <= script[k].range[2]) =>
    IsPrefix(wire, FlattenSeq([i \in DOMAIN handled |-> Answer_(handled[i])]))

\* AllAnswered: when nothing is under way any more, a peer that waited for each
\* answer before it sent more, and whose bodies were read by their handlers, has
\* an answer for every request it sent.
AllAnswered ==
  (/\ Alive /\ ~peerGone /\ ~habits.pipelined /\ ~habits.misread
   /\ inbox = <<>> /\ srv.run = "none" /\ srv.sending = <<>>) =>
     \A k \in DOMAIN script : Item("head", k) \in ToSet(outgoing) \/ Item("answer", k) \in ToSet(wire)

\* NeverDeaf: a connection with no handler running is armed for the next
\* request.
NeverDeaf == (Alive /\ srv.run = "none") => srv.armed = "request"

\* CrashKnown: the process ends only when a handler had to wait for a body or
\* started to send a file while an answer was under way, to a peer that did
\* not wait for it.
CrashKnown == srv.crashed => habits.waited \/ habits.pipelined

\* Answers leave in order and all of them, to a connection that stays armed, and
\* the process ends in the known ways only.
ServerSafe == HttpServerTypeOK /\ AnswersInOrder /\ AllAnswered /\ NeverDeaf /\ CrashKnown

=============================================================================
