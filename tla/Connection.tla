----------------------------- MODULE Connection -----------------------------
(***************************************************************************)
(* A connection and the epoll proactor it belongs to: connection_impl, its *)
(* two io_contexts, the event_context they share and the loop that hands   *)
(* out events.                                                             *)
(*                                                                         *)
(* One thread runs all of it.  Its difficulty is that user code runs in    *)
(* the middle of the loop: from the callbacks of the connection and from   *)
(* those of other descriptors in the same batch of events.  It may start   *)
(* the next operation there, close the connection, or throw.               *)
(***************************************************************************)
EXTENDS Naturals

CONSTANTS MaxOps,        \* bound: operations the user starts
          Length,        \* what a send has to get out, in units
          MaxData,       \* bound: data the peer sends
          MaxThrows      \* bound: exceptions out of callbacks

ASSUME ConnectionAssumption ==
  MaxOps \in Nat /\ MaxData \in Nat /\ MaxThrows \in Nat /\ Length \in Nat \ {0}

VARIABLES send, recv,    \* the two io_contexts
          impl,          \* the connection_impl
          ctx,           \* the event_context
          loop,          \* where the io thread is in proactor_impl::run
          callback,      \* the user callback it is in
          peer,          \* what the other end has done
          closed,        \* the user has called close
          ops, throws,   \* counted for the bounds
          deleted,       \* history: how often delete this has run
          removed,       \* history: how often the context was unregistered
          recvAtClose,   \* history: a receive was pending when close was called
          touched        \* history: a callback ran on a deleted connection

userVars == <<ops, throws>>
history  == <<deleted, removed, recvAtClose, touched>>
vars == <<send, recv, impl, ctx, loop, callback, peer, closed, userVars, history>>

Event == {"err", "in", "out"}

NoCallback == [of |-> "none", ok |-> FALSE, then |-> "wait"]

SendContext == [status : {"idle", "send", "closing"}, last : {"idle", "send"},
                left : 0 .. Length]                  \* to_send_ - send_bytes_
RecvContext == [status : {"idle", "recv"}, last : {"idle", "recv"}]
Impl == [inCallback : BOOLEAN, closeFlag : BOOLEAN]
EventContext == [state : {"none", "polled", "removed", "freed"},
                 armed : SUBSET {"in", "out"}]
Place == [at : {"wait", "err", "errRecv", "in", "out", "end", "undefined"},
          events : SUBSET Event]
Callback == [of : {"none", "send", "recv"}, ok : BOOLEAN,
             then : {"wait", "errRecv", "in", "out", "end"}]
OtherEnd == [data : Nat, sent : 0 .. MaxData, gone : BOOLEAN, broken : BOOLEAN]

TypeOK ==
  /\ send \in SendContext /\ recv \in RecvContext
  /\ impl \in Impl /\ ctx \in EventContext
  /\ loop \in Place /\ callback \in Callback /\ peer \in OtherEnd
  /\ ops \in 0 .. MaxOps /\ throws \in 0 .. MaxThrows
  /\ deleted \in Nat /\ removed \in Nat
  /\ closed \in BOOLEAN /\ recvAtClose \in BOOLEAN /\ touched \in BOOLEAN

\* A connection that has just been accepted.
Init ==
  /\ send = [status |-> "idle", last |-> "idle", left |-> 0]
  /\ recv = [status |-> "idle", last |-> "idle"]
  /\ impl = [inCallback |-> FALSE, closeFlag |-> FALSE]
  /\ ctx = [state |-> "none", armed |-> {}]
  /\ loop = [at |-> "wait", events |-> {}]
  /\ callback = NoCallback
  /\ peer = [data |-> 0, sent |-> 0, gone |-> FALSE, broken |-> FALSE]
  /\ closed = FALSE
  /\ ops = 0 /\ throws = 0
  /\ deleted = 0 /\ removed = 0
  /\ recvAtClose = FALSE /\ touched = FALSE

-----------------------------------------------------------------------------
(* User code.                                                              *)

\* User code runs in a callback of the connection, in a callback of another
\* descriptor, before or after this one in the batch, and in a timer.
UserRuns == callback.of # "none" \/ loop.at \in {"wait", "err", "end"}

\* check_regist and regist_send_ctx_ or regist_recv_ctx_.
Arm(c, e) == [state |-> IF c.state = "none" THEN "polled" ELSE c.state,
              armed |-> c.armed \cup {e}]

\* async_send; a context that is still armed from the last time stays so.
AsyncSend ==
  /\ UserRuns /\ ~closed /\ ops < MaxOps
  /\ send.status = "idle"                            \* xnet_assert
  /\ ops' = ops + 1
  /\ send' = [send EXCEPT !.status = "send", !.left = Length]
  /\ ctx' = IF send.last = "send" THEN ctx ELSE Arm(ctx, "out")
  /\ UNCHANGED <<recv, impl, loop, callback, peer, closed, throws, history>>

AsyncRecv ==
  /\ UserRuns /\ ~closed /\ ops < MaxOps
  /\ recv.status = "idle"                            \* xnet_assert
  /\ ops' = ops + 1
  /\ recv' = [recv EXCEPT !.status = "recv"]
  /\ ctx' = IF recv.last = "recv" THEN ctx ELSE Arm(ctx, "in")
  /\ UNCHANGED <<send, impl, loop, callback, peer, closed, throws, history>>

\* unregist_event_context: the descriptor is closed, the memory goes at the
\* end of the batch.
Unregister == /\ ctx' = [ctx EXCEPT !.state = "removed"]
              /\ removed' = removed + 1

\* Mutant: a send in flight is not told that the connection is closed.
SendAtCloseGoesOn == "send"

\* What becomes of a send in flight: e_send | e_close.
SendAtClose == "closing"

\* A connection inside one of its callbacks is deleted when that returns.
DeletedAtClose == ~impl.inCallback

\* close.  Closing a connection that never started an operation is left out.
Close ==
  /\ UserRuns /\ ~closed /\ ctx.state = "polled"
  /\ closed' = TRUE
  /\ recvAtClose' = (recv.status = "recv")
  /\ IF send.status = "idle" THEN Unregister /\ UNCHANGED send
     ELSE send' = [send EXCEPT !.status = SendAtClose] /\ UNCHANGED <<ctx, removed>>
  /\ IF DeletedAtClose
     THEN deleted' = deleted + 1 /\ UNCHANGED impl
     ELSE impl' = [impl EXCEPT !.closeFlag = TRUE] /\ UNCHANGED deleted
  /\ UNCHANGED <<recv, loop, callback, peer, userVars, touched>>

User == AsyncSend \/ AsyncRecv \/ Close

-----------------------------------------------------------------------------
(* The callbacks of connection_impl.                                       *)

\* The io thread enters the callback of a context, with success or not, and
\* will go on at then.  On a deleted connection the behaviour is undefined.
Enter(of, ok, then) ==
  IF deleted > 0
  THEN /\ touched' = TRUE
       /\ loop' = [loop EXCEPT !.at = "undefined"]
       /\ UNCHANGED <<send, recv, impl, ctx, callback, closed, userVars,
                      deleted, removed, recvAtClose>>
  ELSE /\ callback' = [of |-> of, ok |-> ok, then |-> then]
       /\ impl' = [impl EXCEPT !.inCallback = TRUE]
       /\ IF of = "send"
          THEN send' = [send EXCEPT !.status = "idle", !.last = send.status]
               /\ UNCHANGED recv
          ELSE recv' = [status |-> "idle", last |-> recv.status] /\ UNCHANGED send
       /\ UNCHANGED <<ctx, loop, closed, userVars, history>>

\* Nothing is left to do for a context: it is disarmed.
Idle(of) == IF of = "send" THEN send.status # "send" ELSE recv.status # "recv"

\* Mutant: last_status_ stays when the context is disarmed.
DisarmedKeepsLast(c) == c

\* last_status_ of a context that is disarmed.
Disarmed(c) == [c EXCEPT !.last = "idle"]

\* The callback returns.  Unless it has started the next operation, or
\* closed the connection, or was told of a failure, the context is disarmed.
Return ==
  LET of == callback.of
      disarm == callback.ok /\ ~impl.closeFlag /\ Idle(of)
      e == IF of = "send" THEN "out" ELSE "in"
  IN  /\ of # "none"
      /\ impl' = [impl EXCEPT !.inCallback = FALSE]
      /\ ctx' = IF disarm THEN [ctx EXCEPT !.armed = @ \ {e}] ELSE ctx
      /\ send' = IF disarm /\ of = "send" THEN Disarmed(send) ELSE send
      /\ recv' = IF disarm /\ of = "recv" THEN Disarmed(recv) ELSE recv
      /\ deleted' = IF impl.closeFlag THEN deleted + 1 ELSE deleted
      /\ loop' = [loop EXCEPT !.at = callback.then]
      /\ callback' = NoCallback
      /\ UNCHANGED <<peer, closed, userVars, removed, recvAtClose, touched>>

\* It throws: run catches outside its for, the rest of the batch is dropped,
\* and in_callback_ stays.
Throw ==
  /\ callback.of # "none" /\ throws < MaxThrows
  /\ throws' = throws + 1
  /\ callback' = NoCallback
  /\ loop' = [loop EXCEPT !.at = "end"]
  /\ UNCHANGED <<send, recv, impl, ctx, peer, closed, ops, history>>

-----------------------------------------------------------------------------
(* proactor_impl::run.                                                     *)

Go(at) == loop' = [loop EXCEPT !.at = at]

\* What the kernel has to report of the descriptor; it asks nobody for leave
\* to report an error.
Reported ==
  IF ctx.state # "polled" THEN {}
  ELSE {e \in Event : \/ e = "err" /\ peer.broken
                      \/ e = "out" /\ "out" \in ctx.armed
                      \/ e = "in"  /\ "in" \in ctx.armed
                                   /\ (peer.data > 0 \/ peer.gone \/ peer.broken)}

\* epoll_wait returns: with an event of this connection, or of another only.
\* (The socket may be writable or not.)
Poll ==
  /\ loop.at = "wait" /\ callback.of = "none"
  /\ \E es \in SUBSET Reported :
       /\ Reported \ es \subseteq {"out"}
       /\ loop' = [at |-> IF es = {} THEN "end" ELSE "err", events |-> es]
  /\ UNCHANGED <<send, recv, impl, ctx, callback, peer, closed, userVars, history>>

\* Whether the event is still to be handed out: the callbacks before may have
\* closed the connection.
Due(e) == e \in loop.events /\ ctx.state = "polled"

NotDue(at, e, next) ==
  /\ loop.at = at /\ callback.of = "none" /\ ~Due(e)
  /\ Go(next)
  /\ UNCHANGED <<send, recv, impl, ctx, callback, peer, closed, userVars, history>>

Skip == NotDue("err", "err", "in") \/ NotDue("in", "in", "out") \/ NotDue("out", "out", "end")

\* except_callback, for the send context ...
ExceptSend ==
  /\ loop.at = "err" /\ callback.of = "none" /\ Due("err")
  /\ UNCHANGED peer
  /\ \/ send.status = "send" /\ Enter("send", FALSE, "errRecv")
     \/ /\ send.status = "closing" /\ Unregister /\ Go("errRecv")
        /\ UNCHANGED <<send, recv, impl, callback, closed, userVars, deleted,
                       recvAtClose, touched>>
     \/ /\ send.status = "idle" /\ Go("errRecv")
        /\ UNCHANGED <<send, recv, impl, ctx, callback, closed, userVars, history>>

\* ... and for the receive context, whatever the first has done.
ExceptRecv ==
  /\ loop.at = "errRecv" /\ callback.of = "none"
  /\ UNCHANGED peer
  /\ \/ recv.status = "recv" /\ Enter("recv", FALSE, "in")
     \/ /\ recv.status = "idle" /\ Go("in")
        /\ UNCHANGED <<send, recv, impl, ctx, callback, closed, userVars, history>>

\* readable_callback: all that was asked for, part of it, or the end of the
\* stream.  An error is told as success, of minus one byte.
Readable ==
  /\ loop.at = "in" /\ callback.of = "none" /\ Due("in")
  /\ peer' = IF recv.status = "recv" /\ peer.data > 0
             THEN [peer EXCEPT !.data = @ - 1] ELSE peer
  /\ \/ /\ recv.status = "recv" /\ peer.data > 0
        /\ Enter("recv", TRUE, "out")
     \/ /\ recv.status = "recv" /\ peer.data = 0
        /\ \E ok \in {FALSE, peer.broken} : Enter("recv", ok, "out")
     \/ /\ recv.status = "recv" => peer.data > 0
        /\ Go("out")
        /\ UNCHANGED <<send, recv, impl, ctx, callback, closed, userVars, history>>

\* Mutant: send_bytes_ may pass to_send_.
PartLeftAny == TRUE

\* Less than all that is left is sent.
PartLeft == send.left > 1

\* writeable_callback: the last of it is sent, the send fails, or part of it
\* is sent.  A closed connection gives up its descriptor then.  A socket
\* reported writable takes at least something.
Writeable ==
  /\ loop.at = "out" /\ callback.of = "none" /\ Due("out")
  /\ UNCHANGED peer
  /\ \/ /\ send.status = "send"
        /\ \E ok \in BOOLEAN : /\ IF ok THEN send.left = 1 ELSE peer.gone
                               /\ Enter("send", ok, "end")
     \/ /\ send.status = "closing" /\ (send.left = 1 \/ peer.gone)
        /\ Unregister /\ Go("end")
        /\ UNCHANGED <<send, recv, impl, callback, closed, userVars, deleted,
                       recvAtClose, touched>>
     \/ /\ send.status # "idle" => PartLeft
        /\ send' = IF send.status = "idle" THEN send ELSE [send EXCEPT !.left = @ - 1]
        /\ Go("end")
        /\ UNCHANGED <<recv, impl, ctx, callback, closed, userVars, history>>

\* The contexts in del_event_ctx_ are deleted after the batch.
EndBatch ==
  /\ loop.at = "end" /\ callback.of = "none"
  /\ loop' = [at |-> "wait", events |-> {}]
  /\ ctx' = IF ctx.state = "removed" THEN [ctx EXCEPT !.state = "freed"] ELSE ctx
  /\ UNCHANGED <<send, recv, impl, callback, peer, closed, userVars, history>>

\* Steps of the loop; the ones that hand out an event make progress.
Loop == Poll \/ Skip \/ ExceptSend \/ ExceptRecv \/ Readable \/ Writeable \/ EndBatch

-----------------------------------------------------------------------------
(* The other end.                                                          *)

PeerSends == /\ peer.sent < MaxData /\ ~peer.gone /\ ~peer.broken
             /\ peer' = [peer EXCEPT !.data = @ + 1, !.sent = @ + 1]

PeerCloses == ~peer.gone /\ peer' = [peer EXCEPT !.gone = TRUE]

PeerResets == ~peer.broken /\ peer' = [peer EXCEPT !.gone = TRUE, !.broken = TRUE]

Peer == /\ PeerSends \/ PeerCloses \/ PeerResets
        /\ UNCHANGED <<send, recv, impl, ctx, loop, callback, closed, userVars, history>>

Next == User \/ Return \/ Throw \/ Loop \/ Peer

\* The io thread goes on, callbacks return, and a socket that waits to be
\* writable is, now and then.  The user need not do anything.
Fairness == /\ WF_vars(Loop) /\ WF_vars(Return)
            /\ SF_vars(Poll /\ "out" \in loop'.events)

Spec == Init /\ [][Next]_vars /\ Fairness

-----------------------------------------------------------------------------
(* Properties.                                                             *)

\* An operation that is pending is armed in epoll, although a context is
\* disarmed only after its callback and armed only when last_status_ says so.
PendingArmed ==
  ctx.state = "polled" =>
    /\ send.status # "idle" => "out" \in ctx.armed
    /\ recv.status = "recv" => "in" \in ctx.armed

\* The connection is deleted once and its context unregistered once, from
\* whatever callback, event or error it is closed.
DeletedOnce == deleted <= 1 /\ removed <= 1

\* A connection that is closed while no receive is pending is not touched
\* after it has been deleted: not by the rest of its own event, not by the
\* rest of the batch, not by the end of a send it left behind.
ClosedQuietly == touched => recvAtClose

\* Data handed to async_send is sent, or its failure told, or the connection
\* closed first.
SendEnds == (send.status = "send") ~> (send.status # "send")

\* A closed connection gives back its descriptor.
DescriptorClosed == closed ~> (ctx.state # "polled" \/ touched)

\* A connection is deleted once and left alone from then on.
ClosedSafely == DeletedOnce /\ ClosedQuietly

\* What a connection has begun ends: its sends, and its descriptor.
ConnectionEnds == SendEnds /\ DescriptorClosed

=============================================================================
