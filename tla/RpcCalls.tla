------------------------------ MODULE RpcCalls ------------------------------
(***************************************************************************)
(* A call of xsimple_rpc from one end to the other: the thread that calls  *)
(* and waits, the io thread of the client with its message box, the client *)
(* session, the connection, and the session of the server.                 *)
(*                                                                         *)
(* One caller uses a client at a time (its req_id_ is not protected); it   *)
(* may give up a call and make the next one while the first is anywhere on *)
(* its way.  Length and body of a message are taken as one.                *)
(***************************************************************************)
EXTENDS Naturals, Sequences

CONSTANTS MaxCalls,       \* bound: calls the client makes
          MaxTimeouts     \* bound: calls that are given up

ASSUME RpcAssumption == MaxCalls \in Nat /\ MaxTimeouts \in Nat

Call == 1 .. MaxCalls

VARIABLES caller,     \* the calling thread
          item,       \* rpc_req of each call: status_, and whose result_ it is
          got,        \* what the caller was told of each call
          posted,     \* the message box of the io thread
          session,    \* the rpc_session of the client
          io,         \* where the io thread of the client is
          wire,       \* the connection: data on its way, and whether it is up
          server,     \* the rpc_session of the server
          runs,       \* history: how often each call has run
          late,       \* history: calls pushed after their session was closed
          fault,      \* history: failed assertions, answers not asked for
          timeouts    \* counted for the bound

callsVars == <<caller, item, got, posted, session, io, wire, server, runs, late,
          fault, timeouts>>

None == 0

CallerType == [at : {"connecting", "added", "idle", "pushed", "waiting", "gone"},
               call : 0 .. MaxCalls]
ItemType == [status : {"null", "ok", "error"}, of : 0 .. MaxCalls]
SessionType == [reqs : Seq(Call), waits : Seq(Call), isSend : BOOLEAN,
                isClose : BOOLEAN, kept : BOOLEAN, onClose : BOOLEAN,
                sending : 0 .. MaxCalls, receiving : BOOLEAN]
WireType == [requests : Seq(Call), answers : Seq(Call), up : BOOLEAN]
ServerType == [open : BOOLEAN, isSend : BOOLEAN, sending : 0 .. MaxCalls,
               resps : Seq(Call)]

CallsTypeOK ==
  /\ caller \in CallerType /\ session \in SessionType
  /\ wire \in WireType /\ server \in ServerType
  /\ item \in [Call -> ItemType]
  /\ got \in [Call -> {"nothing", "ok", "error", "timeout", "refused"}]
  /\ posted \in Seq({"send", "delete"})
  /\ io \in {"loop", "closing"}
  /\ runs \in [Call -> {0, 1}]
  /\ late \subseteq Call
  /\ fault \subseteq {"client sends", "server sends", "nobody waits", "req_id"}
  /\ timeouts \in 0 .. MaxTimeouts

\* connect has been told of the connection, the server has accepted it; or
\* connect has returned.
Connects(at) ==
  /\ caller = [at |-> at, call |-> 0]
  /\ item = [n \in Call |-> [status |-> "null", of |-> None]]
  /\ got = [n \in Call |-> "nothing"]
  /\ posted = <<>>
  /\ session = [reqs |-> <<>>, waits |-> <<>>, isSend |-> FALSE, isClose |-> FALSE,
                kept |-> at = "idle", onClose |-> at = "idle", sending |-> None,
                receiving |-> TRUE]
  /\ io = "loop"
  /\ wire = [requests |-> <<>>, answers |-> <<>>, up |-> TRUE]
  /\ server = [open |-> TRUE, isSend |-> FALSE, sending |-> None, resps |-> <<>>]
  /\ runs = [n \in Call |-> 0]
  /\ late = {} /\ fault = {} /\ timeouts = 0

CallsInit == Connects("connecting")

\* The session lives while the pool, a posted handle or the caller keeps it;
\* with it goes its connection.
Alive == \/ session.kept \/ caller.at \in {"connecting", "added", "pushed", "waiting"}
         \/ \E i \in DOMAIN posted : posted[i] = "send"

-----------------------------------------------------------------------------
(* The caller.                                                             *)

clientSide == <<posted, session, io>>
serverSide == <<server, runs>>

\* The rest of connect: the session is kept, then told whom to call when it is
\* closed.  It is in use already.
ConnectAdd ==
  /\ caller.at = "connecting"
  /\ session' = [session EXCEPT !.kept = TRUE]
  /\ caller' = [caller EXCEPT !.at = "added"]
  /\ UNCHANGED <<item, got, posted, io, wire, serverSide, late, fault, timeouts>>

ConnectDone ==
  /\ caller.at = "added"
  /\ session' = [session EXCEPT !.onClose = TRUE]
  /\ caller' = [caller EXCEPT !.at = "idle"]
  /\ UNCHANGED <<item, got, posted, io, wire, serverSide, late, fault, timeouts>>

\* do_rpc_call with session_mutex_ held: the session is looked up and the
\* request pushed, or the call refused ...
CallPush ==
  /\ caller.at = "idle" /\ caller.call < MaxCalls
  /\ LET n == caller.call + 1 IN
       IF session.kept
       THEN /\ caller' = [at |-> "pushed", call |-> n]
            /\ session' = [session EXCEPT !.reqs = Append(@, n)]
            /\ late' = IF session.isClose THEN late \cup {n} ELSE late
            /\ UNCHANGED got
       ELSE /\ caller' = [at |-> "idle", call |-> n]
            /\ got' = [got EXCEPT ![n] = "refused"]
            /\ UNCHANGED <<session, late>>
  /\ UNCHANGED <<item, posted, io, wire, serverSide, fault, timeouts>>

\* ... then do_send_rpc is posted, and session_mutex_ released.
CallPost ==
  /\ caller.at = "pushed"
  /\ posted' = Append(posted, "send")
  /\ caller' = [caller EXCEPT !.at = "waiting"]
  /\ UNCHANGED <<item, got, session, io, wire, serverSide, late, fault, timeouts>>

Told(s) ==
  /\ got' = [got EXCEPT ![caller.call] = s]
  /\ caller' = [caller EXCEPT !.at = "idle"]
  /\ UNCHANGED <<item, clientSide, wire, serverSide, late, fault>>

\* wait_for: the predicate holds, or the time is over and it does not.
CallReturn ==
  /\ caller.at = "waiting" /\ item[caller.call].status # "null"
  /\ Told(item[caller.call].status)
  /\ UNCHANGED timeouts

CallTimeout ==
  /\ caller.at = "waiting" /\ item[caller.call].status = "null"
  /\ timeouts < MaxTimeouts /\ timeouts' = timeouts + 1
  /\ Told("timeout")

\* ~client: close_rpc_ posts del_session.
Drop ==
  /\ caller.at = "idle"
  /\ caller' = [caller EXCEPT !.at = "gone"]
  /\ posted' = Append(posted, "delete")
  /\ UNCHANGED <<item, got, session, io, wire, serverSide, late, fault, timeouts>>

Caller == ConnectAdd \/ ConnectDone \/ CallPush \/ CallPost \/ CallReturn \/ CallTimeout \/ Drop

-----------------------------------------------------------------------------
(* The io thread of the client.                                            *)

\* Mutant: a request stays in the list when it is sent.
UnsentKeeps(reqs) == reqs

\* What is left in the list when its first request is sent.
Unsent(reqs) == Tail(reqs)

\* Mutant: do_send_rpc does not look at is_send_.
MaySendAny(s) == s.reqs # <<>>

\* do_send_rpc has something to do.
MaySend(s) == ~s.isSend /\ s.reqs # <<>>

\* do_send_rpc; async_send asserts that nothing is being sent.
DoSend(s) ==
  IF ~MaySend(s) THEN session' = s /\ UNCHANGED fault
  ELSE /\ session' = [s EXCEPT !.isSend = TRUE, !.reqs = Unsent(@),
                               !.sending = Head(s.reqs),
                               !.waits = Append(@, Head(s.reqs))]
       /\ fault' = IF s.sending = None THEN fault ELSE fault \cup {"client sends"}

\* Who is told that the connection is lost.
Pending(s) == s.waits \o s.reqs

\* close of session s, as far as it holds the lock.
MarkClosed(s) ==
  /\ item' = [n \in Call |-> IF \E i \in DOMAIN Pending(s) : Pending(s)[i] = n
                             THEN [item[n] EXCEPT !.status = "error"] ELSE item[n]]
  /\ session' = [s EXCEPT !.isClose = TRUE]
  /\ io' = "closing"

\* close_callback_, which is del_session and takes session_mutex_; when it is
\* not yet set, an exception that the proactor catches.
CloseCallback ==
  /\ io = "closing" /\ (session.onClose => caller.at # "pushed")
  /\ io' = "loop"
  /\ session' = IF session.onClose THEN [session EXCEPT !.kept = FALSE] ELSE session
  /\ UNCHANGED <<caller, item, got, posted, wire, serverSide, late, fault, timeouts>>

\* A handle from the message box.
Posted ==
  /\ io = "loop" /\ posted # <<>>
  /\ posted' = Tail(posted)
  /\ \/ Head(posted) = "send" /\ DoSend(session)
     \/ /\ Head(posted) = "delete" /\ caller.at # "pushed"
        /\ session' = [session EXCEPT !.kept = FALSE] /\ UNCHANGED fault
  /\ UNCHANGED <<caller, item, got, io, wire, serverSide, late, timeouts>>

\* Mutant: the send callback leaves the next request to the next call.
AfterSendWaits(s) == session' = s /\ UNCHANGED fault

\* The send callback goes on with the next request.
AfterSend(s) == DoSend(s)

\* The request has been sent, perhaps to nobody.  A connection that is closed
\* meanwhile still sends it (Connection), but calls nobody.
Sent ==
  /\ io = "loop" /\ session.sending # None
  /\ wire' = IF wire.up /\ server.open
             THEN [wire EXCEPT !.requests = Append(@, session.sending)] ELSE wire
  /\ IF Alive THEN AfterSend([session EXCEPT !.sending = None, !.isSend = FALSE])
     ELSE session' = [session EXCEPT !.sending = None] /\ UNCHANGED fault
  /\ UNCHANGED <<caller, item, got, posted, io, serverSide, late, timeouts>>

\* The other end is gone, as this end sees it.
Lost == ~wire.up \/ ~server.open

\* The send callback with length 0.
SendFails ==
  /\ io = "loop" /\ Alive /\ session.sending # None /\ Lost
  /\ MarkClosed([session EXCEPT !.sending = None])
  /\ UNCHANGED <<caller, got, posted, wire, serverSide, late, fault, timeouts>>

\* recv_data_callback: the answer is for the request sent first.
Answer ==
  /\ io = "loop" /\ Alive /\ session.receiving /\ wire.answers # <<>>
  /\ LET a == Head(wire.answers) IN
       /\ wire' = [wire EXCEPT !.answers = Tail(@)]
       /\ IF session.waits = <<>>
          THEN /\ fault' = fault \cup {"nobody waits"}
               /\ UNCHANGED <<item, session, io>>
          ELSE LET n == Head(session.waits)
                   s == [session EXCEPT !.waits = Tail(@)] IN
               IF n # a
               THEN /\ fault' = fault \cup {"req_id"}
                    /\ MarkClosed([s EXCEPT !.receiving = FALSE])
               ELSE /\ item' = [item EXCEPT ![n] = [status |-> "ok", of |-> a]]
                    /\ session' = s
                    /\ UNCHANGED <<io, fault>>
  /\ UNCHANGED <<caller, got, posted, serverSide, late, timeouts>>

\* The receive callback with length 0; what was on its way may be lost.
RecvFails ==
  /\ io = "loop" /\ Alive /\ session.receiving /\ Lost
  /\ MarkClosed([session EXCEPT !.receiving = FALSE])
  /\ UNCHANGED <<caller, got, posted, wire, serverSide, late, fault, timeouts>>

Io == CloseCallback \/ Posted \/ Sent \/ SendFails \/ Answer \/ RecvFails

-----------------------------------------------------------------------------
(* The server.                                                             *)

\* An answer that has to wait.
Queued(resps, n) == Append(resps, n)

\* do_send_resp; async_send asserts that nothing is being sent.
DoSendResp(n) ==
  IF server.isSend
  THEN server' = [server EXCEPT !.resps = Queued(@, n)] /\ UNCHANGED fault
  ELSE /\ server' = [server EXCEPT !.isSend = TRUE, !.sending = n]
       /\ fault' = IF server.sending = None THEN fault
                   ELSE fault \cup {"server sends"}

\* close_session: answers that wait are dropped, one that is being sent may
\* still be (Connection).
CloseSession == server' = [server EXCEPT !.open = FALSE, !.resps = <<>>]

\* recv_msg_callback: the function returns, or throws, which ends the session.
Serve ==
  /\ server.open /\ wire.requests # <<>>
  /\ LET n == Head(wire.requests) IN
       /\ wire' = [wire EXCEPT !.requests = Tail(@)]
       /\ runs' = [runs EXCEPT ![n] = @ + 1]
       /\ DoSendResp(n) \/ (CloseSession /\ UNCHANGED fault)
  /\ UNCHANGED <<caller, item, got, clientSide, late, timeouts>>

\* The send callback of the server.
ServerSent ==
  /\ server.sending # None /\ wire.up
  /\ wire' = [wire EXCEPT !.answers = Append(@, server.sending)]
  /\ server' = IF server.resps = <<>>
               THEN [server EXCEPT !.sending = None, !.isSend = FALSE]
               ELSE [server EXCEPT !.sending = Head(server.resps), !.resps = Tail(@)]
  /\ UNCHANGED <<caller, item, got, clientSide, runs, late, fault, timeouts>>

\* The receive or the send callback with length 0.
ServerLost ==
  /\ server.open /\ (~wire.up \/ ~Alive)
  /\ CloseSession
  /\ UNCHANGED <<caller, item, got, clientSide, wire, runs, late, fault, timeouts>>

Server == Serve \/ ServerSent \/ ServerLost

\* The connection breaks, with what is on its way.
Break ==
  /\ wire.up
  /\ wire' = [requests |-> <<>>, answers |-> <<>>, up |-> FALSE]
  /\ UNCHANGED <<caller, item, got, clientSide, serverSide, late, fault, timeouts>>

CallsNext == Caller \/ Io \/ Server \/ Break

\* Every thread goes on; nobody has to call, to give up or to drop the
\* client, and a connection that has failed is noticed.
CallsFairness ==
  /\ WF_callsVars(ConnectAdd \/ ConnectDone \/ CallPost \/ CallReturn)
  /\ WF_callsVars(CloseCallback \/ Posted) /\ WF_callsVars(Sent \/ SendFails)
  /\ WF_callsVars(Answer \/ RecvFails)
  /\ WF_callsVars(Serve) /\ WF_callsVars(ServerSent) /\ WF_callsVars(ServerLost)

CallsSpec == CallsInit /\ [][CallsNext]_callsVars /\ CallsFairness

-----------------------------------------------------------------------------
(* Properties.                                                             *)

\* Nothing is sent on a connection that is sending, at either end, although
\* requests are started by handles and by the callback of the one before.
OneInFlight == {"client sends", "server sends"} \cap fault = {}

\* An answer finds its own request at the head of the waiting ones, whatever
\* calls have been given up meanwhile.
AnswersMatch == {"nobody waits", "req_id"} \cap fault = {}

\* When a session is closed, every call it has in hand is told, sent or not;
\* only one pushed afterwards, before the pool lets the session go, is not.
LostTold ==
  session.isClose /\ caller.at = "waiting" /\ caller.call \notin late
    => item[caller.call].status # "null"

\* The wait for a call ends, by a result or an error, without its time-out,
\* unless the call was pushed behind the back of the closing io thread.
CallEnds ==
  (caller.at = "waiting" /\ caller.call \notin late) ~> (caller.at # "waiting")

\* The calls of a client are remote calls as Rpc has them.
Outcome == [n \in Call |->
              CASE got[n] = "ok" -> IF item[n].of = n THEN "result" ELSE "wrong"
                [] got[n] \in {"error", "timeout", "refused"} -> got[n]
                [] caller.call = n /\ caller.at \in {"pushed", "waiting"} -> "called"
                [] OTHER -> "new"]

Abstract == INSTANCE Rpc WITH outcome <- Outcome

ImplementsRpc == Abstract!RpcSpec

\* One send in flight, every answer at its request, and a loss told to all.
CallsSafe == CallsTypeOK /\ OneInFlight /\ AnswersMatch /\ LostTold

=============================================================================
