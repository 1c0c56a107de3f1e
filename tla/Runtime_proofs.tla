--------------------------- MODULE Runtime_proofs ---------------------------
(***************************************************************************)
(* What TLAPS proves of the runtime below the protocols: of a connection   *)
(* in epoll, for any number of operations, data and exceptions; of         *)
(* the pool of proactors, for any number of threads, connections and       *)
(* wake-ups without a notification; of the timers, for any number of them, *)
(* any delays and any moments; of coroutines, for any number of functions  *)
(* that yield any number of times; and of the logger, for any number of    *)
(* threads that log any items.                                             *)
(***************************************************************************)
EXTENDS Connection, ProactorPool, Timers, Coroutine, Logger, FiniteSetTheorems,
        SequenceTheorems, WellFoundedInduction, TLAPS

-----------------------------------------------------------------------------
(* Connection: type correctness.                                           *)

LEMMA InitType == Init => TypeOK
<1> SUFFICES ASSUME Init PROVE TypeOK
  OBVIOUS
<1> USE ConnectionAssumption DEF Init
<1>1. send \in SendContext /\ recv \in RecvContext
  BY DEF SendContext, RecvContext
<1>2. impl \in Impl /\ ctx \in EventContext
  BY DEF Impl, EventContext
<1>3. loop \in Place /\ callback \in Callback /\ peer \in OtherEnd
  BY DEF Place, Callback, OtherEnd, NoCallback
<1>4. ops \in 0 .. MaxOps /\ throws \in 0 .. MaxThrows
  OBVIOUS
<1> QED BY <1>1, <1>2, <1>3, <1>4 DEF TypeOK

LEMMA EnterType ==
  ASSUME TypeOK, NEW of \in {"send", "recv"}, NEW ok \in BOOLEAN,
         NEW then \in {"errRecv", "in", "out", "end"},
         of = "send" => send.status = "send", Enter(of, ok, then),
         peer' \in OtherEnd
  PROVE  TypeOK'
<1> USE DEF TypeOK
<1>1. CASE deleted > 0
  <2>1. loop' \in Place
    BY <1>1 DEF Enter, Place
  <2> QED BY <1>1, <2>1 DEF Enter, userVars
<1>2. CASE ~(deleted > 0)
  <2>1. callback' \in Callback
    BY <1>2 DEF Enter, Callback
  <2>2. impl' \in Impl
    BY <1>2 DEF Enter, Impl
  <2>3. send' \in SendContext
    BY <1>2 DEF Enter, SendContext
  <2>4. recv' \in RecvContext
    BY <1>2 DEF Enter, RecvContext
  <2> QED BY <1>2, <2>1, <2>2, <2>3, <2>4 DEF Enter, userVars, history
<1> QED BY <1>1, <1>2

\* Going on in the loop, and giving up the descriptor.
LEMMA GoType ==
  ASSUME loop \in Place, NEW at \in {"in", "out", "end", "errRecv"}, Go(at)
  PROVE  loop' \in Place
BY DEF Go, Place

LEMMA RemoveType ==
  ASSUME ctx \in EventContext, removed \in Nat, Unregister
  PROVE  ctx' \in EventContext /\ removed' \in Nat
BY DEF Unregister, EventContext

LEMMA StepType == TypeOK /\ [Next]_vars => TypeOK'
<1> SUFFICES ASSUME TypeOK, [Next]_vars PROVE TypeOK'
  OBVIOUS
<1> USE ConnectionAssumption DEF TypeOK
<1>1. CASE AsyncSend
  <2>1. send' \in SendContext
    <3>1. send' = [status |-> "send", last |-> send.last, left |-> Length]
      BY <1>1 DEF AsyncSend, SendContext
    <3>2. Length \in 0 .. Length
      OBVIOUS
    <3> QED BY <3>1, <3>2 DEF SendContext
  <2>3. ops' \in 0 .. MaxOps
    BY <1>1 DEF AsyncSend
  <2>2. ctx' \in EventContext
    BY <1>1 DEF AsyncSend, Arm, EventContext
  <2> QED BY <1>1, <2>1, <2>2, <2>3 DEF AsyncSend, history
<1>2. CASE AsyncRecv
  <2>1. recv' \in RecvContext /\ ops' \in 0 .. MaxOps
    BY <1>2 DEF AsyncRecv, RecvContext
  <2>2. ctx' \in EventContext
    BY <1>2 DEF AsyncRecv, Arm, EventContext
  <2> QED BY <1>2, <2>1, <2>2 DEF AsyncRecv, history
<1>3. CASE Close
  <2>1. /\ send' \in SendContext /\ ctx' \in EventContext
        /\ removed' \in Nat
    BY <1>3, RemoveType DEF Close, SendAtClose, SendContext
  <2>2. impl' \in Impl
    BY <1>3 DEF Close, DeletedAtClose, Impl
  <2> QED BY <1>3, <2>1, <2>2 DEF Close, userVars
<1>4. CASE Return
  <2>1. send' \in SendContext /\ recv' \in RecvContext
    BY <1>4 DEF Return, Disarmed, SendContext, RecvContext
  <2>2. impl' \in Impl /\ ctx' \in EventContext
    BY <1>4 DEF Return, Impl, EventContext
  <2>3. loop' \in Place /\ callback' \in Callback
    BY <1>4 DEF Return, Place, Callback, NoCallback
  <2> QED BY <1>4, <2>1, <2>2, <2>3 DEF Return, userVars
<1>5. CASE Throw
  <2>1. loop' \in Place /\ callback' \in Callback
    BY <1>5 DEF Throw, Place, Callback, NoCallback
  <2> QED BY <1>5, <2>1 DEF Throw, history
<1>6. CASE Poll
  <2>1. loop' \in Place
    BY <1>6 DEF Poll, Reported, Place
  <2> QED BY <1>6, <2>1 DEF Poll, userVars, history
<1>7. CASE Skip
  <2>1. loop' \in Place
    BY <1>7, GoType DEF Skip, NotDue
  <2> QED BY <1>7, <2>1 DEF Skip, NotDue, userVars, history
<1>8. CASE ExceptSend
  <2>1. CASE send.status = "send" /\ Enter("send", FALSE, "errRecv")
    BY <1>8, <2>1, EnterType DEF ExceptSend
  <2>2. CASE ~(send.status = "send" /\ Enter("send", FALSE, "errRecv"))
    BY <1>8, <2>2, GoType, RemoveType DEF ExceptSend, userVars, history
  <2> QED BY <2>1, <2>2
<1>9. CASE ExceptRecv
  <2>1. CASE Enter("recv", FALSE, "in")
    BY <1>9, <2>1, EnterType DEF ExceptRecv
  <2>2. CASE ~Enter("recv", FALSE, "in")
    BY <1>9, <2>2, GoType DEF ExceptRecv, userVars, history
  <2> QED BY <2>1, <2>2
<1>10. CASE Readable
  <2>1. peer' \in OtherEnd
    BY <1>10 DEF Readable, OtherEnd
  <2>2. ASSUME NEW ok \in BOOLEAN, Enter("recv", ok, "out") PROVE TypeOK'
    BY <2>1, <2>2, EnterType
  <2>3. CASE Go("out") /\ UNCHANGED <<send, recv, impl, ctx, callback, closed, userVars, history>>
    BY <2>1, <2>3, GoType DEF userVars, history
  <2>4. peer.broken \in BOOLEAN
    BY DEF OtherEnd
  <2> QED BY <1>10, <2>2, <2>3, <2>4 DEF Readable
<1>11. CASE Writeable
  <2>1. ASSUME NEW ok \in BOOLEAN, send.status = "send", Enter("send", ok, "end") PROVE TypeOK'
    BY <1>11, <2>1, EnterType DEF Writeable
  <2>2. CASE /\ Unregister /\ Go("end")
             /\ UNCHANGED <<send, recv, impl, callback, closed, userVars, deleted,
                            recvAtClose, touched>>
    BY <1>11, <2>2, GoType, RemoveType DEF Writeable, userVars
  <2>3. CASE /\ send.status # "idle" => PartLeft
             /\ send' = IF send.status = "idle" THEN send ELSE [send EXCEPT !.left = @ - 1]
             /\ Go("end")
             /\ UNCHANGED <<recv, impl, ctx, callback, closed, userVars, history>>
    <3>1. send' \in SendContext
      BY <2>3 DEF PartLeft, SendContext
    <3> QED BY <1>11, <2>3, <3>1, GoType DEF Writeable, userVars, history
  <2> QED BY <1>11, <2>1, <2>2, <2>3 DEF Writeable
<1>12. CASE EndBatch
  <2>1. loop' \in Place /\ ctx' \in EventContext
    BY <1>12 DEF EndBatch, Place, EventContext
  <2> QED BY <1>12, <2>1 DEF EndBatch, userVars, history
<1>13. CASE Peer
  <2>1. peer' \in OtherEnd
    <3>1. CASE PeerSends
      <4>1. peer' = [data |-> peer.data + 1, sent |-> peer.sent + 1,
                     gone |-> peer.gone, broken |-> peer.broken]
        BY <3>1 DEF PeerSends, OtherEnd
      <4>2. peer.sent + 1 \in 0 .. MaxData
        BY <3>1 DEF PeerSends, OtherEnd
      <4> QED BY <4>1, <4>2 DEF OtherEnd
    <3>2. CASE PeerCloses
      BY <3>2 DEF PeerCloses, OtherEnd
    <3>3. CASE PeerResets
      <4>1. peer' = [data |-> peer.data, sent |-> peer.sent, gone |-> TRUE, broken |-> TRUE]
        BY <3>3 DEF PeerResets, OtherEnd
      <4> QED BY <4>1 DEF OtherEnd
    <3> QED BY <1>13, <3>1, <3>2, <3>3 DEF Peer
  <2> QED BY <1>13, <2>1 DEF Peer, userVars, history
<1>14. CASE UNCHANGED vars
  BY <1>14 DEF vars, userVars, history
<1> QED
  BY <1>1, <1>2, <1>3, <1>4, <1>5, <1>6, <1>7, <1>8, <1>9, <1>10, <1>11, <1>12,
     <1>13, <1>14 DEF Next, User, Loop

\* Every variable of the connection and of its loop keeps its type: no send
\* passes the length it was given, no status is entered that nobody handles.
THEOREM TypeCorrect == Spec => []TypeOK
BY InitType, StepType, PTL DEF Spec

-----------------------------------------------------------------------------
(* Connection: safety.                                                     *)

\* Before the user closes the connection nothing of it goes; when he has, it
\* is gone or marked to go.
OpenInv ==
  /\ ~closed => /\ deleted = 0 /\ removed = 0
                /\ send.status # "closing" /\ ~impl.closeFlag
                /\ ctx.state \in {"none", "polled"}
  /\ closed => ctx.state # "none" /\ (deleted = 0 => impl.closeFlag)
  /\ ctx.state = "none" => /\ send.status = "idle" /\ send.last = "idle"
                           /\ recv.status = "idle" /\ recv.last = "idle"

\* A context that has not been disarmed is armed, as last_status_ says.
ArmedInv ==
  ctx.state = "polled" => /\ send.last = "send" => "out" \in ctx.armed
                          /\ recv.last = "recv" => "in" \in ctx.armed
                          /\ send.status # "idle" => "out" \in ctx.armed
                          /\ recv.status = "recv" => "in" \in ctx.armed

\* In a callback the connection is there, and knows it.
CallbackInv == callback.of # "none" => deleted = 0 /\ impl.inCallback

\* Who gives up the descriptor: close, or the end of the send it leaves.
RemovedInv ==
  /\ deleted <= 1 /\ removed <= 1
  /\ ctx.state = "polled" => removed = 0

\* After close nothing of the connection is asked for but a receive that was
\* pending then.
ClosedInv ==
  /\ closed => send.status # "send" /\ (recv.status = "recv" => recvAtClose)
  /\ touched => closed /\ recvAtClose

IInv == TypeOK /\ OpenInv /\ ArmedInv /\ CallbackInv /\ RemovedInv /\ ClosedInv

LEMMA InitSafe == Init => OpenInv /\ ArmedInv /\ CallbackInv /\ RemovedInv /\ ClosedInv
BY DEF Init, NoCallback, OpenInv, ArmedInv, CallbackInv, RemovedInv, ClosedInv

\* Entering a callback, and what makes its undefined branch harmless.
LEMMA EnterSafe ==
  ASSUME IInv, NEW of \in {"send", "recv"}, NEW ok, NEW then,
         of = "send" => send.status = "send", of = "recv" => recv.status = "recv",
         Enter(of, ok, then)
  PROVE  OpenInv' /\ ArmedInv' /\ CallbackInv' /\ RemovedInv' /\ ClosedInv'
<1> USE DEF IInv, TypeOK
<1>1. CASE deleted > 0
  BY <1>1 DEF Enter, userVars, OpenInv, ArmedInv, CallbackInv, RemovedInv, ClosedInv
<1>2. CASE ~(deleted > 0) /\ of = "send"
  <2>1. /\ send' = [status |-> "idle", last |-> "send", left |-> send.left]
        /\ impl' = [inCallback |-> TRUE, closeFlag |-> impl.closeFlag]
    BY <1>2 DEF Enter, SendContext, Impl
  <2> QED
    BY <1>2, <2>1 DEF Enter, userVars, history, OpenInv, ArmedInv, CallbackInv,
       RemovedInv, ClosedInv
<1>3. CASE ~(deleted > 0) /\ of = "recv"
  <2>1. /\ recv' = [status |-> "idle", last |-> "recv"]
        /\ impl' = [inCallback |-> TRUE, closeFlag |-> impl.closeFlag]
        /\ callback'.of = "recv"
    BY <1>3 DEF Enter, RecvContext, Impl
  <2>2. UNCHANGED <<send, ctx, closed, deleted, removed, recvAtClose, touched>>
    BY <1>3 DEF Enter, history
  <2>3. OpenInv' /\ ArmedInv' /\ RemovedInv' /\ ClosedInv'
    BY <1>3, <2>1, <2>2 DEF OpenInv, ArmedInv, RemovedInv, ClosedInv
  <2>4. CallbackInv'
    BY <1>3, <2>1, <2>2 DEF CallbackInv, OpenInv
  <2> QED BY <2>3, <2>4
<1> QED BY <1>1, <1>2, <1>3

\* Giving up the descriptor at the end of a send that close has left.
LEMMA RemoveSafe ==
  ASSUME IInv, ctx.state = "polled", send.status = "closing", Unregister,
         UNCHANGED <<send, recv, impl, callback, closed, userVars, deleted,
                     recvAtClose, touched>>
  PROVE  OpenInv' /\ ArmedInv' /\ CallbackInv' /\ RemovedInv' /\ ClosedInv'
<1>1. ctx' = [state |-> "removed", armed |-> ctx.armed]
  BY DEF Unregister, IInv, TypeOK, EventContext
<1> QED
  BY <1>1 DEF Unregister, userVars, IInv, TypeOK, OpenInv, ArmedInv, CallbackInv,
     RemovedInv, ClosedInv

LEMMA StepSafe ==
  IInv /\ [Next]_vars => OpenInv' /\ ArmedInv' /\ CallbackInv' /\ RemovedInv' /\ ClosedInv'
<1> SUFFICES ASSUME IInv, [Next]_vars
             PROVE  OpenInv' /\ ArmedInv' /\ CallbackInv' /\ RemovedInv' /\ ClosedInv'
  OBVIOUS
<1> USE DEF IInv, TypeOK
<1>0. ASSUME UNCHANGED <<send, recv, impl, ctx, callback, closed, userVars, history>>
      PROVE  OpenInv' /\ ArmedInv' /\ CallbackInv' /\ RemovedInv' /\ ClosedInv'
  BY <1>0 DEF userVars, history, OpenInv, ArmedInv, CallbackInv, RemovedInv, ClosedInv
<1>1. CASE AsyncSend
  <2>1. send' = [status |-> "send", last |-> send.last, left |-> Length]
    BY <1>1 DEF AsyncSend, SendContext
  <2>2. ctx' = IF send.last = "send" THEN ctx
               ELSE [state |-> IF ctx.state = "none" THEN "polled" ELSE ctx.state,
                     armed |-> ctx.armed \cup {"out"}]
    BY <1>1 DEF AsyncSend, Arm
  <2> QED
    BY <1>1, <2>1, <2>2 DEF AsyncSend, history, OpenInv, ArmedInv, CallbackInv,
       RemovedInv, ClosedInv
<1>2. CASE AsyncRecv
  <2>1. recv' = [status |-> "recv", last |-> recv.last]
    BY <1>2 DEF AsyncRecv, RecvContext
  <2>2. ctx' = IF recv.last = "recv" THEN ctx
               ELSE [state |-> IF ctx.state = "none" THEN "polled" ELSE ctx.state,
                     armed |-> ctx.armed \cup {"in"}]
    BY <1>2 DEF AsyncRecv, Arm
  <2> QED
    BY <1>2, <2>1, <2>2 DEF AsyncRecv, history, OpenInv, ArmedInv, CallbackInv,
       RemovedInv, ClosedInv
<1>3. CASE Close
  <2>1. /\ closed' /\ ~closed /\ UNCHANGED <<recv, callback, touched>>
        /\ recv.status = "recv" => recvAtClose'
        /\ deleted = 0 /\ removed = 0 /\ ctx.state = "polled"
        /\ send.status # "closing"
    BY <1>3 DEF Close, OpenInv
  <2>2. IF send.status = "idle"
        THEN /\ ctx' = [state |-> "removed", armed |-> ctx.armed] /\ removed' = 1
             /\ UNCHANGED send
        ELSE /\ send' = [status |-> "closing", last |-> send.last, left |-> send.left]
             /\ UNCHANGED <<ctx, removed>>
    BY <1>3, <2>1 DEF Close, Unregister, SendAtClose, SendContext, EventContext
  <2>3. CASE impl.inCallback
    <3>1. impl' = [inCallback |-> TRUE, closeFlag |-> TRUE] /\ deleted' = 0
      BY <1>3, <2>1, <2>3 DEF Close, DeletedAtClose, Impl
    <3>2. OpenInv' /\ ArmedInv' /\ CallbackInv'
      BY <2>1, <2>2, <3>1 DEF OpenInv, ArmedInv, CallbackInv
    <3>3. RemovedInv'
      BY <2>1, <2>2, <3>1 DEF RemovedInv
    <3>4. ClosedInv'
      BY <2>1, <2>2 DEF ClosedInv
    <3> QED BY <3>2, <3>3, <3>4
  <2>4. CASE ~impl.inCallback
    <3>1. UNCHANGED impl /\ deleted' = 1
      BY <1>3, <2>1, <2>4 DEF Close, DeletedAtClose
    <3>2. OpenInv' /\ ArmedInv' /\ CallbackInv'
      BY <2>1, <2>2, <2>4, <3>1 DEF OpenInv, ArmedInv, CallbackInv
    <3>3. RemovedInv'
      BY <2>1, <2>2, <3>1 DEF RemovedInv
    <3>4. ClosedInv'
      BY <2>1, <2>2 DEF ClosedInv
    <3> QED BY <3>2, <3>3, <3>4
  <2> QED BY <2>3, <2>4
<1>4. CASE Return
  <2>1. /\ impl' = [inCallback |-> FALSE, closeFlag |-> impl.closeFlag]
        /\ callback'.of = "none"
    BY <1>4 DEF Return, Impl, NoCallback
  <2>2. CASE UNCHANGED <<send, recv, ctx>>
    <3>1. /\ UNCHANGED <<closed, removed, recvAtClose, touched>> /\ deleted = 0
          /\ deleted' = IF impl.closeFlag THEN 1 ELSE 0
      BY <1>4 DEF Return, CallbackInv
    <3>2. CASE impl.closeFlag
      BY <2>1, <2>2, <3>1, <3>2 DEF OpenInv, ArmedInv, CallbackInv, RemovedInv,
         ClosedInv
    <3>3. CASE ~impl.closeFlag
      BY <2>1, <2>2, <3>1, <3>3 DEF OpenInv, ArmedInv, CallbackInv, RemovedInv,
         ClosedInv
    <3> QED BY <3>2, <3>3
  <2>3. CASE ~UNCHANGED <<send, recv, ctx>> /\ callback.of = "send"
    <3>1. /\ ~impl.closeFlag /\ send.status = "idle"
          /\ send' = [status |-> "idle", last |-> "idle", left |-> send.left]
          /\ ctx' = [state |-> ctx.state, armed |-> ctx.armed \ {"out"}]
          /\ UNCHANGED recv
      BY <1>4, <2>3 DEF Return, Idle, Disarmed, SendContext, EventContext, OpenInv,
         CallbackInv
    <3> QED
      BY <1>4, <2>1, <3>1 DEF Return, OpenInv, ArmedInv, CallbackInv, RemovedInv,
         ClosedInv
  <2>4. CASE ~UNCHANGED <<send, recv, ctx>> /\ callback.of = "recv"
    <3>1. /\ ~impl.closeFlag /\ recv.status = "idle"
          /\ recv' = [status |-> "idle", last |-> "idle"]
          /\ ctx' = [state |-> ctx.state, armed |-> ctx.armed \ {"in"}]
          /\ UNCHANGED send
      BY <1>4, <2>4 DEF Return, Idle, Disarmed, RecvContext, EventContext
    <3> QED
      BY <1>4, <2>1, <3>1 DEF Return, OpenInv, ArmedInv, CallbackInv, RemovedInv,
         ClosedInv
  <2> QED BY <1>4, <2>2, <2>3, <2>4 DEF Return, Callback
<1>5. CASE Throw
  BY <1>5 DEF Throw, NoCallback, history, OpenInv, ArmedInv, CallbackInv, RemovedInv,
     ClosedInv
<1>6. CASE Poll
  BY <1>0, <1>6 DEF Poll
<1>7. CASE Skip
  BY <1>0, <1>7 DEF Skip, NotDue
<1>8. CASE ExceptSend
  BY <1>0, <1>8, EnterSafe, RemoveSafe DEF ExceptSend, Due
<1>9. CASE ExceptRecv
  BY <1>0, <1>9, EnterSafe DEF ExceptRecv
<1>10. CASE Readable
  BY <1>0, <1>10, EnterSafe DEF Readable
<1>11. CASE Writeable
  <2>1. CASE /\ send.status # "idle" => PartLeft
             /\ send' = IF send.status = "idle" THEN send ELSE [send EXCEPT !.left = @ - 1]
             /\ UNCHANGED <<recv, impl, ctx, callback, closed, userVars, history>>
    <3>1. send'.status = send.status /\ send'.last = send.last
      BY <2>1 DEF SendContext
    <3> QED
      BY <2>1, <3>1 DEF userVars, history, OpenInv, ArmedInv, CallbackInv, RemovedInv,
         ClosedInv
  <2> QED BY <1>11, <2>1, EnterSafe, RemoveSafe DEF Writeable, Due
<1>12. CASE EndBatch
  <2>1. CASE ctx.state = "removed"
    <3>1. ctx' = [state |-> "freed", armed |-> ctx.armed]
      BY <1>12, <2>1 DEF EndBatch, EventContext
    <3> QED
      BY <1>12, <2>1, <3>1 DEF EndBatch, userVars, history, OpenInv, ArmedInv,
         CallbackInv, RemovedInv, ClosedInv
  <2> QED BY <1>0, <1>12, <2>1 DEF EndBatch
<1>13. CASE Peer
  BY <1>0, <1>13 DEF Peer, userVars
<1>14. CASE UNCHANGED vars
  BY <1>0, <1>14 DEF vars
<1> QED
  BY <1>1, <1>2, <1>3, <1>4, <1>5, <1>6, <1>7, <1>8, <1>9, <1>10, <1>11, <1>12,
     <1>13, <1>14 DEF Next, User, Loop

LEMMA Inductive == Spec => []IInv
<1>1. Init => IInv
  BY InitType, InitSafe DEF IInv
<1>2. IInv /\ [Next]_vars => IInv'
  BY StepType, StepSafe DEF IInv
<1> QED BY <1>1, <1>2, PTL DEF Spec

\* An operation that is pending is armed in epoll, for any sequence of
\* operations from inside and outside the callbacks, failures and exceptions.
THEOREM PendingIsArmed == Spec => []PendingArmed
<1>1. IInv => PendingArmed
  BY DEF IInv, ArmedInv, PendingArmed
<1> QED BY <1>1, Inductive, PTL

\* The connection is deleted at most once and its context unregistered at
\* most once, wherever it is closed.
THEOREM DeletedAtMostOnce == Spec => []DeletedOnce
<1>1. IInv => DeletedOnce
  BY DEF IInv, RemovedInv, DeletedOnce
<1> QED BY <1>1, Inductive, PTL

\* Unless a receive was pending when it was closed, a connection is never
\* called back after it has been deleted.
THEOREM NotTouched == Spec => []ClosedQuietly
<1>1. IInv => ClosedQuietly
  BY DEF IInv, ClosedInv, ClosedQuietly
<1> QED BY <1>1, Inductive, PTL

\* A connection that is closed, from inside a callback or outside, is deleted
\* at most once and nothing calls it back afterwards unless a receive was pending.
THEOREM ClosedAndGone == Spec => []ClosedSafely
BY DeletedAtMostOnce, NotTouched, PTL DEF ClosedSafely

-----------------------------------------------------------------------------
(* The pool of proactors: the inductive invariant.                         *)

\* The threads that have put their box into msgboxs_, and the handles that
\* wait: the k-th in the box that stands at place p.
Boxed == {t \in Thread : worker[t] \notin {"none", "new"}}
Handles == {h \in Thread \X Nat : h[2] \in 1 .. mailbox[h[1]]}

\* The starter has a thread at hand until the last one runs, and those after
\* it are not there yet.
StarterInv ==
  /\ starter.at \in {"spawn", "wait", "woken"} => starter.i <= PoolSize
  /\ \A t \in Thread :
       t > starter.i \/ (t = starter.i /\ starter.at = "spawn") => worker[t] = "none"

\* Every thread puts one box into msgboxs_, and nothing is accepted before.
BoxInv == /\ Len(msgboxs) = Cardinality(Boxed)
          /\ accept = 1 => msgboxs # <<>>

\* A connection in the list has a handle that waits for it, except the one
\* that accept_callback has just put there.
HandleInv == /\ IsFiniteSet(Handles)
             /\ Len(connections) = Cardinality(Handles) + accept

\* Connections are accepted in order of their numbers and are either in the
\* list or handed out, each in one place.
ConnInv ==
  /\ \A i \in 1 .. Len(connections) : connections[i] <= accepted
  /\ \A i \in 1 .. Len(handed) : handed[i].conn <= accepted
  /\ \A i, j \in 1 .. Len(connections) : connections[i] = connections[j] => i = j
  /\ \A i \in 1 .. Len(handed), j \in 1 .. Len(connections) :
       handed[i].conn # connections[j]

\* How far thread t is, as the starter has come to thread i at stage at.
Stage(at, i, t) ==
  /\ t < i => worker[t] \in {"ready", "ended"} /\ index[t] = t
  /\ t = i /\ at # "spawn" =>
       /\ worker[t] # "none"
       /\ worker[t] \in {"run", "ready", "ended"} => index[t] = t
       /\ notified_ => worker[t] \in {"ready", "ended"}

\* As long as no wake-up came without a notification, the threads start one
\* after the other, and their boxes stand in the same order.
TurnInv ==
  spurious = 0 =>
    /\ starter.at \in {"spawn", "wait"} => ~notified_
    /\ starter.at \in {"running", "stopped"} => starter.i = PoolSize + 1
    /\ \A t \in Thread : Stage(starter.at, starter.i, t)
    /\ \A k \in 1 .. Len(msgboxs) : msgboxs[k] = k
    /\ Len(msgboxs) = IF starter.i \in Thread /\ worker[starter.i] \notin {"none", "new"}
                      THEN starter.i ELSE starter.i - 1

PoolInv == /\ PoolTypeOK /\ StarterInv /\ BoxInv /\ HandleInv /\ ConnInv
           /\ HandedOnce /\ TurnInv

-----------------------------------------------------------------------------
(* The pool: facts about the operators.                                    *)

LEMMA SeqLen ==
  ASSUME NEW S, NEW q \in Seq(S)
  PROVE  Len(q) \in Nat /\ (q = <<>> <=> Len(q) = 0)
OBVIOUS

LEMMA SeqElement ==
  ASSUME NEW S, NEW q \in Seq(S), NEW k \in 1 .. Len(q)
  PROVE  q[k] \in S
OBVIOUS

LEMMA ModIn ==
  ASSUME NEW n \in Nat, NEW l \in Nat, l > 0
  PROVE  n % l \in 0 .. (l - 1)
OBVIOUS

LEMMA BoxedFinite ==
  PoolTypeOK => IsFiniteSet(Boxed) /\ Cardinality(Boxed) \in 0 .. PoolSize
<1> SUFFICES ASSUME PoolTypeOK PROVE IsFiniteSet(Boxed) /\ Cardinality(Boxed) \in 0 .. PoolSize
  OBVIOUS
<1>1. IsFiniteSet(Thread) /\ Cardinality(Thread) = PoolSize
  BY PoolAssumption, FS_Interval DEF Thread
<1>2. Boxed \subseteq Thread
  BY DEF Boxed
<1>3. IsFiniteSet(Boxed) /\ Cardinality(Boxed) <= PoolSize
  BY <1>1, <1>2, FS_Subset
<1> QED BY <1>3, FS_CardinalityType

\* There are no more boxes than threads, and a thread that is past its
\* emplace_back has one.
LEMMA BoxLength ==
  PoolTypeOK /\ BoxInv =>
    /\ Len(msgboxs) \in 0 .. PoolSize
    /\ \A t \in Boxed : Len(msgboxs) > 0
<1> SUFFICES ASSUME PoolTypeOK, BoxInv
             PROVE  /\ Len(msgboxs) \in 0 .. PoolSize
                    /\ \A t \in Boxed : Len(msgboxs) > 0
  OBVIOUS
<1>1. IsFiniteSet(Boxed) /\ Cardinality(Boxed) \in 0 .. PoolSize
  BY BoxedFinite
<1>2. \A t \in Boxed : Cardinality(Boxed) # 0
  BY <1>1, FS_EmptySet
<1> QED BY <1>1, <1>2, PoolAssumption DEF BoxInv

-----------------------------------------------------------------------------
(* The pool: the initial states.                                           *)

LEMMA PoolInvInit == PoolInit => PoolInv
<1> SUFFICES ASSUME PoolInit PROVE PoolInv
  OBVIOUS
<1> USE PoolAssumption DEF PoolInit
<1>1. PoolTypeOK
  <2>1. starter \in [at : {"spawn", "wait", "woken", "running", "stopped"}, i : 1 .. PoolSize + 1]
    OBVIOUS
  <2>2. /\ worker \in [Thread -> {"none", "new", "boxed", "run", "ready", "ended"}]
        /\ index \in [Thread -> 0 .. PoolSize + 1]
        /\ mailbox \in [Thread -> Nat]
    OBVIOUS
  <2>3. msgboxs \in Seq(Thread) /\ connections \in Seq(Conn) /\ handed \in Seq([conn : Conn, by : Thread])
    OBVIOUS
  <2>4. notified_ \in BOOLEAN /\ empty \in BOOLEAN
    OBVIOUS
  <2>5. mbox_index \in Nat /\ accept \in 0 .. 1 /\ accepted \in 0 .. MaxAccepts /\ spurious \in 0 .. MaxSpurious
    OBVIOUS
  <2> HIDE DEF PoolInit
  <2> QED BY <2>1, <2>2, <2>3, <2>4, <2>5 DEF PoolTypeOK
<1>2. Boxed = {} /\ Handles = {}
  BY DEF Boxed, Handles, Thread
<1>3. Len(msgboxs) = 0 /\ Len(connections) = 0 /\ Len(handed) = 0
  OBVIOUS
<1>4. BoxInv /\ HandleInv
  BY <1>2, <1>3, FS_EmptySet DEF BoxInv, HandleInv
<1>5. StarterInv
  BY DEF StarterInv
<1>6. ConnInv /\ HandedOnce
  BY <1>3 DEF ConnInv, HandedOnce
<1>7. TurnInv
  <2>1. \A t \in Thread : Stage(starter.at, starter.i, t)
    BY DEF Stage, Thread
  <2>2. Len(msgboxs) = IF starter.i \in Thread /\ worker[starter.i] \notin {"none", "new"}
                       THEN starter.i ELSE starter.i - 1
    BY <1>3 DEF Thread
  <2> QED BY <1>3, <2>1, <2>2 DEF TurnInv
<1> QED BY <1>1, <1>4, <1>5, <1>6, <1>7 DEF PoolInv

-----------------------------------------------------------------------------
(* The pool: types.                                                        *)

\* The place of msgboxs_ a connection is posted to.
LEMMA PlacePosted ==
  PoolTypeOK /\ BoxInv /\ msgboxs # <<>> =>
    ((mbox_index + 1) % Len(msgboxs)) + 1 \in Thread
<1> SUFFICES ASSUME PoolTypeOK, BoxInv, msgboxs # <<>>
             PROVE  ((mbox_index + 1) % Len(msgboxs)) + 1 \in Thread
  OBVIOUS
<1> DEFINE l == Len(msgboxs)  n == mbox_index + 1
<1>1. l \in Nat /\ l > 0 /\ l <= PoolSize /\ n \in Nat
  BY BoxLength, SeqLen, PoolAssumption DEF PoolTypeOK
<1>2. PoolSize \in Nat
  BY PoolAssumption
<1> HIDE DEF l, n
<1>3. n % l \in 0 .. (l - 1)
  BY <1>1, ModIn
<1>4. (n % l) + 1 \in 1 .. PoolSize
  BY <1>1, <1>2, <1>3
<1> QED BY <1>4 DEF Thread, l, n

LEMMA TypeStep ==
  PoolTypeOK /\ StarterInv /\ BoxInv /\ [PoolNext]_poolVars => PoolTypeOK'
<1> SUFFICES ASSUME PoolTypeOK, StarterInv, BoxInv, [PoolNext]_poolVars
             PROVE  PoolTypeOK'
  OBVIOUS
<1> USE PoolAssumption
<1>1. CASE Spawn
  <2>1. worker' \in [Thread -> {"none", "new", "boxed", "run", "ready", "ended"}]
    BY <1>1 DEF PoolTypeOK, Spawn
  <2>2. starter' \in [at : {"spawn", "wait", "woken", "running", "stopped"}, i : 1 .. PoolSize + 1]
    BY <1>1 DEF PoolTypeOK, Spawn
  <2> QED BY <1>1, <2>1, <2>2 DEF PoolTypeOK, Spawn, handing
<1>2. CASE Waits
  BY <1>2 DEF PoolTypeOK, Waits, handing
<1>3. CASE Woken
  <2>1. starter' \in [at : {"spawn", "wait", "woken", "running", "stopped"}, i : 1 .. PoolSize + 1]
    BY <1>3 DEF PoolTypeOK, StarterInv, Woken
  <2>2. spurious' \in 0 .. MaxSpurious
    BY <1>3 DEF PoolTypeOK, Woken
  <2>3. notified_' \in BOOLEAN
    BY <1>3 DEF Woken
  <2> QED BY <1>3, <2>1, <2>2, <2>3 DEF PoolTypeOK, Woken, handing
<1>4. CASE Accept
  <2>0. accepted' \in 0 .. MaxAccepts /\ accept' \in 0 .. 1
    BY <1>4 DEF PoolTypeOK, Accept
  <2>1. CASE accept = 0
    <3>1. Order[accept + 1] = "add"
      BY <2>1 DEF Order
    <3>2. accepted' \in Conn
      BY <1>4, <2>1 DEF PoolTypeOK, Accept, Conn
    <3>3. AddConnection /\ UNCHANGED <<starting, handed, empty>>
      BY <1>4, <3>1 DEF Accept
    <3>4. connections' \in Seq(Conn)
      BY <3>2, <3>3 DEF PoolTypeOK, AddConnection
    <3> QED BY <2>0, <3>3, <3>4 DEF PoolTypeOK, AddConnection, starting
  <2>2. CASE accept = 1
    <3>1. Order[accept + 1] = "post"
      BY <2>2 DEF Order
    <3>2. ((mbox_index + 1) % Len(msgboxs)) + 1 \in Thread
      BY <2>2, PlacePosted DEF BoxInv
    <3>3. Post /\ UNCHANGED <<starting, handed, empty>>
      BY <1>4, <3>1 DEF Accept
    <3>4. mbox_index' = mbox_index + 1 /\ mailbox' \in [Thread -> Nat] /\ UNCHANGED connections
      BY <3>2, <3>3 DEF Post, PoolTypeOK
    <3> QED BY <2>0, <3>3, <3>4 DEF PoolTypeOK, starting
  <2> QED BY <2>1, <2>2 DEF PoolTypeOK
<1>5. CASE StopPool
  BY <1>5 DEF PoolTypeOK, StopPool, handing
<1>6. ASSUME NEW t \in Thread, AddBox(t)
      PROVE  PoolTypeOK'
  BY <1>6 DEF PoolTypeOK, AddBox, handing
<1>7. ASSUME NEW t \in Thread, Register(t)
      PROVE  PoolTypeOK'
  <2>0. starter.i \in 0 .. PoolSize + 1
    BY DEF PoolTypeOK
  <2>1. index' \in [Thread -> 0 .. PoolSize + 1]
    BY <1>7, <2>0 DEF PoolTypeOK, Register
  <2> QED BY <1>7, <2>1 DEF PoolTypeOK, Register, handing
<1>8. ASSUME NEW t \in Thread, Inited(t)
      PROVE  PoolTypeOK'
  BY <1>8 DEF PoolTypeOK, Inited, handing
<1>9. ASSUME NEW t \in Thread, Ended(t)
      PROVE  PoolTypeOK'
  BY <1>9 DEF PoolTypeOK, Ended, handing
<1>10. ASSUME NEW t \in Thread, Hand(t)
       PROVE  PoolTypeOK'
  <2>1. mailbox' \in [Thread -> Nat]
    BY <1>10 DEF PoolTypeOK, Hand
  <2>2. empty' \in BOOLEAN /\ connections' \in Seq(Conn) /\ handed' \in Seq([conn : Conn, by : Thread])
    <3>1. CASE connections = <<>>
      BY <1>10, <3>1 DEF PoolTypeOK, Hand
    <3>2. CASE connections # <<>>
      <4>1. connections[Len(connections)] \in Conn
        BY <3>2 DEF PoolTypeOK
      <4>2. [conn |-> connections[Len(connections)], by |-> t] \in [conn : Conn, by : Thread]
        BY <4>1
      <4>3. SubSeq(connections, 1, Len(connections) - 1) \in Seq(Conn)
        BY <3>2 DEF PoolTypeOK
      <4>4. handed' = Append(handed, [conn |-> connections[Len(connections)], by |-> t])
            /\ connections' = SubSeq(connections, 1, Len(connections) - 1) /\ UNCHANGED empty
        BY <1>10, <3>2 DEF Hand
      <4>5. handed' \in Seq([conn : Conn, by : Thread])
        BY <4>2, <4>4, AppendProperties DEF PoolTypeOK
      <4> QED BY <4>3, <4>4, <4>5 DEF PoolTypeOK
    <3> QED BY <3>1, <3>2
  <2> QED BY <1>10, <2>1, <2>2 DEF PoolTypeOK, Hand, starting
<1>11. CASE UNCHANGED poolVars
  BY <1>11 DEF PoolTypeOK, poolVars
<1> QED BY <1>1, <1>2, <1>3, <1>4, <1>5, <1>6, <1>7, <1>8, <1>9, <1>10, <1>11 DEF PoolNext

LEMMA StarterStep ==
  PoolTypeOK /\ StarterInv /\ [PoolNext]_poolVars => StarterInv'
<1> SUFFICES ASSUME PoolTypeOK, StarterInv, [PoolNext]_poolVars PROVE StarterInv'
  OBVIOUS
<1> USE PoolAssumption
<1>1. CASE Spawn
  BY <1>1 DEF Spawn, PoolTypeOK, StarterInv, Thread
<1>2. CASE Waits \/ StopPool
  BY <1>2 DEF Waits, StopPool, PoolTypeOK, StarterInv, Thread
<1>3. CASE Woken
  <2> DEFINE i == starter.i
  <2>1. i \in Nat /\ i <= PoolSize /\ PoolSize \in Nat
    BY <1>3 DEF Woken, PoolTypeOK, StarterInv
  <2>2. starter'.i = i + 1 /\ worker' = worker
    BY <1>3 DEF Woken
  <2>3. starter'.at = IF i = PoolSize THEN "running" ELSE "spawn"
    BY <1>3 DEF Woken
  <2>4. \A t \in Thread : t > i => worker[t] = "none"
    BY DEF StarterInv
  <2> HIDE DEF i
  <2>5. starter'.at \in {"spawn", "wait", "woken"} => starter'.i <= PoolSize
    BY <2>1, <2>2, <2>3
  <2>6. ASSUME NEW t \in Thread, t > i + 1 \/ t = i + 1
        PROVE  worker'[t] = "none"
    BY <2>1, <2>2, <2>4, <2>6 DEF Thread
  <2> QED BY <2>2, <2>5, <2>6 DEF StarterInv
<1>4. ASSUME NEW u \in Thread, AddBox(u) \/ Register(u) \/ Inited(u) \/ Ended(u)
      PROVE  StarterInv'
  BY <1>4 DEF AddBox, Register, Inited, Ended, PoolTypeOK, StarterInv
<1>5. CASE Accept \/ \E t \in Thread : Hand(t)
  BY <1>5 DEF Accept, Hand, starting, PoolTypeOK, StarterInv
<1>6. CASE UNCHANGED poolVars
  BY <1>6 DEF poolVars, PoolTypeOK, StarterInv
<1> QED BY <1>1, <1>2, <1>3, <1>4, <1>5, <1>6 DEF PoolNext

-----------------------------------------------------------------------------
(* The pool: boxes and handles.                                            *)

LEMMA BoxStep ==
  PoolTypeOK /\ StarterInv /\ BoxInv /\ [PoolNext]_poolVars => BoxInv'
<1> SUFFICES ASSUME PoolTypeOK, StarterInv, BoxInv, [PoolNext]_poolVars PROVE BoxInv'
  OBVIOUS
<1> USE PoolAssumption
<1>0. IsFiniteSet(Boxed) /\ Cardinality(Boxed) \in Nat
  BY BoxedFinite, FS_CardinalityType
<1>1. CASE Spawn
  <2>1. worker[starter.i] = "none" /\ starter.i \in Thread
    BY <1>1 DEF Spawn, PoolTypeOK, StarterInv, Thread
  <2>2. Boxed' = Boxed
    BY <1>1, <2>1 DEF PoolTypeOK, Spawn, Boxed
  <2> QED BY <1>1, <2>2 DEF BoxInv, Spawn, handing
<1>2. CASE Waits \/ Woken \/ StopPool
  BY <1>2 DEF BoxInv, Boxed, Waits, Woken, StopPool, handing
<1>3. CASE Accept
  <2>1. Boxed' = Boxed /\ UNCHANGED msgboxs
    BY <1>3 DEF Boxed, Accept, starting
  <2>2. accept' = 1 => msgboxs # <<>>
    BY <1>3 DEF BoxInv, PoolTypeOK, Accept
  <2> QED BY <2>1, <2>2 DEF BoxInv
<1>4. ASSUME NEW t \in Thread, AddBox(t)
      PROVE  BoxInv'
  <2>1. Boxed' = Boxed \cup {t} /\ t \notin Boxed
    BY <1>4 DEF PoolTypeOK, AddBox, Boxed
  <2>2. Cardinality(Boxed') = Cardinality(Boxed) + 1
    BY <1>0, <2>1, FS_AddElement
  <2>3. msgboxs' = Append(msgboxs, t)
    BY <1>4 DEF AddBox
  <2>4. msgboxs \in Seq(Thread)
    BY DEF PoolTypeOK
  <2>5. Len(msgboxs') = Len(msgboxs) + 1 /\ msgboxs' # <<>>
    BY <2>3, <2>4, AppendProperties
  <2> QED BY <2>2, <2>5 DEF BoxInv
<1>5. ASSUME NEW t \in Thread, Register(t) \/ Inited(t) \/ Ended(t)
      PROVE  BoxInv'
  <2>1. Boxed' = Boxed
    BY <1>5 DEF PoolTypeOK, Register, Inited, Ended, Boxed
  <2> QED BY <1>5, <2>1 DEF BoxInv, Register, Inited, Ended, handing
<1>6. ASSUME NEW t \in Thread, Hand(t)
      PROVE  BoxInv'
  BY <1>6 DEF Boxed, BoxInv, Hand, starting
<1>7. CASE UNCHANGED poolVars
  BY <1>7 DEF poolVars, BoxInv, Boxed
<1> QED BY <1>1, <1>2, <1>3, <1>4, <1>5, <1>6, <1>7 DEF PoolNext

\* A handle that runs finds a connection.
LEMMA HandFinds ==
  ASSUME PoolTypeOK, HandleInv, NEW t \in Thread, Hand(t)
  PROVE  /\ connections # <<>> /\ Len(connections) > 0
         /\ IsFiniteSet(Handles') /\ Cardinality(Handles') = Cardinality(Handles) - 1
<1> DEFINE p == index[t]  h == <<p, mailbox[p]>>
<1>1. p \in Thread /\ mailbox[p] \in Nat /\ mailbox[p] > 0
  BY DEF Hand, PoolTypeOK
<1>2. mailbox' = [mailbox EXCEPT ![p] = mailbox[p] - 1]
  BY DEF Hand
<1>3. h \in Handles
  BY <1>1 DEF Handles
<1>4. Handles' = Handles \ {h}
  <2>1. ASSUME NEW k \in Thread, NEW n \in Nat
        PROVE  n \in 1 .. mailbox'[k] <=> n \in 1 .. mailbox[k] /\ ~(k = p /\ n = mailbox[p])
    BY <1>1, <1>2 DEF PoolTypeOK
  <2> QED BY <2>1, <1>1 DEF Handles
<1>5. /\ IsFiniteSet(Handles') /\ Cardinality(Handles') = Cardinality(Handles) - 1
      /\ Cardinality(Handles) \in Nat /\ Cardinality(Handles') \in Nat
  BY <1>3, <1>4, FS_RemoveElement, FS_CardinalityType DEF HandleInv
<1>6. Len(connections) > 0
  BY <1>5 DEF HandleInv, PoolTypeOK
<1> QED BY <1>5, <1>6, SeqLen DEF PoolTypeOK

\* What is left of the list when the handle has taken the last connection.
LEMMA HandTakes ==
  ASSUME PoolTypeOK, HandleInv, NEW t \in Thread, Hand(t)
  PROVE  LET n == Len(connections)
         IN  /\ n \in Nat /\ n > 0
             /\ handed' = Append(handed, [conn |-> connections[n], by |-> t])
             /\ connections' = SubSeq(connections, 1, n - 1)
             /\ Len(connections') = n - 1
             /\ \A i \in 1 .. n - 1 : connections'[i] = connections[i]
             /\ UNCHANGED <<empty, accepted, accept>>
<1>1. connections # <<>> /\ Len(connections) > 0
  BY HandFinds
<1>2. /\ handed' = Append(handed, [conn |-> connections[Len(connections)], by |-> t])
      /\ connections' = SubSeq(connections, 1, Len(connections) - 1)
      /\ UNCHANGED <<empty, accepted, accept>>
  BY <1>1 DEF Hand
<1>3. connections \in Seq(Conn) /\ Len(connections) \in Nat
  BY DEF PoolTypeOK
<1>4. /\ Len(connections') = Len(connections) - 1
      /\ \A i \in 1 .. Len(connections) - 1 : connections'[i] = connections[i]
  <2> DEFINE n == Len(connections) - 1
  <2>1. n \in Nat /\ \A i \in 1 .. n : connections[i] \in Conn
    BY <1>1, <1>3
  <2>2. connections' = SubSeq(connections, 1, n)
    BY <1>2
  <2> HIDE DEF n
  <2>3. Len(connections') = n /\ \A i \in 1 .. n : connections'[i] = connections[i]
    BY <2>1, <2>2, SubSeqProperties
  <2> QED BY <2>3 DEF n
<1> QED BY <1>1, <1>2, <1>3, <1>4

\* accept_callback: the connection first, then its handle.
LEMMA AcceptAdds ==
  ASSUME Accept, accept = 0
  PROVE  /\ accepted' = accepted + 1 /\ accept' = 1
         /\ connections' = Append(connections, accepted')
         /\ UNCHANGED <<mailbox, mbox_index, starting, handed, empty>>
<1>1. Order[accept + 1] = "add"
  BY DEF Order
<1> QED BY <1>1 DEF Accept, AddConnection

LEMMA AcceptPosts ==
  ASSUME Accept, accept = 1
  PROVE  /\ accept' = 0 /\ Post
         /\ UNCHANGED <<accepted, starting, handed, empty>>
<1>1. Order[accept + 1] = "post"
  BY DEF Order
<1> QED BY <1>1 DEF Accept

LEMMA HandleStep ==
  PoolTypeOK /\ BoxInv /\ HandleInv /\ [PoolNext]_poolVars => HandleInv'
<1> SUFFICES ASSUME PoolTypeOK, BoxInv, HandleInv, [PoolNext]_poolVars PROVE HandleInv'
  OBVIOUS
<1>0. IsFiniteSet(Handles) /\ Cardinality(Handles) \in Nat /\ Len(connections) \in Nat
  BY FS_CardinalityType DEF HandleInv, PoolTypeOK
<1>1. CASE Spawn \/ Waits \/ Woken \/ StopPool
  BY <1>1 DEF HandleInv, Handles, Spawn, Waits, Woken, StopPool, handing
<1>2. CASE Accept /\ accept = 0
  <2>1. accept' = 1 /\ UNCHANGED mailbox /\ connections' = Append(connections, accepted') /\ accepted' = accepted + 1
    BY <1>2, AcceptAdds
  <2>2. Handles' = Handles
    BY <2>1 DEF Handles
  <2>3. Len(connections') = Len(connections) + 1
    BY <2>1 DEF PoolTypeOK
  <2> QED BY <1>0, <1>2, <2>1, <2>2, <2>3 DEF HandleInv
<1>3. CASE Accept /\ accept = 1
  <2> DEFINE p == ((mbox_index + 1) % Len(msgboxs)) + 1  h == <<p, mailbox[p] + 1>>
  <2>1. p \in Thread
    BY <1>3, PlacePosted DEF BoxInv
  <2>2. /\ accept' = 0 /\ UNCHANGED connections
        /\ mailbox' = [mailbox EXCEPT ![p] = mailbox[p] + 1]
    BY <1>3, AcceptPosts DEF Post
  <2>3. mailbox[p] \in Nat
    BY <2>1 DEF PoolTypeOK
  <2> HIDE DEF p
  <2>4. h \notin Handles
    BY <2>1, <2>3 DEF Handles
  <2>5. Handles' = Handles \cup {h}
    <3>1. ASSUME NEW k \in Thread, NEW n \in Nat
          PROVE  n \in 1 .. mailbox'[k] <=> n \in 1 .. mailbox[k] \/ (k = p /\ n = mailbox[p] + 1)
      BY <2>1, <2>2, <2>3 DEF PoolTypeOK
    <3> QED BY <3>1, <2>1, <2>3 DEF Handles
  <2>6. IsFiniteSet(Handles') /\ Cardinality(Handles') = Cardinality(Handles) + 1
    BY <1>0, <2>4, <2>5, FS_AddElement
  <2> QED BY <1>0, <1>3, <2>2, <2>6 DEF HandleInv
<1>4. ASSUME NEW t \in Thread, AddBox(t) \/ Register(t) \/ Inited(t) \/ Ended(t)
      PROVE  HandleInv'
  BY <1>4 DEF HandleInv, Handles, AddBox, Register, Inited, Ended, handing
<1>5. ASSUME NEW t \in Thread, Hand(t)
      PROVE  HandleInv'
  <2>1. IsFiniteSet(Handles') /\ Cardinality(Handles') = Cardinality(Handles) - 1
    BY <1>5, HandFinds
  <2>2. Len(connections') = Len(connections) - 1 /\ UNCHANGED accept
    BY <1>5, HandTakes
  <2>3. Len(connections) = Cardinality(Handles) + accept /\ accept \in 0 .. 1
    BY DEF HandleInv, PoolTypeOK
  <2> QED BY <1>0, <2>1, <2>2, <2>3 DEF HandleInv
<1>6. CASE UNCHANGED poolVars
  BY <1>6 DEF poolVars, HandleInv, Handles
<1>7. accept = 0 \/ accept = 1
  BY DEF PoolTypeOK
<1> QED BY <1>1, <1>2, <1>3, <1>4, <1>5, <1>6, <1>7 DEF PoolNext

-----------------------------------------------------------------------------
(* The pool: connections.                                                  *)

\* The list and what was handed out after a connection was added ...
LEMMA Added ==
  ASSUME PoolTypeOK, Accept, accept = 0
  PROVE  LET n == Len(connections)
         IN  /\ n \in Nat /\ Len(connections') = n + 1
             /\ \A i \in 1 .. n : connections'[i] = connections[i]
             /\ connections'[n + 1] = accepted + 1
             /\ accepted \in Nat /\ accepted' = accepted + 1 /\ UNCHANGED <<handed, empty>>
<1>1. connections' = Append(connections, accepted') /\ accepted' = accepted + 1 /\ UNCHANGED <<handed, empty>>
  BY AcceptAdds
<1>2. accepted' \in Conn /\ accepted \in Nat
  BY <1>1, PoolAssumption DEF Accept, PoolTypeOK, Conn
<1>3. connections \in Seq(Conn) /\ Len(connections) \in Nat
  BY DEF PoolTypeOK
<1> QED BY <1>1, <1>2, <1>3, AppendProperties

\* ... and after one was handed out.
LEMMA HandedOver ==
  ASSUME PoolTypeOK, HandleInv, NEW t \in Thread, Hand(t)
  PROVE  LET n == Len(connections)
             m == Len(handed)
         IN  /\ m \in Nat /\ Len(handed') = m + 1
             /\ \A i \in 1 .. m : handed'[i] = handed[i]
             /\ handed'[m + 1].conn = connections[n]
<1> DEFINE last == [conn |-> connections[Len(connections)], by |-> t]
<1>1. handed' = Append(handed, last) /\ Len(connections) \in Nat /\ Len(connections) > 0
  BY HandTakes
<1>2. connections[Len(connections)] \in Conn
  BY <1>1 DEF PoolTypeOK
<1>3. last \in [conn : Conn, by : Thread] /\ last.conn = connections[Len(connections)]
  BY <1>2
<1>4. handed \in Seq([conn : Conn, by : Thread]) /\ Len(handed) \in Nat
  BY DEF PoolTypeOK
<1> HIDE DEF last
<1> QED BY <1>1, <1>3, <1>4, AppendProperties

LEMMA ConnStep ==
  PoolTypeOK /\ HandleInv /\ ConnInv /\ HandedOnce /\ [PoolNext]_poolVars
    => ConnInv' /\ HandedOnce'
<1> SUFFICES ASSUME PoolTypeOK, HandleInv, ConnInv, HandedOnce, [PoolNext]_poolVars
             PROVE  ConnInv' /\ HandedOnce'
  OBVIOUS
<1> DEFINE n == Len(connections)  m == Len(handed)
<1>0. /\ n \in Nat /\ m \in Nat /\ accepted \in Nat
      /\ \A i \in 1 .. n : connections[i] \in Nat
      /\ \A i \in 1 .. m : handed[i].conn \in Nat
  <2>1. n \in Nat /\ m \in Nat /\ accepted \in Nat
    BY DEF PoolTypeOK
  <2>2. \A i \in 1 .. n : connections[i] \in Conn
    BY DEF PoolTypeOK
  <2>3. \A i \in 1 .. m : handed[i].conn \in Conn
    <3>1. handed \in Seq([conn : Conn, by : Thread])
      BY DEF PoolTypeOK
    <3>2. \A i \in 1 .. m : handed[i] \in [conn : Conn, by : Thread]
      BY <3>1, SeqElement
    <3> QED BY <3>2
  <2> QED BY <2>1, <2>2, <2>3 DEF Conn
<1>1. CASE Accept /\ accept = 0
  <2>1. /\ Len(connections') = n + 1
        /\ \A i \in 1 .. n : connections'[i] = connections[i]
        /\ connections'[n + 1] = accepted + 1
        /\ accepted' = accepted + 1 /\ UNCHANGED <<handed, empty>>
    BY <1>1, Added
  <2>2. ConnInv'
    <3> HIDE DEF n, m
    <3>1. /\ \A i \in 1 .. n : connections[i] <= accepted
          /\ \A i \in 1 .. m : handed[i].conn <= accepted
          /\ \A i, j \in 1 .. n : connections[i] = connections[j] => i = j
          /\ \A i \in 1 .. m, j \in 1 .. n : handed[i].conn # connections[j]
      BY DEF ConnInv, n, m
    <3>2. \A j \in 1 .. Len(connections') : connections'[j] <= accepted'
      BY <1>0, <2>1, <3>1
    <3>3. \A j \in 1 .. Len(handed') : handed'[j].conn <= accepted'
      BY <1>0, <2>1, <3>1 DEF m
    <3>4. \A i, j \in 1 .. Len(connections') : connections'[i] = connections'[j] => i = j
      BY <1>0, <2>1, <3>1
    <3>5. \A i \in 1 .. Len(handed'), j \in 1 .. Len(connections') :
            handed'[i].conn # connections'[j]
      BY <1>0, <2>1, <3>1 DEF m
    <3> QED BY <3>2, <3>3, <3>4, <3>5 DEF ConnInv
  <2>3. HandedOnce'
    <3>1. ASSUME NEW c \in 1 .. accepted'
          PROVE  \/ \E i \in 1 .. Len(handed') : handed'[i].conn = c
                 \/ \E i \in 1 .. Len(connections') : connections'[i] = c
      <4>1. CASE c = accepted + 1
        BY <4>1, <2>1, <1>0
      <4>2. CASE c \in 1 .. accepted
        <5>1. \/ \E i \in 1 .. Len(handed) : handed[i].conn = c
              \/ \E i \in 1 .. Len(connections) : connections[i] = c
          BY <4>2 DEF HandedOnce
        <5> QED BY <5>1, <2>1, <1>0
      <4> QED BY <4>1, <4>2, <2>1, <1>0
    <3> QED BY <3>1, <2>1 DEF HandedOnce
  <2> QED BY <2>2, <2>3
<1>2. ASSUME NEW t \in Thread, Hand(t)
      PROVE  ConnInv' /\ HandedOnce'
  <2>1. /\ n > 0 /\ Len(connections') = n - 1
        /\ \A i \in 1 .. n - 1 : connections'[i] = connections[i]
        /\ UNCHANGED <<empty, accepted>>
    BY <1>2, HandTakes
  <2>2. /\ Len(handed') = m + 1
        /\ \A i \in 1 .. m : handed'[i] = handed[i]
        /\ handed'[m + 1].conn = connections[n]
    BY <1>2, HandedOver
  <2> HIDE DEF n, m
  <2>3. ConnInv'
    <3>1. /\ \A i \in 1 .. n : connections[i] <= accepted
          /\ \A i \in 1 .. m : handed[i].conn <= accepted
          /\ \A i, j \in 1 .. n : connections[i] = connections[j] => i = j
          /\ \A i \in 1 .. m, j \in 1 .. n : handed[i].conn # connections[j]
      BY DEF ConnInv, n, m
    <3>2. \A j \in 1 .. Len(connections') : connections'[j] <= accepted'
      BY <1>0, <2>1, <3>1
    <3>3. \A j \in 1 .. Len(handed') : handed'[j].conn <= accepted'
      BY <1>0, <2>1, <2>2, <3>1
    <3>4. \A i, j \in 1 .. Len(connections') : connections'[i] = connections'[j] => i = j
      BY <1>0, <2>1, <3>1
    <3>5. \A i \in 1 .. Len(handed'), j \in 1 .. Len(connections') :
            handed'[i].conn # connections'[j]
      BY <1>0, <2>1, <2>2, <3>1
    <3> QED BY <3>2, <3>3, <3>4, <3>5 DEF ConnInv
  <2>4. HandedOnce'
    <3>1. /\ \A i \in 1 .. m, j \in 1 .. n : handed[i].conn # connections[j]
          /\ \A i, j \in 1 .. m : handed[i].conn = handed[j].conn => i = j
      BY DEF ConnInv, HandedOnce, n, m
    <3>2. \A i, j \in 1 .. Len(handed') : handed'[i].conn = handed'[j].conn => i = j
      BY <1>0, <2>1, <2>2, <3>1
    <3>3. ASSUME NEW c \in 1 .. accepted'
          PROVE  \/ \E i \in 1 .. Len(handed') : handed'[i].conn = c
                 \/ \E i \in 1 .. Len(connections') : connections'[i] = c
      <4>1. CASE \E i \in 1 .. m : handed[i].conn = c
        BY <4>1, <2>2, <1>0
      <4>2. CASE \E i \in 1 .. n : connections[i] = c
        <5>1. PICK i \in 1 .. n : connections[i] = c
          BY <4>2
        <5>2. CASE i = n
          BY <5>1, <5>2, <2>2, <1>0
        <5>3. CASE i # n
          BY <5>1, <5>3, <2>1, <1>0
        <5> QED BY <5>2, <5>3
      <4> QED BY <4>1, <4>2, <2>1 DEF HandedOnce, n, m
    <3>4. ~empty'
      BY <2>1 DEF HandedOnce
    <3> QED BY <3>2, <3>3, <3>4 DEF HandedOnce
  <2> QED BY <2>3, <2>4
<1>3. CASE UNCHANGED <<connections, handed, accepted, empty>>
  BY <1>3 DEF ConnInv, HandedOnce
<1>4. CASE Accept /\ accept = 1
  BY <1>4, <1>3, AcceptPosts DEF Post
<1>5. CASE Spawn \/ Waits \/ Woken \/ StopPool
  BY <1>5, <1>3 DEF Spawn, Waits, Woken, StopPool, handing
<1>6. ASSUME NEW t \in Thread, AddBox(t) \/ Register(t) \/ Inited(t) \/ Ended(t)
      PROVE  ConnInv' /\ HandedOnce'
  BY <1>6, <1>3 DEF AddBox, Register, Inited, Ended, handing
<1>7. CASE UNCHANGED poolVars
  BY <1>7, <1>3 DEF poolVars
<1>8. accept = 0 \/ accept = 1
  BY DEF PoolTypeOK
<1> QED BY <1>1, <1>2, <1>4, <1>5, <1>6, <1>7, <1>8 DEF PoolNext

-----------------------------------------------------------------------------
(* The pool: one thread after the other.                                   *)

LEMMA TurnStep ==
  PoolTypeOK /\ StarterInv /\ BoxInv /\ TurnInv /\ [PoolNext]_poolVars => TurnInv'
<1> SUFFICES ASSUME PoolTypeOK, StarterInv, BoxInv, TurnInv, [PoolNext]_poolVars, spurious' = 0
             PROVE  TurnInv'
  BY DEF TurnInv
<1> USE PoolAssumption
<1> DEFINE i == starter.i  n == Len(msgboxs)
<1>0. /\ i \in Nat /\ n \in Nat /\ PoolSize \in Nat /\ \A t \in Thread : t \in Nat /\ t >= 1 /\ t <= PoolSize
      /\ i >= 1 /\ i <= PoolSize + 1
  BY DEF PoolTypeOK, Thread
<1>1. spurious = 0
  <2>1. CASE Spawn \/ Waits \/ StopPool
    BY <2>1 DEF Spawn, Waits, StopPool
  <2>2. CASE Woken
    BY <2>2 DEF Woken, PoolTypeOK
  <2>3. CASE Accept \/ \E t \in Thread : AddBox(t) \/ Register(t) \/ Inited(t) \/ Ended(t) \/ Hand(t)
    BY <2>3 DEF Accept, AddBox, Register, Inited, Ended, Hand, starting
  <2>4. CASE UNCHANGED poolVars
    BY <2>4 DEF poolVars
  <2> QED BY <2>1, <2>2, <2>3, <2>4 DEF PoolNext
<1>2. /\ starter.at \in {"spawn", "wait"} => ~notified_
      /\ starter.at \in {"running", "stopped"} => i = PoolSize + 1
      /\ \A t \in Thread : Stage(starter.at, i, t)
      /\ \A k \in 1 .. n : msgboxs[k] = k
      /\ n = IF i \in Thread /\ worker[i] \notin {"none", "new"} THEN i ELSE i - 1
  BY <1>1 DEF TurnInv
<1>3. \A t \in Thread : t > i \/ (t = i /\ starter.at = "spawn") => worker[t] = "none"
  BY DEF StarterInv
<1>4. CASE Spawn
  <2>1. /\ starter.at = "spawn" /\ i \in Thread /\ starter'.at = "wait" /\ starter'.i = i
        /\ worker' = [worker EXCEPT ![i] = "new"]
        /\ UNCHANGED <<index, msgboxs, notified_>>
    BY <1>4, <1>0 DEF Spawn, Thread, PoolTypeOK
  <2>2. worker[i] = "none" /\ worker'[i] = "new" /\ \A t \in Thread : t # i => worker'[t] = worker[t]
    BY <2>1, <1>3 DEF PoolTypeOK
  <2> HIDE DEF i
  <2>3. \A t \in Thread : Stage(starter.at, starter.i, t)'
    BY <2>1, <2>2, <1>2, <1>0 DEF Stage
  <2> QED BY <2>1, <2>2, <2>3, <1>2 DEF TurnInv, i
<1>5. CASE Waits
  <2>1. /\ starter.at = "wait" /\ starter'.at = "woken" /\ starter'.i = i
        /\ UNCHANGED <<worker, index, msgboxs, notified_>>
    BY <1>5 DEF Waits, PoolTypeOK
  <2> HIDE DEF i
  <2>2. \A t \in Thread : Stage(starter.at, starter.i, t)'
    BY <2>1, <1>2, <1>0 DEF Stage
  <2> QED BY <2>1, <2>2, <1>2 DEF TurnInv, i
<1>6. CASE Woken
  <2>1. /\ notified_ /\ ~notified_' /\ starter.at = "woken" /\ i \in Thread
        /\ starter' = [at |-> IF i = PoolSize THEN "running" ELSE "spawn", i |-> i + 1]
        /\ UNCHANGED <<worker, index, msgboxs>>
    BY <1>1, <1>6, <1>0 DEF Woken, GoesOn, StarterInv, Thread, PoolTypeOK
  <2>2. worker[i] \in {"ready", "ended"} /\ index[i] = i /\ n = i
    BY <2>1, <1>2 DEF Stage
  <2>3. starter'.at = (IF i = PoolSize THEN "running" ELSE "spawn") /\ starter'.i = i + 1
    BY <2>1
  <2> HIDE DEF i
  <2>4. \A t \in Thread : Stage(starter.at, starter.i, t)'
    BY <2>1, <2>2, <2>3, <1>2, <1>0 DEF Stage
  <2>5. i + 1 \in Thread => worker[i + 1] = "none"
    BY <1>0, <1>3
  <2>6. Len(msgboxs') = IF starter'.i \in Thread /\ worker'[starter'.i] \notin {"none", "new"}
                        THEN starter'.i ELSE starter'.i - 1
    <3>1. Len(msgboxs') = i /\ worker' = worker
      BY <2>1, <2>2
    <3> QED BY <3>1, <2>3, <2>5, <1>0
  <2>7. starter'.at \in {"running", "stopped"} => starter'.i = PoolSize + 1
    BY <2>3
  <2>8. \A k \in 1 .. Len(msgboxs') : msgboxs'[k] = k
    BY <2>1, <1>2
  <2> QED BY <2>1, <2>4, <2>6, <2>7, <2>8 DEF TurnInv
<1>7. ASSUME NEW u \in Thread, AddBox(u)
      PROVE  TurnInv'
  <2>1. /\ worker[u] = "new" /\ worker' = [worker EXCEPT ![u] = "boxed"]
        /\ msgboxs' = Append(msgboxs, u) /\ UNCHANGED <<starter, index, notified_>>
    BY <1>7 DEF AddBox
  <2> HIDE DEF i
  <2>2. u = i /\ starter.at # "spawn" /\ ~notified_ /\ n = i - 1
    BY <2>1, <1>2, <1>3, <1>0 DEF Stage
  <2>3. worker'[u] = "boxed" /\ \A t \in Thread : t # u => worker'[t] = worker[t]
    BY <2>1 DEF PoolTypeOK
  <2>4. msgboxs \in Seq(Thread)
    BY DEF PoolTypeOK
  <2>5. /\ Len(msgboxs') = n + 1 /\ msgboxs'[n + 1] = u
        /\ \A k \in 1 .. n : msgboxs'[k] = msgboxs[k]
    BY <2>1, <2>4, AppendProperties
  <2>6. \A t \in Thread : Stage(starter.at, starter.i, t)'
    BY <2>1, <2>2, <2>3, <1>2, <1>0 DEF Stage, i
  <2>7. \A k \in 1 .. Len(msgboxs') : msgboxs'[k] = k
    <3>1. n \in Nat /\ n + 1 = u /\ \A k \in 1 .. n : msgboxs[k] = k
      BY <2>2, <1>2, <1>0
    <3> HIDE DEF n
    <3> QED BY <3>1, <2>5
  <2>8. Len(msgboxs') = i /\ i \in Thread /\ worker'[i] = "boxed" /\ starter'.i = i
    BY <2>1, <2>2, <2>3, <2>5, <1>0 DEF i
  <2> QED BY <2>1, <2>2, <2>6, <2>7, <2>8, <1>2 DEF TurnInv, i
<1>8. ASSUME NEW u \in Thread, Register(u)
      PROVE  TurnInv'
  <2>1. /\ worker[u] = "boxed" /\ worker' = [worker EXCEPT ![u] = "run"]
        /\ index' = [index EXCEPT ![msgboxs[n]] = i] /\ UNCHANGED <<starter, msgboxs, notified_>>
    BY <1>8 DEF Register
  <2> HIDE DEF i, n
  <2>2. u = i /\ starter.at # "spawn" /\ ~notified_ /\ n = i
    BY <2>1, <1>2, <1>3, <1>0 DEF Stage
  <2>3. msgboxs[n] = i
    BY <2>2, <1>2, <1>0
  <2>4. worker'[u] = "run" /\ \A t \in Thread : t # u => worker'[t] = worker[t]
    BY <2>1 DEF PoolTypeOK
  <2>5. index'[u] = u /\ \A t \in Thread : t # u => index'[t] = index[t]
    BY <2>1, <2>2, <2>3 DEF PoolTypeOK
  <2>6. \A t \in Thread : Stage(starter.at, starter.i, t)'
    BY <2>1, <2>2, <2>4, <2>5, <1>2, <1>0 DEF Stage, i
  <2>7. Len(msgboxs') = i /\ i \in Thread /\ worker'[i] = "run" /\ starter'.i = i
    BY <2>1, <2>2, <2>4 DEF i, n
  <2> QED BY <2>1, <2>2, <2>6, <2>7, <1>2 DEF TurnInv, i, n
<1>9. ASSUME NEW u \in Thread, Inited(u)
      PROVE  TurnInv'
  <2>1. /\ worker[u] = "run" /\ worker' = [worker EXCEPT ![u] = "ready"]
        /\ notified_' = (starter.at = "woken") /\ UNCHANGED <<starter, index, msgboxs>>
    BY <1>9 DEF Inited
  <2> HIDE DEF i, n
  <2>2. u = i /\ starter.at # "spawn" /\ n = i /\ index[u] = u
    BY <2>1, <1>2, <1>3, <1>0 DEF Stage
  <2>3. worker'[u] = "ready" /\ \A t \in Thread : t # u => worker'[t] = worker[t]
    BY <2>1 DEF PoolTypeOK
  <2>4. \A t \in Thread : Stage(starter.at, starter.i, t)'
    BY <2>1, <2>2, <2>3, <1>2, <1>0 DEF Stage, i
  <2>5. Len(msgboxs') = i /\ i \in Thread /\ worker'[i] = "ready" /\ starter'.i = i
    BY <2>1, <2>2, <2>3 DEF i, n
  <2> QED BY <2>1, <2>2, <2>4, <2>5, <1>2 DEF TurnInv, i, n
<1>10. ASSUME NEW u \in Thread, Ended(u)
       PROVE  TurnInv'
  <2>1. /\ starter.at = "stopped" /\ worker[u] = "ready" /\ worker' = [worker EXCEPT ![u] = "ended"]
        /\ UNCHANGED <<starter, index, msgboxs, notified_>>
    BY <1>10 DEF Ended
  <2> HIDE DEF i, n
  <2>2. i = PoolSize + 1 /\ i \notin Thread
    BY <2>1, <1>2, <1>0
  <2>3. worker'[u] = "ended" /\ \A t \in Thread : t # u => worker'[t] = worker[t]
    BY <2>1 DEF PoolTypeOK
  <2>4. \A t \in Thread : Stage(starter.at, starter.i, t)'
    BY <2>1, <2>2, <2>3, <1>2, <1>0 DEF Stage, i
  <2> QED BY <2>1, <2>2, <2>4, <1>2 DEF TurnInv, i, n
<1>11. CASE StopPool
  <2>1. /\ starter.at = "running" /\ starter'.at = "stopped" /\ starter'.i = i
        /\ UNCHANGED <<worker, index, msgboxs, notified_>>
    BY <1>11 DEF StopPool, PoolTypeOK
  <2> HIDE DEF i
  <2>2. \A t \in Thread : Stage(starter.at, starter.i, t)'
    BY <2>1, <1>2, <1>0 DEF Stage
  <2> QED BY <2>1, <2>2, <1>2 DEF TurnInv, i
<1>12. CASE UNCHANGED starting
  BY <1>12 DEF starting, TurnInv, Stage
<1>13. CASE Accept \/ (\E t \in Thread : Hand(t)) \/ UNCHANGED poolVars
  BY <1>12, <1>13 DEF Accept, Hand, poolVars, starting
<1> QED BY <1>4, <1>5, <1>6, <1>7, <1>8, <1>9, <1>10, <1>11, <1>13 DEF PoolNext

-----------------------------------------------------------------------------
(* The pool: the theorems.                                                 *)

LEMMA TurnsAreBoxes == PoolTypeOK /\ StarterInv /\ TurnInv => BoxOfThread
<1> SUFFICES ASSUME PoolTypeOK, StarterInv, TurnInv, spurious = 0, NEW t \in Thread,
                    worker[t] \in {"run", "ready", "ended"}
             PROVE  index[t] = t /\ Len(msgboxs) >= t /\ msgboxs[t] = t
  BY DEF BoxOfThread
<1> DEFINE i == starter.i  n == Len(msgboxs)
<1>1. /\ i \in Nat /\ n \in Nat /\ t \in Nat /\ t >= 1
  BY PoolAssumption DEF PoolTypeOK, Thread
<1>2. /\ Stage(starter.at, i, t)
      /\ \A k \in 1 .. n : msgboxs[k] = k
      /\ n = IF i \in Thread /\ worker[i] \notin {"none", "new"} THEN i ELSE i - 1
  BY DEF TurnInv
<1>3. ~(t > i \/ (t = i /\ starter.at = "spawn"))
  BY DEF StarterInv
<1> HIDE DEF i, n
<1>4. index[t] = t /\ n >= t
  BY <1>1, <1>2, <1>3 DEF Stage
<1> QED BY <1>1, <1>2, <1>4 DEF n

LEMMA PoolInvStep == PoolInv /\ [PoolNext]_poolVars => PoolInv'
BY TypeStep, StarterStep, BoxStep, HandleStep, ConnStep, TurnStep DEF PoolInv

LEMMA PoolInvAlways == PoolSpec => []PoolInv
<1>1. PoolInit => PoolInv
  BY PoolInvInit
<1>2. PoolInv /\ [PoolNext]_poolVars => PoolInv'
  BY PoolInvStep
<1> QED BY <1>1, <1>2, PTL DEF PoolSpec

\* start_proactors and accept_callback: every variable keeps its type, every
\* handle finds a connection and each connection is handed out once, whatever
\* the wake-ups; without one that came by itself every thread reads the box
\* at its own place.
THEOREM PoolIsSafe == PoolSpec => []PoolSafe
<1>1. PoolInv => PoolSafe
  BY TurnsAreBoxes DEF PoolInv, PoolSafe
<1> QED BY <1>1, PoolInvAlways, PTL

-----------------------------------------------------------------------------
(* The timers: what insert and erase do to the multimap.                   *)

Timer == [id : Ids, due : Nat, timeout : Delays]

\* In the order of due times, each timer once.
Ordered(s) ==
  /\ \A i, j \in 1 .. Len(s) : i <= j => s[i].due <= s[j].due
  /\ \A i, j \in 1 .. Len(s) : s[i].id = s[j].id => i = j

\* q has the timers of s and t.
With(q, s, t) ==
  /\ q \in Seq(Timer) /\ Ordered(q)
  /\ \A i \in 1 .. Len(q) : q[i] = t \/ \E j \in 1 .. Len(s) : q[i] = s[j]
  /\ \A j \in 1 .. Len(s) : \E i \in 1 .. Len(q) : q[i] = s[j]
  /\ \E i \in 1 .. Len(q) : q[i] = t

\* q has the timers of s but the k-th.
Without(q, s, k) ==
  /\ q \in Seq(Timer) /\ Ordered(q)
  /\ \A i \in 1 .. Len(q) : \E j \in 1 .. Len(s) : j # k /\ q[i] = s[j]
  /\ \A j \in 1 .. Len(s) : j # k => \E i \in 1 .. Len(q) : q[i] = s[j]

LEMMA InsertedAt ==
  ASSUME NEW S, NEW s \in Seq(S), NEW k \in 1 .. Len(s) + 1, NEW e \in S
  PROVE  /\ InsertAt(s, k, e) \in Seq(S) /\ Len(InsertAt(s, k, e)) = Len(s) + 1
         /\ \A i \in 1 .. Len(s) + 1 :
              InsertAt(s, k, e)[i] = IF i < k THEN s[i] ELSE IF i = k THEN e ELSE s[i - 1]
<1> DEFINE n == Len(s)  a == SubSeq(s, 1, k - 1)  b == SubSeq(s, k, n)
<1>1. n \in Nat /\ k \in Nat /\ k >= 1 /\ k <= n + 1 /\ \A i \in 1 .. n : s[i] \in S
  OBVIOUS
<1>2. a \in Seq(S) /\ Len(a) = k - 1 /\ \A i \in 1 .. k - 1 : a[i] = s[i]
  BY <1>1, SubSeqProperties
<1>3. b \in Seq(S) /\ Len(b) = n - k + 1 /\ \A i \in 1 .. n - k + 1 : b[i] = s[k + i - 1]
  BY <1>1, SubSeqProperties
<1>4. <<e>> \in Seq(S) /\ Len(<<e>>) = 1 /\ <<e>>[1] = e
  OBVIOUS
<1>5. InsertAt(s, k, e) = (a \o <<e>>) \o b
  BY DEF InsertAt
<1> HIDE DEF a, b, n
<1>6. /\ a \o <<e>> \in Seq(S) /\ Len(a \o <<e>>) = k
      /\ \A i \in 1 .. k : (a \o <<e>>)[i] = IF i < k THEN s[i] ELSE e
  BY <1>1, <1>2, <1>4, ConcatProperties
<1> DEFINE c == a \o <<e>>
<1> HIDE DEF c
<1>7. /\ c \o b \in Seq(S) /\ Len(c \o b) = n + 1
      /\ \A i \in 1 .. n + 1 : (c \o b)[i] = IF i <= k THEN c[i] ELSE b[i - k]
  <2>0. c \in Seq(S) /\ Len(c) = k
    BY <1>6 DEF c
  <2>1. c \in Seq(S) /\ Len(c) = k /\ Len(c) + Len(b) = n + 1
    BY <2>0, <1>1, <1>3
  <2>2. /\ c \o b \in Seq(S) /\ Len(c \o b) = Len(c) + Len(b)
        /\ \A i \in 1 .. Len(c) + Len(b) : (c \o b)[i] = IF i <= Len(c) THEN c[i] ELSE b[i - Len(c)]
    BY <2>1, <1>3, ConcatProperties
  <2> QED BY <2>1, <2>2
<1>8. ASSUME NEW i \in 1 .. n + 1
      PROVE  (c \o b)[i] = IF i < k THEN s[i] ELSE IF i = k THEN e ELSE s[i - 1]
  <2>1. CASE i <= k
    BY <2>1, <1>1, <1>6, <1>7 DEF c
  <2>2. CASE i > k
    <3> DEFINE x == i - k
    <3>1. x \in 1 .. n - k + 1 /\ k + x - 1 = i - 1
      BY <2>2, <1>1
    <3>2. (c \o b)[i] = b[x]
      BY <2>2, <1>1, <1>7
    <3> HIDE DEF x
    <3>3. b[x] = s[k + x - 1]
      BY <3>1, <1>3
    <3>4. s[k + x - 1] = s[i - 1]
      BY <3>1
    <3>5. (c \o b)[i] = s[i - 1]
      BY <3>2, <3>3, <3>4
    <3> QED BY <2>2, <3>5, <1>1
  <2>3. i <= k \/ i > k
    BY <1>1
  <2> QED BY <2>1, <2>2, <2>3
<1> QED BY <1>5, <1>7, <1>8 DEF c, n

LEMMA RemovedAt ==
  ASSUME NEW S, NEW s \in Seq(S), NEW k \in 1 .. Len(s)
  PROVE  /\ RemoveAt(s, k) \in Seq(S) /\ Len(RemoveAt(s, k)) = Len(s) - 1
         /\ \A i \in 1 .. Len(s) - 1 :
              RemoveAt(s, k)[i] = IF i < k THEN s[i] ELSE s[i + 1]
<1> DEFINE n == Len(s)  a == SubSeq(s, 1, k - 1)  b == SubSeq(s, k + 1, n)
<1>1. n \in Nat /\ k \in Nat /\ k >= 1 /\ k <= n /\ \A i \in 1 .. n : s[i] \in S
  OBVIOUS
<1>2. a \in Seq(S) /\ Len(a) = k - 1 /\ \A i \in 1 .. k - 1 : a[i] = s[i]
  BY <1>1, SubSeqProperties
<1>3. b \in Seq(S) /\ Len(b) = n - k /\ \A i \in 1 .. n - k : b[i] = s[k + i]
  <2>1. /\ SubSeq(s, k + 1, n) \in Seq(S)
        /\ Len(SubSeq(s, k + 1, n)) = IF k + 1 <= n THEN n - (k + 1) + 1 ELSE 0
        /\ \A i \in 1 .. n - (k + 1) + 1 : SubSeq(s, k + 1, n)[i] = s[(k + 1) + i - 1]
    BY <1>1, SubSeqProperties
  <2> HIDE DEF n
  <2>2. n - (k + 1) + 1 = n - k /\ \A i \in Nat : (k + 1) + i - 1 = k + i
    BY <1>1
  <2>3. (IF k + 1 <= n THEN n - (k + 1) + 1 ELSE 0) = n - k
    BY <1>1
  <2>4. ASSUME NEW i \in 1 .. n - k PROVE b[i] = s[k + i]
    <3>1. i \in Nat /\ i \in 1 .. n - (k + 1) + 1
      BY <2>2, <1>1
    <3>2. b[i] = s[(k + 1) + i - 1]
      BY <2>1, <3>1
    <3>3. s[(k + 1) + i - 1] = s[k + i]
      BY <2>2, <3>1
    <3> QED BY <3>2, <3>3
  <2>5. Len(b) = n - k
    BY <2>1, <2>3
  <2> QED BY <2>1, <2>5, <2>4
<1>4. RemoveAt(s, k) = a \o b
  BY DEF RemoveAt
<1> HIDE DEF a, b, n
<1>5. /\ a \o b \in Seq(S) /\ Len(a \o b) = n - 1
      /\ \A i \in 1 .. n - 1 : (a \o b)[i] = IF i <= k - 1 THEN a[i] ELSE b[i - (k - 1)]
  BY <1>1, <1>2, <1>3, ConcatProperties
<1>6. ASSUME NEW i \in 1 .. n - 1
      PROVE  (a \o b)[i] = IF i < k THEN s[i] ELSE s[i + 1]
  <2>1. CASE i < k
    BY <2>1, <1>1, <1>2, <1>5
  <2>2. CASE i >= k
    <3> DEFINE x == i - (k - 1)
    <3>1. x \in 1 .. n - k /\ k + x = i + 1
      BY <2>2, <1>1
    <3>2. (a \o b)[i] = b[x]
      BY <2>2, <1>1, <1>5
    <3> HIDE DEF x
    <3>3. b[x] = s[k + x]
      BY <3>1, <1>3
    <3>4. s[k + x] = s[i + 1]
      BY <3>1
    <3>5. (a \o b)[i] = s[i + 1]
      BY <3>2, <3>3, <3>4
    <3> QED BY <2>2, <3>5, <1>1
  <2>3. i < k \/ i >= k
    BY <1>1
  <2> QED BY <2>1, <2>2, <2>3
<1> QED BY <1>4, <1>5, <1>6 DEF n

LEMMA InsertKeeps ==
  ASSUME NEW s \in Seq(Timer), Ordered(s), NEW t \in Timer, NEW k \in 1 .. Len(s) + 1,
         \A i \in 1 .. k - 1 : s[i].due <= t.due,
         k <= Len(s) => s[k].due > t.due,
         \A i \in 1 .. Len(s) : s[i].id # t.id
  PROVE  With(InsertAt(s, k, t), s, t)
<1>0. ASSUME NEW S, s \in Seq(S), t \in S
      PROVE  /\ InsertAt(s, k, t) \in Seq(S) /\ Len(InsertAt(s, k, t)) = Len(s) + 1
             /\ \A i \in 1 .. Len(s) + 1 :
                  InsertAt(s, k, t)[i] = IF i < k THEN s[i] ELSE IF i = k THEN t ELSE s[i - 1]
  BY <1>0, InsertedAt
<1> DEFINE q == InsertAt(s, k, t)  n == Len(s)
<1>1. /\ q \in Seq(Timer) /\ Len(q) = n + 1
      /\ \A i \in 1 .. n + 1 : q[i] = IF i < k THEN s[i] ELSE IF i = k THEN t ELSE s[i - 1]
  BY <1>0, Zenon
<1>2. n \in Nat /\ k \in Nat /\ k >= 1 /\ k <= n + 1
  OBVIOUS
<1>3. /\ t.due \in Nat /\ \A i \in 1 .. n : s[i].due \in Nat
      /\ \A i \in 1 .. n + 1 : q[i].due \in Nat
  <2>1. /\ \A i \in 1 .. n : s[i] \in Timer
        /\ \A i \in 1 .. n + 1 : q[i] \in Timer
    BY <1>1
  <2> HIDE DEF n, q
  <2> QED BY <2>1 DEF Timer
<1>4. /\ \A i, j \in 1 .. n : i <= j => s[i].due <= s[j].due
      /\ \A i, j \in 1 .. n : s[i].id = s[j].id => i = j
  BY DEF Ordered
<1>5. \A i \in k .. n : t.due <= s[i].due
  BY <1>2, <1>3, <1>4
<1> HIDE DEF q, n
<1>6. q[k] = t /\ \A i \in 1 .. k - 1 : q[i] = s[i]
  <2>1. k \in 1 .. n + 1 /\ ~(k < k)
    BY <1>2
  <2>2. q[k] = t
    BY <1>1, <2>1
  <2>3. ASSUME NEW i \in 1 .. k - 1 PROVE q[i] = s[i]
    <3>1. i \in 1 .. n + 1 /\ i < k
      BY <1>2
    <3> QED BY <1>1, <3>1
  <2> QED BY <2>2, <2>3
<1>7. \A i \in k .. n : q[i + 1] = s[i]
  BY <1>1, <1>2
<1>8. \A i, j \in 1 .. n + 1 : i <= j => q[i].due <= q[j].due
  <2> SUFFICES ASSUME NEW i \in 1 .. n + 1, NEW j \in 1 .. n + 1, i < j
               PROVE  q[i].due <= q[j].due
    BY <1>3
  <2>1. CASE j < k
    <3>1. i \in 1 .. n /\ j \in 1 .. n /\ q[i] = s[i] /\ q[j] = s[j]
      BY <2>1, <1>2, <1>6
    <3> QED BY <3>1, <1>4
  <2>2. CASE j = k
    BY <2>2, <1>2, <1>6 DEF n
  <2>3. CASE i = k
    <3>1. j - 1 \in k .. n
      BY <2>3, <1>2
    <3> QED BY <2>3, <3>1, <1>1, <1>2, <1>5, <1>6
  <2>4. CASE i < k /\ j > k
    <3>1. j - 1 \in 1 .. n /\ i \in 1 .. n /\ i <= j - 1
      BY <2>4, <1>2
    <3> QED BY <2>4, <3>1, <1>1, <1>2, <1>4
  <2>5. CASE i > k
    <3>1. j - 1 \in 1 .. n /\ i - 1 \in 1 .. n /\ i - 1 <= j - 1
      BY <2>5, <1>2
    <3> QED BY <2>5, <3>1, <1>1, <1>2, <1>4
  <2> QED BY <2>1, <2>2, <2>3, <2>4, <2>5, <1>2
<1>9. \A i, j \in 1 .. n + 1 : q[i].id = q[j].id => i = j
  <2> SUFFICES ASSUME NEW i \in 1 .. n + 1, NEW j \in 1 .. n + 1, q[i].id = q[j].id, i < j
               PROVE  FALSE
    BY <1>2
  <2>1. CASE j < k
    BY <2>1, <1>2, <1>4, <1>6
  <2>2. CASE j = k
    BY <2>2, <1>2, <1>6 DEF n
  <2>3. CASE i = k
    <3>1. j - 1 \in 1 .. n /\ q[j] = s[j - 1]
      BY <2>3, <1>1, <1>2
    <3> QED BY <2>3, <3>1, <1>6 DEF n
  <2>4. CASE i < k /\ j > k
    <3>1. j - 1 \in 1 .. n /\ i \in 1 .. n /\ i # j - 1 /\ q[j] = s[j - 1] /\ q[i] = s[i]
      BY <2>4, <1>1, <1>2
    <3> QED BY <3>1, <1>4
  <2>5. CASE i > k
    <3>1. j - 1 \in 1 .. n /\ i - 1 \in 1 .. n /\ i - 1 # j - 1 /\ q[j] = s[j - 1] /\ q[i] = s[i - 1]
      BY <2>5, <1>1, <1>2
    <3> QED BY <3>1, <1>4
  <2> QED BY <2>1, <2>2, <2>3, <2>4, <2>5, <1>2
<1>10. \A i \in 1 .. n + 1 : q[i] = t \/ \E j \in 1 .. n : q[i] = s[j]
  <2> SUFFICES ASSUME NEW i \in 1 .. n + 1, i # k PROVE \E j \in 1 .. n : q[i] = s[j]
    BY <1>6
  <2>1. CASE i < k
    BY <2>1, <1>2, <1>6
  <2>2. CASE i > k
    <3>1. i - 1 \in 1 .. n /\ q[i] = s[i - 1]
      BY <2>2, <1>1, <1>2
    <3> QED BY <3>1
  <2> QED BY <2>1, <2>2, <1>2
<1>11. \A j \in 1 .. n : \E i \in 1 .. n + 1 : q[i] = s[j]
  <2> SUFFICES ASSUME NEW j \in 1 .. n PROVE \E i \in 1 .. n + 1 : q[i] = s[j]
    OBVIOUS
  <2>1. CASE j < k
    BY <2>1, <1>2, <1>6
  <2>2. CASE j >= k
    <3>1. j + 1 \in 1 .. n + 1 /\ q[j + 1] = s[j]
      BY <2>2, <1>7, <1>2
    <3> QED BY <3>1
  <2> QED BY <2>1, <2>2, <1>2
<1>12. \E i \in 1 .. n + 1 : q[i] = t
  BY <1>6, <1>2
<1> QED BY <1>1, <1>8, <1>9, <1>10, <1>11, <1>12 DEF With, Ordered, q, n

LEMMA RemoveKeeps ==
  ASSUME NEW s \in Seq(Timer), Ordered(s), NEW k \in 1 .. Len(s), NEW q \in Seq(Timer),
         Len(q) = Len(s) - 1,
         \A i \in 1 .. Len(s) - 1 : q[i] = IF i < k THEN s[i] ELSE s[i + 1]
  PROVE  Without(q, s, k)
<1> DEFINE n == Len(s)
<1>1. n \in Nat /\ k \in Nat /\ k >= 1 /\ k <= n /\ Len(q) = n - 1
  OBVIOUS
<1>2. /\ \A i, j \in 1 .. n : i <= j => s[i].due <= s[j].due
      /\ \A i, j \in 1 .. n : s[i].id = s[j].id => i = j
  BY DEF Ordered
<1>3. \A i \in 1 .. n - 1 : q[i] = IF i < k THEN s[i] ELSE s[i + 1]
  OBVIOUS
<1> HIDE DEF n
<1> DEFINE f(i) == IF i < k THEN i ELSE i + 1
<1>4. \A i \in 1 .. n - 1 : f(i) \in 1 .. n /\ f(i) # k /\ q[i] = s[f(i)]
  BY <1>1, <1>3
<1>5. \A i, j \in 1 .. n - 1 : (i <= j => f(i) <= f(j)) /\ (f(i) = f(j) => i = j)
  BY <1>1
<1> HIDE DEF f
<1>6. \A i, j \in 1 .. n - 1 : i <= j => q[i].due <= q[j].due
  BY <1>2, <1>4, <1>5
<1>7. \A i, j \in 1 .. n - 1 : q[i].id = q[j].id => i = j
  BY <1>2, <1>4, <1>5
<1>8. \A i \in 1 .. n - 1 : \E j \in 1 .. n : j # k /\ q[i] = s[j]
  BY <1>4
<1>9. \A j \in 1 .. n : j # k => \E i \in 1 .. n - 1 : q[i] = s[j]
  <2> SUFFICES ASSUME NEW j \in 1 .. n, j # k PROVE \E i \in 1 .. n - 1 : q[i] = s[j]
    OBVIOUS
  <2>1. CASE j < k
    BY <2>1, <1>1, <1>3
  <2>2. CASE j > k
    <3>1. j - 1 \in 1 .. n - 1 /\ (j - 1) + 1 = j /\ ~(j - 1 < k)
      BY <2>2, <1>1
    <3> QED BY <3>1, <1>3
  <2> QED BY <2>1, <2>2, <1>1
<1> QED BY <1>1, <1>6, <1>7, <1>8, <1>9 DEF Without, Ordered, n

LEMMA LeastNumber ==
  ASSUME NEW T \in SUBSET Nat, T # {}
  PROVE  \E m \in T : \A n \in T : m <= n
<1> DEFINE R == {ss \in Nat \X Nat : ss[1] < ss[2]}
<1>1. IsWellFoundedOn(R, Nat)
  BY NatLessThanWellFounded DEF OpToRel
<1>2. PICK x \in T : \A y \in T : <<y, x>> \notin R
  <2> HIDE DEF R
  <2> QED BY <1>1, WFMin
<1>3. ASSUME NEW y \in T PROVE x <= y
  <2>1. x \in Nat /\ y \in Nat
    OBVIOUS
  <2>2. y < x => <<y, x>> \in R
    BY <2>1
  <2> HIDE DEF R
  <2> QED BY <2>1, <2>2, <1>2
<1> QED BY <1>3

\* The first place that is due later exists.
LEMMA UpperBoundRight ==
  ASSUME pending \in Seq(Timer), NEW due \in Nat
  PROVE  /\ UpperBound(due) \in 1 .. Len(pending) + 1
         /\ \A i \in 1 .. UpperBound(due) - 1 : pending[i].due <= due
         /\ UpperBound(due) <= Len(pending) => pending[UpperBound(due)].due > due
<1> DEFINE n == Len(pending)
           Good(k) == /\ \A i \in 1 .. k - 1 : pending[i].due <= due
                      /\ k <= n => pending[k].due > due
           T == {k \in 1 .. n + 1 : k = n + 1 \/ pending[k].due > due}
<1>1. n \in Nat /\ \A i \in 1 .. n : pending[i].due \in Nat
  <2>1. n \in Nat /\ \A i \in 1 .. n : pending[i] \in Timer
    OBVIOUS
  <2> HIDE DEF n
  <2> QED BY <2>1 DEF Timer
<1>2. T \in SUBSET Nat /\ n + 1 \in T
  BY <1>1
<1>3. PICK m \in T : \A k \in T : m <= k
  <2> HIDE DEF T
  <2> QED BY <1>2, LeastNumber
<1>4. m \in 1 .. n + 1 /\ Good(m)
  <2>1. m \in 1 .. n + 1 /\ (m <= n => pending[m].due > due)
    BY <1>1, <1>3
  <2>2. ASSUME NEW i \in 1 .. m - 1 PROVE pending[i].due <= due
    <3>1. i \in 1 .. n /\ i < m
      BY <2>1, <1>1
    <3>2. i \notin T
      BY <3>1, <1>3, <2>1, <1>1
    <3> QED BY <3>1, <3>2, <1>1
  <2> QED BY <2>1, <2>2
<1>5. UpperBound(due) = CHOOSE k \in 1 .. n + 1 : Good(k)
  BY DEF UpperBound
<1> HIDE DEF Good, n
<1>6. UpperBound(due) \in 1 .. n + 1 /\ Good(UpperBound(due))
  BY <1>4, <1>5
<1> QED BY <1>6 DEF Good, n

LEMMA InsertRight ==
  ASSUME pending \in Seq(Timer), Ordered(pending), NEW t \in Timer,
         \A i \in 1 .. Len(pending) : pending[i].id # t.id
  PROVE  With(Insert(t), pending, t)
<1>1. t.due \in Nat
  BY DEF Timer
<1>2. /\ UpperBound(t.due) \in 1 .. Len(pending) + 1
      /\ \A i \in 1 .. UpperBound(t.due) - 1 : pending[i].due <= t.due
      /\ UpperBound(t.due) <= Len(pending) => pending[UpperBound(t.due)].due > t.due
  BY <1>1, UpperBoundRight
<1> QED BY <1>2, InsertKeeps DEF Insert

LEMMA CancelRight ==
  ASSUME pending \in Seq(Timer), Ordered(pending), NEW id
  PROVE  /\ Cancel(id) \in Seq(Timer) /\ Ordered(Cancel(id))
         /\ \A i \in 1 .. Len(Cancel(id)) :
              /\ Cancel(id)[i].id # id
              /\ \E j \in 1 .. Len(pending) : Cancel(id)[i] = pending[j]
         /\ \A j \in 1 .. Len(pending) :
              pending[j].id # id => \E i \in 1 .. Len(Cancel(id)) : Cancel(id)[i] = pending[j]
<1>1. CASE \E i \in 1 .. Len(pending) : pending[i].id = id
  <2> DEFINE k == CHOOSE i \in 1 .. Len(pending) : pending[i].id = id
  <2>1. k \in 1 .. Len(pending) /\ pending[k].id = id
    BY <1>1
  <2>2. Cancel(id) = RemoveAt(pending, k)
    BY <1>1 DEF Cancel
  <2> HIDE DEF k
  <2>3. Without(Cancel(id), pending, k)
    BY <2>1, <2>2, RemovedAt, RemoveKeeps
  <2>4. \A j \in 1 .. Len(pending) : j # k <=> pending[j].id # id
    BY <2>1 DEF Ordered
  <2> DEFINE q == Cancel(id)
  <2>5. /\ q \in Seq(Timer) /\ Ordered(q)
        /\ \A i \in 1 .. Len(q) : \E j \in 1 .. Len(pending) : j # k /\ q[i] = pending[j]
        /\ \A j \in 1 .. Len(pending) : j # k => \E i \in 1 .. Len(q) : q[i] = pending[j]
    BY <2>3 DEF Without
  <2> HIDE DEF q
  <2>6. \A i \in 1 .. Len(q) : q[i].id # id /\ \E j \in 1 .. Len(pending) : q[i] = pending[j]
    BY <2>4, <2>5
  <2>7. \A j \in 1 .. Len(pending) : pending[j].id # id => \E i \in 1 .. Len(q) : q[i] = pending[j]
    BY <2>4, <2>5
  <2> QED BY <2>5, <2>6, <2>7 DEF q
<1>2. CASE ~\E i \in 1 .. Len(pending) : pending[i].id = id
  BY <1>2 DEF Cancel
<1> QED BY <1>1, <1>2

LEMMA TailRight ==
  ASSUME pending \in Seq(Timer), Ordered(pending), pending # <<>>
  PROVE  Without(Tail(pending), pending, 1) /\ Head(pending) = pending[1] /\ 1 \in 1 .. Len(pending)
<1>1. /\ Tail(pending) \in Seq(Timer) /\ Len(Tail(pending)) = Len(pending) - 1
      /\ \A i \in 1 .. Len(Tail(pending)) : Tail(pending)[i] = pending[i + 1]
  BY HeadTailProperties
<1>2. Len(pending) \in Nat /\ 1 \in 1 .. Len(pending) /\ Head(pending) = pending[1]
  OBVIOUS
<1>3. \A i \in 1 .. Len(pending) - 1 :
        Tail(pending)[i] = IF i < 1 THEN pending[i] ELSE pending[i + 1]
  BY <1>1
<1> QED BY <1>1, <1>2, <1>3, RemoveKeeps

-----------------------------------------------------------------------------
(* The timers: the inductive invariant.                                    *)

\* A loop has a timer in hand while it calls it, and the others are pending.
PassInv ==
  /\ pass.id <= next_id
  /\ IF pass.at \in {"taken", "callback"} THEN pass.id # 0 /\ pass.timeout # 0
                                         ELSE pass.id = 0
  /\ \A i \in 1 .. Len(pending) : pending[i].id # pass.id /\ pending[i].id <= next_id

\* What has been cancelled is gone.
SilentInv ==
  /\ canceled \subseteq 1 .. next_id /\ pass.id \notin canceled
  /\ \A i \in 1 .. Len(pending) : pending[i].id \notin canceled

TimersInv == TimersSafe /\ Ordered(pending) /\ PassInv /\ SilentInv

LEMMA PendingType == TimerTypeOK <=>
  /\ kind \in {"proactor", "thread", "raft"}
  /\ pass \in [at : {"test", "lock", "scan", "taken", "callback", "wait", "events", "done"},
              id : 0 .. MaxTimers, timeout : Delays \cup {0}]
  /\ clock \in 0 .. MaxTime
  /\ pending \in Seq(Timer)
  /\ next_id \in 0 .. MaxTimers
  /\ sleep \in [until : Nat, notified : BOOLEAN]
  /\ is_stop \in BOOLEAN
  /\ canceled \subseteq Ids /\ inHand \subseteq Ids /\ ended \subseteq Ids
  /\ calledLate \subseteq Ids
BY DEF TimerTypeOK, Timer

LEMMA TimersInit == TimerInit => TimersInv
<1> SUFFICES ASSUME TimerInit PROVE TimersInv
  OBVIOUS
<1> USE TimersAssumption DEF TimerInit
<1>1. TimerTypeOK
  <2>1. pass \in [at : {"test", "lock", "scan", "taken", "callback", "wait", "events", "done"},
                 id : 0 .. MaxTimers, timeout : Delays \cup {0}]
    OBVIOUS
  <2>2. sleep \in [until : Nat, notified : BOOLEAN] /\ pending \in Seq(Timer)
    OBVIOUS
  <2>3. clock \in 0 .. MaxTime /\ next_id \in 0 .. MaxTimers
    OBVIOUS
  <2> HIDE DEF TimerInit
  <2> QED BY <2>1, <2>2, <2>3, PendingType DEF TimerInit
<1>2. Ordered(pending) /\ PassInv /\ SilentInv
  BY DEF Ordered, PassInv, SilentInv
<1>3. NoOversleep /\ CanceledSilent /\ NoneLost
  BY DEF NoOversleep, CanceledSilent, NoneLost
<1> QED BY <1>1, <1>2, <1>3 DEF TimersInv, TimersSafe

LEMMA SetTimerKeeps == TimersInv /\ SetTimer => TimersInv'
<1> SUFFICES ASSUME TimersInv, SetTimer PROVE TimersInv'
  OBVIOUS
<1> USE TimersAssumption
<1>1. /\ kind \in {"proactor", "thread", "raft"} /\ clock \in Nat /\ next_id \in Nat
      /\ pending \in Seq(Timer) /\ MaxTimers \in Nat /\ Len(pending) \in Nat
      /\ \A i \in 1 .. Len(pending) : pending[i].id \in Nat
      /\ sleep \in [until : Nat, notified : BOOLEAN]
  <2>1. /\ kind \in {"proactor", "thread", "raft"} /\ clock \in 0 .. MaxTime
        /\ next_id \in 0 .. MaxTimers /\ pending \in Seq(Timer)
        /\ sleep \in [until : Nat, notified : BOOLEAN]
    BY PendingType DEF TimersInv, TimersSafe
  <2>2. \A i \in 1 .. Len(pending) : pending[i].id \in Nat
    <3>1. \A i \in 1 .. Len(pending) : pending[i] \in Timer
      BY <2>1
    <3> QED BY <3>1 DEF Timer, Ids
  <2> QED BY <2>1, <2>2
<1>2. PICK d \in Delays : pending' = Insert([id |-> next_id', due |-> clock + d, timeout |-> d])
  BY DEF SetTimer
<1>3. next_id' = next_id + 1 /\ next_id' \in Ids /\ UNCHANGED <<kind, pass, clock, is_stop, canceled, inHand, ended, calledLate>>
  BY <1>1 DEF SetTimer, Ids
<1>4. PICK t : t = [id |-> next_id', due |-> clock + d, timeout |-> d]
  OBVIOUS
<1>5. t \in Timer /\ t.id = next_id + 1
  <2>1. clock \in Nat /\ d \in Nat /\ clock + d \in Nat
    <3>1. clock \in 0 .. MaxTime /\ MaxTime \in Nat /\ d \in Delays /\ Delays \subseteq Nat
      BY TimersAssumption DEF TimersInv, TimersSafe, TimerTypeOK
    <3>2. clock \in Nat /\ d \in Nat
      BY <3>1
    <3> QED BY <3>2
  <2>2. [id |-> next_id', due |-> clock + d, timeout |-> d] \in Timer
    BY <1>3, <2>1 DEF Timer
  <2> QED BY <1>3, <1>4, <2>2
<1>6. \A i \in 1 .. Len(pending) : pending[i].id # t.id
  BY <1>1, <1>5 DEF TimersInv, PassInv
<1>7. With(pending', pending, t)
  BY <1>1, <1>2, <1>4, <1>5, <1>6, InsertRight DEF TimersInv
<1>8. sleep' \in [until : Nat, notified : BOOLEAN]
  BY <1>1 DEF SetTimer, Notify
<1>9. TimerTypeOK'
  BY <1>3, <1>7, <1>8, <1>1 DEF TimersInv, TimersSafe, TimerTypeOK, With, Timer, Ids
<1>10. PassInv'
  <2>1. pass.id \in Nat /\ pass.id <= next_id /\ pass' = pass
    BY <1>3 DEF TimersInv, TimersSafe, TimerTypeOK, PassInv
  <2>2. \A i \in 1 .. Len(pending') : pending'[i].id # pass'.id /\ pending'[i].id <= next_id'
    <3> SUFFICES ASSUME NEW i \in 1 .. Len(pending')
                 PROVE  pending'[i].id # pass'.id /\ pending'[i].id <= next_id'
      OBVIOUS
    <3>1. CASE pending'[i] = t
      BY <2>1, <3>1, <1>1, <1>3, <1>5
    <3>2. CASE \E j \in 1 .. Len(pending) : pending'[i] = pending[j]
      <4>1. PICK j \in 1 .. Len(pending) : pending'[i] = pending[j]
        BY <3>2
      <4>2. pending[j].id \in Nat /\ pending[j].id <= next_id /\ pending[j].id # pass.id
        BY <1>1 DEF TimersInv, PassInv
      <4> QED BY <2>1, <4>1, <4>2, <1>1, <1>3
    <3> QED BY <3>1, <3>2, <1>7 DEF With
  <2> QED BY <2>1, <2>2, <1>1, <1>3 DEF TimersInv, PassInv
<1>11. SilentInv'
  <2>1. /\ canceled \subseteq 1 .. next_id /\ pass.id \notin canceled
        /\ \A i \in 1 .. Len(pending) : pending[i].id \notin canceled
    BY DEF TimersInv, SilentInv
  <2>2. t.id \notin canceled
    BY <1>1, <1>5, <2>1
  <2>3. \A i \in 1 .. Len(pending') : pending'[i].id \notin canceled
    BY <1>7, <2>1, <2>2 DEF With
  <2>4. canceled \subseteq 1 .. next_id'
    BY <1>1, <1>3, <2>1
  <2> QED BY <1>3, <2>1, <2>3, <2>4 DEF SilentInv
<1>12. NoOversleep'
  <2>1. pass.at = "wait" => sleep'.notified
    <3>1. pass.at = "wait" => kind # "proactor"
      BY DEF SetTimer, MaySet
    <3> QED BY <3>1, <1>1 DEF SetTimer, Notify, Wakes
  <2> QED BY <2>1, <1>3 DEF NoOversleep
<1>13. CanceledSilent' /\ NoneLost'
  <2>1. ASSUME NEW id \in (1 .. next_id') \ (ended' \cup canceled')
        PROVE  pass'.id = id \/ \E i \in 1 .. Len(pending') : pending'[i].id = id
    <3>1. CASE id = next_id + 1
      BY <3>1, <1>5, <1>7 DEF With
    <3>2. CASE id \in (1 .. next_id) \ (ended \cup canceled)
      BY <3>2, <1>3, <1>7 DEF With, TimersInv, TimersSafe, NoneLost
    <3> QED BY <3>1, <3>2, <1>1, <1>3
  <2> QED BY <2>1, <1>3 DEF TimersInv, TimersSafe, CanceledSilent, NoneLost
<1> QED BY <1>7, <1>9, <1>10, <1>11, <1>12, <1>13 DEF TimersInv, TimersSafe, With

LEMMA CancelTimerKeeps == TimersInv /\ CancelTimer => TimersInv'
<1> SUFFICES ASSUME TimersInv, CancelTimer PROVE TimersInv'
  OBVIOUS
<1> USE TimersAssumption
<1>1. /\ pending \in Seq(Timer) /\ next_id \in 0 .. MaxTimers /\ MaxTimers \in Nat
      /\ sleep \in [until : Nat, notified : BOOLEAN]
  BY PendingType DEF TimersInv, TimersSafe
<1>2. PICK id \in (1 .. next_id) \ (canceled \cup inHand \cup ended) :
        /\ pending' = Cancel(id)
        /\ IF pass.id = id THEN inHand' = inHand \cup {id} /\ UNCHANGED canceled
                           ELSE canceled' = canceled \cup {id} /\ UNCHANGED inHand
        /\ Notify(kind = "raft" /\ pending' # pending)
  BY DEF CancelTimer
<1>3. UNCHANGED <<kind, pass, clock, next_id, is_stop, ended, calledLate>>
  BY DEF CancelTimer
<1>4. /\ pending' \in Seq(Timer) /\ Ordered(pending')
      /\ \A i \in 1 .. Len(pending') :
           /\ pending'[i].id # id
           /\ \E j \in 1 .. Len(pending) : pending'[i] = pending[j]
      /\ \A j \in 1 .. Len(pending) :
           pending[j].id # id => \E i \in 1 .. Len(pending') : pending'[i] = pending[j]
  BY <1>1, <1>2, CancelRight DEF TimersInv
<1>5. id \in Ids
  BY <1>1 DEF Ids
<1>6. TimerTypeOK'
  <2>1. canceled' \subseteq Ids /\ inHand' \subseteq Ids
    BY <1>2, <1>5 DEF TimersInv, TimersSafe, TimerTypeOK
  <2>2. sleep' \in [until : Nat, notified : BOOLEAN]
    BY <1>1, <1>2 DEF Notify
  <2> QED BY <2>1, <2>2, <1>3, <1>4 DEF TimersInv, TimersSafe, TimerTypeOK, Timer
<1>7. PassInv'
  BY <1>3, <1>4 DEF TimersInv, PassInv
<1>8. SilentInv'
  <2>1. /\ canceled \subseteq canceled' /\ canceled' \subseteq canceled \cup {id}
        /\ pass.id = id => canceled' = canceled
    BY <1>2
  <2>2. /\ canceled \subseteq 1 .. next_id /\ pass.id \notin canceled
        /\ \A i \in 1 .. Len(pending) : pending[i].id \notin canceled
    BY DEF TimersInv, SilentInv
  <2>3. \A i \in 1 .. Len(pending') : pending'[i].id \notin canceled'
    BY <2>1, <2>2, <1>4
  <2>4. canceled' \subseteq 1 .. next_id' /\ pass'.id \notin canceled'
    BY <2>1, <2>2, <1>3
  <2> QED BY <2>3, <2>4 DEF SilentInv
<1>9. NoOversleep'
  <2>1. sleep'.until = sleep.until /\ (~sleep'.notified => ~sleep.notified)
    BY <1>1, <1>2 DEF Notify
  <2> QED BY <2>1, <1>3, <1>4 DEF TimersInv, TimersSafe, NoOversleep
<1>10. CanceledSilent' /\ NoneLost'
  <2>1. ASSUME NEW a \in (1 .. next_id') \ (ended' \cup canceled')
        PROVE  pass'.id = a \/ \E i \in 1 .. Len(pending') : pending'[i].id = a
    <3>1. a \in (1 .. next_id) \ (ended \cup canceled)
      BY <1>2, <1>3
    <3>2. pass.id = a \/ \E i \in 1 .. Len(pending) : pending[i].id = a
      BY <3>1 DEF TimersInv, TimersSafe, NoneLost
    <3>3. CASE pass.id = a
      BY <3>3, <1>3
    <3>4. CASE \E i \in 1 .. Len(pending) : pending[i].id = a /\ pass.id # a
      <4>1. a # id
        BY <1>2, <3>4
      <4> QED BY <4>1, <3>4, <1>4
    <3> QED BY <3>2, <3>3, <3>4
  <2> QED BY <2>1, <1>3 DEF TimersInv, TimersSafe, CanceledSilent, NoneLost
<1> QED BY <1>4, <1>6, <1>7, <1>8, <1>9, <1>10 DEF TimersInv, TimersSafe

LEMMA TakeOffKeeps == TimersInv /\ TakeOff => TimersInv'
<1> SUFFICES ASSUME TimersInv, TakeOff PROVE TimersInv'
  OBVIOUS
<1> USE TimersAssumption
<1>1. /\ pending \in Seq(Timer) /\ Ordered(pending) /\ pending # <<>>
      /\ pending' = Tail(pending) /\ pass.at = "scan" /\ pass.id = 0
  BY PendingType DEF TimersInv, TimersSafe, TakeOff, IsDue, PassInv
<1>2. Without(pending', pending, 1) /\ Head(pending) = pending[1] /\ 1 \in 1 .. Len(pending)
  BY <1>1, TailRight
<1>3. pending[1] \in Timer
  BY <1>1, <1>2
<1>4. /\ pass' = [at |-> IF kind = "raft" THEN "taken" ELSE "callback",
                  id |-> pending[1].id, timeout |-> pending[1].timeout]
      /\ calledLate' = calledLate \cup ({pending[1].id} \cap canceled)
      /\ UNCHANGED <<kind, clock, next_id, is_stop, canceled, inHand, ended, sleep>>
  BY <1>2 DEF TakeOff, Rest
<1>5. calledLate' = calledLate
  BY <1>2, <1>4 DEF TimersInv, SilentInv
<1>6. pending[1].id \in Ids /\ pending[1].timeout \in Delays
  BY <1>3 DEF Timer
<1>7. TimerTypeOK'
  <2>1. pass' \in [at : {"test", "lock", "scan", "taken", "callback", "wait", "events", "done"},
                  id : 0 .. MaxTimers, timeout : Delays \cup {0}]
    BY <1>4, <1>6 DEF Ids
  <2> QED BY <2>1, <1>2, <1>4, <1>5 DEF TimersInv, TimersSafe, TimerTypeOK, Without, Timer
<1>8. PassInv'
  <2>1. /\ pass'.at \in {"taken", "callback"} /\ pass'.id = pending[1].id
        /\ pass'.timeout = pending[1].timeout
    BY <1>4
  <2>2. \A j \in 1 .. Len(pending) : j # 1 => pending[j].id # pending[1].id
    BY <1>1, <1>2 DEF Ordered
  <2>3. \A i \in 1 .. Len(pending') : pending'[i].id # pass'.id /\ pending'[i].id <= next_id'
    BY <2>1, <2>2, <1>2, <1>4 DEF TimersInv, PassInv, Without
  <2>4. pass'.id <= next_id' /\ pass'.id # 0 /\ pass'.timeout # 0
    BY <2>1, <1>2, <1>4, <1>6 DEF TimersInv, PassInv, Ids
  <2> QED BY <2>1, <2>3, <2>4 DEF PassInv
<1>9. SilentInv'
  BY <1>2, <1>4 DEF TimersInv, SilentInv, Without
<1>10. NoOversleep'
  BY <1>4 DEF NoOversleep
<1>11. CanceledSilent' /\ NoneLost'
  <2>1. ASSUME NEW id \in (1 .. next_id') \ (ended' \cup canceled')
        PROVE  pass'.id = id \/ \E i \in 1 .. Len(pending') : pending'[i].id = id
    <3>1. PICK j \in 1 .. Len(pending) : pending[j].id = id
      BY <1>1, <1>4 DEF TimersInv, TimersSafe, NoneLost
    <3>2. j = 1 \/ \E i \in 1 .. Len(pending') : pending'[i] = pending[j]
      BY <1>2 DEF Without
    <3> QED BY <3>1, <3>2, <1>4
  <2> QED BY <2>1, <1>5 DEF TimersInv, TimersSafe, CanceledSilent, NoneLost
<1> QED BY <1>2, <1>7, <1>8, <1>9, <1>10, <1>11 DEF TimersInv, TimersSafe, Without

LEMMA ReturnsKeeps == TimersInv /\ Returns => TimersInv'
<1> SUFFICES ASSUME TimersInv, Returns PROVE TimersInv'
  OBVIOUS
<1> USE TimersAssumption
<1>1. /\ pending \in Seq(Timer) /\ Ordered(pending) /\ clock \in Nat
      /\ pass.at = "callback" /\ pass.id \in Ids /\ pass.timeout \in Delays
  <2>1. /\ pass \in [at : {"test", "lock", "scan", "taken", "callback", "wait", "events", "done"},
                     id : 0 .. MaxTimers, timeout : Delays \cup {0}]
        /\ clock \in 0 .. MaxTime /\ pending \in Seq(Timer) /\ Ordered(pending)
    BY PendingType DEF TimersInv, TimersSafe
  <2>2. pass.at = "callback"
    BY DEF Returns
  <2>3. pass.id # 0 /\ pass.timeout # 0
    BY <2>2 DEF TimersInv, PassInv
  <2>4. pass.id \in 0 .. MaxTimers /\ pass.timeout \in Delays \cup {0}
    BY <2>1
  <2>5. pass.id \in Ids
    BY <2>3, <2>4 DEF Ids
  <2> QED BY <2>1, <2>2, <2>3, <2>4, <2>5
<1>2. /\ UNCHANGED <<kind, clock, next_id, is_stop, canceled, inHand, sleep, calledLate>>
      /\ pass' = [at |-> IF kind = "raft" THEN "test" ELSE "scan", id |-> 0, timeout |-> 0]
  BY DEF Returns, To
<1>3. pass'.id = 0 /\ pass'.at \in {"test", "scan"}
      /\ pass' \in [at : {"test", "lock", "scan", "taken", "callback", "wait", "events", "done"},
                    id : 0 .. MaxTimers, timeout : Delays \cup {0}]
  BY <1>2
<1>4. CASE ended' = ended \cup {pass.id} /\ UNCHANGED pending
  <2>1. TimerTypeOK'
    BY <1>1, <1>2, <1>3, <1>4 DEF TimersInv, TimersSafe, TimerTypeOK
  <2>2. PassInv'
    <3>1. \A i \in 1 .. Len(pending) : pending[i].id # 0
      <4>1. \A i \in 1 .. Len(pending) : pending[i] \in Timer
        BY <1>1
      <4> QED BY <4>1 DEF Timer, Ids
    <3>2. 0 <= next_id'
      BY <1>2 DEF TimersInv, TimersSafe, TimerTypeOK
    <3> QED BY <3>1, <3>2, <1>2, <1>3, <1>4 DEF TimersInv, PassInv
  <2>3. SilentInv'
    BY <1>2, <1>3, <1>4 DEF TimersInv, SilentInv
  <2>4. NoOversleep' /\ CanceledSilent' /\ NoneLost'
    BY <1>2, <1>3, <1>4 DEF TimersInv, TimersSafe, NoOversleep, CanceledSilent, NoneLost
  <2> QED BY <2>1, <2>2, <2>3, <2>4, <1>4 DEF TimersInv, TimersSafe
<1>5. CASE /\ UNCHANGED ended
           /\ pending' = Insert([id |-> pass.id, due |-> clock + pass.timeout,
                                 timeout |-> pass.timeout])
  <2>1. PICK t : t = [id |-> pass.id, due |-> clock + pass.timeout, timeout |-> pass.timeout]
    OBVIOUS
  <2>2. t \in Timer /\ t.id = pass.id
    <3>0. clock \in Nat /\ pass.timeout \in Nat
      BY <1>1
    <3>1. clock + pass.timeout \in Nat
      BY <3>0
    <3> QED BY <2>1, <3>1, <1>1 DEF Timer
  <2>3. With(pending', pending, t)
    BY <1>1, <1>5, <2>1, <2>2, InsertRight DEF TimersInv, PassInv
  <2>4. TimerTypeOK'
    BY <1>2, <1>3, <1>5, <2>3 DEF TimersInv, TimersSafe, TimerTypeOK, With, Timer
  <2>5. PassInv'
    <3>1. \A i \in 1 .. Len(pending') : pending'[i].id # 0 /\ pending'[i].id <= next_id'
      <4>1. \A i \in 1 .. Len(pending') : pending'[i] \in Timer
        BY <2>3 DEF With
      <4>2. \A i \in 1 .. Len(pending') : pending'[i].id # 0
        BY <4>1 DEF Timer, Ids
      <4> QED BY <4>2, <2>2, <2>3, <1>2 DEF TimersInv, PassInv, With
    <3>2. 0 <= next_id'
      BY <1>2 DEF TimersInv, TimersSafe, TimerTypeOK
    <3> QED BY <3>1, <3>2, <1>3 DEF PassInv
  <2>6. SilentInv'
    <3>1. 0 \notin canceled'
      BY <1>2 DEF TimersInv, SilentInv
    <3> QED BY <3>1, <1>2, <1>3, <2>2, <2>3 DEF TimersInv, SilentInv, With
  <2>7. NoOversleep' /\ CanceledSilent' /\ NoneLost'
    BY <1>2, <1>3, <1>5, <2>2, <2>3 DEF TimersInv, TimersSafe, NoOversleep, CanceledSilent, NoneLost, With
  <2> QED BY <2>3, <2>4, <2>5, <2>6, <2>7 DEF TimersInv, TimersSafe, With
<1> QED BY <1>4, <1>5 DEF Returns

LEMMA GoToSleepKeeps == TimersInv /\ GoToSleep => TimersInv'
<1> SUFFICES ASSUME TimersInv, GoToSleep PROVE TimersInv'
  OBVIOUS
<1> USE TimersAssumption
<1>1. /\ pending \in Seq(Timer) /\ Ordered(pending) /\ pass.at = "scan" /\ pass.id = 0
  BY PendingType DEF TimersInv, TimersSafe, GoToSleep, PassInv
<1>2. /\ UNCHANGED <<kind, clock, next_id, is_stop, canceled, inHand, ended, pending, calledLate>>
      /\ pass' = [at |-> "wait", id |-> 0, timeout |-> 0]
      /\ sleep' = [until |-> IF pending = <<>> THEN Never ELSE Head(pending).due, notified |-> FALSE]
  BY DEF GoToSleep, To, Rest
<1>3. /\ sleep' \in [until : Nat, notified : BOOLEAN]
      /\ \A i \in 1 .. Len(pending) : sleep'.until <= pending[i].due
  <2>1. CASE pending = <<>>
    <3>1. Never \in Nat
      BY DEF Never
    <3> QED BY <2>1, <3>1, <1>2
  <2>2. CASE pending # <<>>
    <3>1. 1 \in 1 .. Len(pending) /\ Head(pending) = pending[1]
      BY <1>1, <2>2, TailRight
    <3>2. pending[1].due \in Nat
      <4>1. pending[1] \in Timer
        BY <3>1, <1>1
      <4> QED BY <4>1 DEF Timer
    <3>3. \A i \in 1 .. Len(pending) : pending[1].due <= pending[i].due
      BY <3>1, <1>1 DEF Ordered
    <3> QED BY <2>2, <3>1, <3>2, <3>3, <1>2
  <2> QED BY <2>1, <2>2
<1>4. TimerTypeOK'
  BY <1>2, <1>3 DEF TimersInv, TimersSafe, TimerTypeOK
<1>5. PassInv' /\ SilentInv'
  BY <1>1, <1>2 DEF TimersInv, PassInv, SilentInv
<1>6. NoOversleep' /\ CanceledSilent' /\ NoneLost'
  BY <1>1, <1>2, <1>3 DEF TimersInv, TimersSafe, NoOversleep, CanceledSilent, NoneLost
<1> QED BY <1>1, <1>2, <1>4, <1>5, <1>6 DEF TimersInv, TimersSafe

\* The steps that leave the timers as they are.
LEMMA OthersKeep ==
  TimersInv /\ (StopTimers \/ Test \/ Lock \/ Begin \/ Wake \/ EventsDone \/ Tick \/ UNCHANGED timerVars)
    => TimersInv'
<1> SUFFICES ASSUME TimersInv,
                    StopTimers \/ Test \/ Lock \/ Begin \/ Wake \/ EventsDone \/ Tick \/ UNCHANGED timerVars
             PROVE  TimersInv'
  OBVIOUS
<1> USE TimersAssumption
<1>1. /\ UNCHANGED <<kind, next_id, pending, canceled, inHand, ended, calledLate>>
      /\ pass'.id = pass.id
      /\ pass'.at \in {"taken", "callback"} <=> pass.at \in {"taken", "callback"}
      /\ pass'.at \in {"taken", "callback"} => pass'.timeout = pass.timeout
      /\ pass'.at = "wait" => pass.at = "wait"
      /\ sleep'.until = sleep.until /\ (~sleep'.notified => ~sleep.notified)
      /\ TimerTypeOK'
  <2> USE DEF TimersInv, TimersSafe, TimerTypeOK, PassInv
  <2>1. CASE StopTimers
    BY <2>1 DEF StopTimers, Notify
  <2>2. CASE Test
    BY <2>2 DEF Test, To, Rest
  <2>3. CASE Lock \/ EventsDone
    BY <2>3 DEF Lock, EventsDone, To, Rest
  <2>4. CASE Begin
    BY <2>4 DEF Begin, Rest
  <2>5. CASE Wake
    BY <2>5 DEF Wake, To, Rest
  <2>6. CASE Tick \/ UNCHANGED timerVars
    BY <2>6 DEF Tick, timerVars
  <2> QED BY <2>1, <2>2, <2>3, <2>4, <2>5, <2>6
<1>2. PassInv' /\ SilentInv' /\ Ordered(pending')
  BY <1>1 DEF TimersInv, PassInv, SilentInv
<1>3. NoOversleep' /\ CanceledSilent' /\ NoneLost'
  BY <1>1 DEF TimersInv, TimersSafe, NoOversleep, CanceledSilent, NoneLost
<1> QED BY <1>1, <1>2, <1>3 DEF TimersInv, TimersSafe

\* The three loops of timers: a loop is woken for every timer that is due before
\* it would wake, no timer is called after it was cancelled unless it was in
\* hand then, and none is lost before it has been called or cancelled.
THEOREM TimersAreSafe == TimerSpec => []TimersSafe
<1>1. TimerInit => TimersInv
  BY TimersInit
<1>2. TimersInv /\ [TimerNext]_timerVars => TimersInv'
  BY SetTimerKeeps, CancelTimerKeeps, TakeOffKeeps, ReturnsKeeps, GoToSleepKeeps, OthersKeep
     DEF TimerNext
<1>3. TimersInv => TimersSafe
  BY DEF TimersInv
<1> QED BY <1>1, <1>2, <1>3, PTL DEF TimerSpec

-----------------------------------------------------------------------------
(* Coroutines.  A jump finds its frames as long as __main_ctx was saved by *)
(* the last switch; every other context is that of the routine it belongs  *)
(* to, and no routine is in two places: free, on hold with a handle, or    *)
(* running.                                                                *)

Free == {creater[i] : i \in 1 .. Len(creater)}

\* __main_ctx is where its stack has got to.
Fresh == main_ctx.age = age[main_ctx.stack]

\* Only routines that were made are used, and only functions created run.
RoutinesInv ==
  /\ routines <= created
  /\ running <= routines /\ main_ctx.stack <= routines /\ current_routine <= routines
  /\ current_routine = 0 => running = 0
  /\ \A h \in handles : h.routine <= routines
  /\ \A r \in Func : func_[r] <= created /\ (r <= routines => func_[r] # 0)
  /\ \A f \in Func : f > created => applied[f] = "no"
  /\ \A f \in Func : applied[f] = "tested" /\ f \in is_done => f \in elsewhere

SwitchInv == ~broken =>
  /\ \A r \in Func : ctx_[r].stack = r
  /\ Fresh => /\ current_routine = running /\ current_ctx = running
              /\ running # 0 => main_ctx.stack # running
              /\ main_ctx.stack \notin Free /\ \A h \in handles : h.routine # main_ctx.stack
  /\ \A i, j \in 1 .. Len(creater) : creater[i] = creater[j] => i = j
  /\ running \notin Free
  /\ \A h \in handles : h.routine \notin Free /\ h.routine # running
  /\ \A h, g \in handles : h.routine = g.routine => h = g

\* As long as functions are created and resumed from the thread's own code.
FlatInv == ~nested =>
  /\ ~broken
  /\ running = 0 => meant = <<>>
  /\ running # 0 => meant = <<func_[running]>> /\ main_ctx = [stack |-> 0, age |-> age[0]]
  /\ \A h \in handles : func_[h.routine] = h.func /\ ctx_[h.routine].age = age[h.routine]
  /\ \A r \in Func : r \in Free \/ r > routines => ctx_[r].age = age[r]
  /\ \A i \in 1 .. Len(finished) : finished[i] \in 1 .. created /\ finished[i] # Here
                                   /\ \A h \in handles : finished[i] # h.func
  /\ \A h \in handles : h.func # Here /\ h.func <= created
  /\ \A h, g \in handles : h.func = g.func => h = g

CoInv == /\ CoTypeOK /\ RoutinesInv /\ SwitchInv /\ FlatInv
         /\ ReturnsOnce /\ SleepsUnanswered

LEMMA CoTypes ==
  ASSUME CoTypeOK
  PROVE  /\ MaxFuncs \in Nat /\ running \in Nat /\ routines \in Nat /\ created \in Nat
         /\ current_routine \in Nat /\ main_ctx.stack \in Stack /\ main_ctx.age \in Nat
         /\ \A s \in Stack : age[s] \in Nat
         /\ \A r \in Func : /\ ctx_[r] \in Context /\ ctx_[r].stack \in Stack
                            /\ ctx_[r].age \in Nat /\ func_[r] \in Nat
         /\ \A h \in handles : h.func \in Func /\ h.routine \in Func
         /\ \A i \in 1 .. Len(creater) : creater[i] \in 1 .. routines
<1>1. /\ MaxFuncs \in Nat /\ running \in Stack /\ routines \in Stack
      /\ created \in 0 .. MaxFuncs /\ current_routine \in Stack
      /\ age \in [Stack -> Nat] /\ main_ctx \in [stack : Stack, age : Nat]
      /\ ctx_ \in [Func -> [stack : Stack, age : Nat]]
      /\ func_ \in [Func -> 0 .. MaxFuncs]
      /\ handles \subseteq [func : Func, routine : Func]
      /\ creater \in Seq(1 .. routines)
  BY CoroutineAssumption DEF CoTypeOK, Context
<1>2. \A i \in 1 .. Len(creater) : creater[i] \in 1 .. routines
  BY <1>1, SeqElement
<1>3. MaxFuncs \in Nat /\ running \in Nat /\ routines \in Nat /\ created \in Nat
      /\ current_routine \in Nat
  BY <1>1 DEF Stack
<1>4. main_ctx.stack \in Stack /\ main_ctx.age \in Nat /\ \A s \in Stack : age[s] \in Nat
  BY <1>1
<1>5. \A r \in Func : ctx_[r] \in Context /\ func_[r] \in Nat
  BY <1>1 DEF Context
<1>6. \A r \in Func : ctx_[r].stack \in Stack /\ ctx_[r].age \in Nat
  BY <1>5 DEF Context
<1>7. \A h \in handles : h.func \in Func /\ h.routine \in Func
  BY <1>1
<1> QED BY <1>2, <1>3, <1>4, <1>5, <1>6, <1>7

LEMMA CoInvInit == CoInit => CoInv
<1> SUFFICES ASSUME CoInit PROVE CoInv
  OBVIOUS
<1> USE CoroutineAssumption DEF CoInit
<1>1. 0 \in Stack /\ Func \subseteq Stack
  BY DEF Stack, Func
<1>2. main_ctx \in Context /\ ctx_ \in [Func -> Context] /\ age \in [Stack -> Nat]
  BY <1>1 DEF Context
<1>3. func_ \in [Func -> 0 .. MaxFuncs]
  OBVIOUS
<1>4. CoTypeOK
  <2>1. creater \in Seq(1 .. routines) /\ Len(creater) <= routines
    OBVIOUS
  <2>2. meant \in Seq(Func) /\ finished \in Seq(Func)
    OBVIOUS
  <2>3. applied \in [Func -> {"no", "asked", "tested", "sleeps"}]
    OBVIOUS
  <2> HIDE DEF CoInit
  <2>4. /\ running = 0 /\ current_ctx = 0 /\ current_routine = 0 /\ routines = 0
        /\ created = 0 /\ yields = 0 /\ handles = {} /\ elsewhere = {} /\ is_done = {}
        /\ nested = FALSE /\ broken = FALSE
    BY DEF CoInit
  <2>5. running \in Stack /\ current_ctx \in Stack /\ current_routine \in Stack
        /\ routines \in Stack /\ created \in 0 .. MaxFuncs /\ yields \in 0 .. MaxYields
    BY <1>1, <2>4
  <2>6. /\ handles \subseteq [func : Func, routine : Func] /\ nested \in BOOLEAN
        /\ broken \in BOOLEAN /\ elsewhere \subseteq Func /\ is_done \subseteq Func
    BY <2>4
  <2> HIDE CoroutineAssumption
  <2> QED BY <1>2, <1>3, <2>1, <2>2, <2>3, <2>5, <2>6 DEF CoTypeOK
<1>5. Len(creater) = 0 /\ Len(finished) = 0 /\ Free = {}
  BY DEF Free
<1>6. main_ctx.stack = 0 /\ main_ctx.age = 0 /\ age[0] = 0
  BY <1>1
<1>7. \A r \in Func : ctx_[r].stack = r /\ ctx_[r].age = 0 /\ age[r] = 0 /\ func_[r] = 0
                      /\ r > routines /\ applied[r] = "no"
  BY <1>1 DEF Func
<1>8. RoutinesInv
  BY <1>6, <1>7 DEF RoutinesInv, Func
<1>9. SwitchInv
  BY <1>5, <1>6, <1>7 DEF SwitchInv
<1>10. FlatInv
  BY <1>5, <1>7 DEF FlatInv
<1>11. ReturnsOnce /\ SleepsUnanswered
  <2>1. IsInjective(finished) /\ 1 .. created = {}
    BY DEF IsInjective
  <2> QED BY <2>1 DEF ReturnsOnce, SleepsUnanswered
<1> QED BY <1>4, <1>8, <1>9, <1>10, <1>11 DEF CoInv

LEMMA HereRuns ==
  ASSUME CoInv, running # 0
  PROVE  /\ running \in Func /\ running <= routines /\ running \in 1 .. routines
         /\ current_routine \in Func /\ current_routine <= routines
         /\ Here = func_[running] /\ Here \in Func /\ Here <= created /\ Here \in 1 .. created
<1>1. /\ running \in Nat /\ routines \in Nat /\ created \in Nat /\ current_routine \in Nat
      /\ MaxFuncs \in Nat /\ routines <= MaxFuncs /\ created <= MaxFuncs
      /\ \A r \in Func : func_[r] \in Nat
  <2>1. routines \in Stack /\ created \in 0 .. MaxFuncs
    BY DEF CoInv, CoTypeOK
  <2> QED BY <2>1, CoTypes DEF CoInv, Stack
<1>2. running <= routines /\ current_routine <= routines /\ current_routine # 0
  BY DEF CoInv, RoutinesInv
<1>3. running \in Func /\ current_routine \in Func
  BY <1>1, <1>2 DEF Func
<1>4. func_[running] <= created /\ func_[running] # 0
  BY <1>2, <1>3 DEF CoInv, RoutinesInv
<1>5. func_[running] \in Func
  BY <1>1, <1>3, <1>4 DEF Func
<1> QED BY <1>1, <1>2, <1>3, <1>4, <1>5 DEF Here

\* The steps that switch to nothing: only how far functions are in apply.
LEMMA StillKeeps ==
  ASSUME CoInv, Still,
         applied' \in [Func -> {"no", "asked", "tested", "sleeps"}],
         is_done' \subseteq Func, elsewhere' \subseteq Func, elsewhere \subseteq elsewhere',
         \A f \in Func : f > created => applied'[f] = "no",
         \A f \in Func : applied'[f] = "tested" /\ f \in is_done' => f \in elsewhere',
         \A f \in Func : applied'[f] = "sleeps" => applied[f] = "sleeps"
  PROVE  CoInv'
<1>1. CoTypeOK'
  BY DEF CoInv, CoTypeOK, Still
<1>2. RoutinesInv'
  BY DEF CoInv, RoutinesInv, Still
<1>3. Free' = Free /\ Here' = Here /\ Fresh' = Fresh
  BY DEF Still, Free, Here, Fresh
<1>4. SwitchInv'
  BY <1>3 DEF CoInv, SwitchInv, Still
<1>5. FlatInv'
  BY <1>3 DEF CoInv, FlatInv, Still
<1>6. ReturnsOnce'
  BY <1>3 DEF CoInv, ReturnsOnce, Still
<1>7. SleepsUnanswered'
  <2>1. 1 .. created \subseteq Func
    <3>1. created \in 0 .. MaxFuncs /\ MaxFuncs \in Nat
      BY CoroutineAssumption DEF CoInv, CoTypeOK
    <3> QED BY <3>1 DEF Func
  <2> QED BY <2>1 DEF CoInv, SleepsUnanswered, Still
<1> QED BY <1>1, <1>2, <1>4, <1>5, <1>6, <1>7 DEF CoInv

LEMMA ApplyType ==
  ASSUME CoInv
  PROVE  /\ applied \in [Func -> {"no", "asked", "tested", "sleeps"}]
         /\ is_done \subseteq Func /\ elsewhere \subseteq Func /\ created \in Nat
         /\ \A f \in Func : f \in Nat
         /\ \A f \in Func : f > created => applied[f] = "no"
         /\ \A f \in Func : applied[f] = "tested" /\ f \in is_done => f \in elsewhere
BY DEF CoInv, CoTypeOK, RoutinesInv, Func

LEMMA AskKeeps == CoInv /\ Ask => CoInv'
<1> SUFFICES ASSUME CoInv, Ask PROVE CoInv'
  OBVIOUS
<1>1. Here \in Func /\ Here <= created
  BY HereRuns DEF Ask
<1> DEFINE x == Here
<1>2. /\ applied' = [applied EXCEPT ![x] = "asked"] /\ Still /\ elsewhere' = elsewhere
      /\ is_done' \in {is_done \ {x}, is_done \cup {x}}
  BY DEF Ask
<1>3. x \in Func /\ x <= created
  BY <1>1
<1> HIDE DEF x
<1>4. applied' \in [Func -> {"no", "asked", "tested", "sleeps"}] /\ is_done' \subseteq Func
  BY <1>2, <1>3, ApplyType
<1>5. \A f \in Func : applied'[f] = IF f = x THEN "asked" ELSE applied[f]
  BY <1>2, <1>3, ApplyType
<1>6. \A f \in Func : f # x => (f \in is_done' <=> f \in is_done)
  BY <1>2
<1>7. \A f \in Func : f > created => applied'[f] = "no"
  BY <1>3, <1>5, ApplyType
<1>8. \A f \in Func : applied'[f] = "tested" /\ f \in is_done' => f \in elsewhere'
  BY <1>2, <1>5, <1>6, ApplyType
<1>9. \A f \in Func : applied'[f] = "sleeps" => applied[f] = "sleeps"
  BY <1>5
<1> QED BY <1>2, <1>4, <1>7, <1>8, <1>9, ApplyType, StillKeeps

LEMMA TestKeeps == CoInv /\ Test_ => CoInv'
<1> SUFFICES ASSUME CoInv, Test_ PROVE CoInv'
  OBVIOUS
<1>1. Here \in Func /\ Here <= created
  BY HereRuns DEF Test_
<1> DEFINE x == Here
<1>2. /\ applied' = [applied EXCEPT ![x] = Tested(x)] /\ Still
      /\ elsewhere' = elsewhere /\ is_done' = is_done
  BY DEF Test_
<1>3. x \in Func /\ x <= created
  BY <1>1
<1> HIDE DEF x
<1>4. Tested(x) \in {"no", "tested"} /\ (Tested(x) = "tested" => x \notin is_done)
  BY DEF Tested
<1>5. applied' \in [Func -> {"no", "asked", "tested", "sleeps"}]
  BY <1>2, <1>3, <1>4, ApplyType
<1>6. \A f \in Func : applied'[f] = IF f = x THEN Tested(x) ELSE applied[f]
  BY <1>2, <1>3, ApplyType
<1>7. \A f \in Func : f > created => applied'[f] = "no"
  BY <1>3, <1>6, ApplyType
<1>8. \A f \in Func : applied'[f] = "tested" /\ f \in is_done' => f \in elsewhere'
  BY <1>2, <1>4, <1>6, ApplyType
<1>9. \A f \in Func : applied'[f] = "sleeps" => applied[f] = "sleeps"
  BY <1>4, <1>6
<1> QED BY <1>2, <1>5, <1>7, <1>8, <1>9, ApplyType, StillKeeps

LEMMA DoneElsewhereKeeps == CoInv /\ DoneElsewhere => CoInv'
<1> SUFFICES ASSUME CoInv, DoneElsewhere PROVE CoInv'
  OBVIOUS
<1>1. Here \in Func
  BY HereRuns DEF DoneElsewhere
<1>2. /\ applied' = applied /\ Still /\ is_done' = is_done \cup {Here}
      /\ elsewhere' = IF applied[Here] = "tested" THEN elsewhere \cup {Here} ELSE elsewhere
  BY DEF DoneElsewhere
<1>3. is_done' \subseteq Func /\ elsewhere' \subseteq Func /\ elsewhere \subseteq elsewhere'
  BY <1>1, <1>2, ApplyType
<1>4. \A f \in Func : applied'[f] = "tested" /\ f \in is_done' => f \in elsewhere'
  BY <1>2, ApplyType
<1> QED BY <1>2, <1>3, <1>4, ApplyType, StillKeeps

\* What a switch does to the stacks.
LEMMA Gone ==
  ASSUME CoTypeOK, NEW to \in Context, GoOn(to)
  PROVE  /\ running' = to.stack /\ running' \in Stack /\ broken' \in BOOLEAN
         /\ broken' = (to.age # age[to.stack])
         /\ age' \in [Stack -> Nat] /\ age'[to.stack] = age[to.stack] + 1
         /\ \A s \in Stack : s # to.stack => age'[s] = age[s]
<1>1. to.stack \in Stack /\ to.age \in Nat /\ age \in [Stack -> Nat]
  BY DEF CoTypeOK, Context
<1>2. age' = [age EXCEPT ![to.stack] = age[to.stack] + 1]
  BY DEF GoOn
<1>3. age[to.stack] \in Nat
  BY <1>1
<1> QED BY <1>1, <1>2, <1>3 DEF GoOn

LEMMA ButLast ==
  ASSUME NEW S, NEW q \in Seq(S)
  PROVE  SubSeq(q, 1, Len(q) - 1) \in Seq(S)
OBVIOUS

LEMMA InContext ==
  ASSUME NEW s \in Stack, NEW a \in Nat
  PROVE  /\ [stack |-> s, age |-> a] \in Context
         /\ [stack |-> s, age |-> a].stack = s /\ [stack |-> s, age |-> a].age = a
BY DEF Context

\* A function yields: what Yield and YieldApply have in common.
LEMMA YieldedKeeps ==
  ASSUME CoInv, ~broken, running # 0, Yielded,
         applied' \in [Func -> {"no", "asked", "tested", "sleeps"}],
         \A f \in Func : f # Here => applied'[f] = applied[f],
         applied'[Here] # "tested",
         \/ handles' = handles \cup {Mine}
         \/ handles' = handles /\ Here \in elsewhere
  PROVE  CoInv'
<1> DEFINE x == Here  z == main_ctx.stack
<1>1. /\ running \in Func /\ running <= routines /\ x \in Func /\ x <= created
      /\ x \in 1 .. created /\ x = func_[running]
      /\ current_routine \in Func /\ current_routine <= routines
  BY HereRuns
<1>2. /\ main_ctx \in Context /\ z \in Stack /\ main_ctx.age \in Nat /\ age[z] \in Nat
      /\ routines \in Nat /\ created \in Nat /\ running \in Nat /\ MaxFuncs \in Nat
      /\ \A r \in Func : r \in Stack /\ r \in Nat /\ r # 0
      /\ \A h \in handles : h.func \in Func /\ h.routine \in Func
  <2>1. /\ z \in Stack /\ main_ctx.age \in Nat /\ age[z] \in Nat
        /\ routines \in Nat /\ created \in Nat /\ running \in Nat /\ MaxFuncs \in Nat
        /\ \A h \in handles : h.func \in Func /\ h.routine \in Func
    BY CoTypes DEF CoInv
  <2>2. \A r \in Func : r \in Stack /\ r \in Nat /\ r # 0
    BY <2>1 DEF Func, Stack
  <2> QED BY <2>1, <2>2 DEF CoInv, CoTypeOK
<1>3. /\ running' = z /\ broken' \in BOOLEAN /\ (broken' <=> ~Fresh)
      /\ age' \in [Stack -> Nat] /\ age'[z] = age[z] + 1
      /\ \A s \in Stack : s # z => age'[s] = age[s]
  BY <1>2, Gone DEF Yielded, Fresh, CoInv
<1>4. /\ UNCHANGED <<main_ctx, current_routine, creater, routines, func_, is_done, created,
                     finished, nested, elsewhere>>
      /\ current_ctx' = 0 /\ yields' = yields + 1 /\ yields < MaxYields
      /\ meant' = SubSeq(meant, 1, Len(meant) - 1)
      /\ ctx_' = [ctx_ EXCEPT ![current_routine] = Saved]
  BY DEF Yielded
<1>5. /\ Saved \in Context /\ Saved.stack = running /\ Saved.age = age[running]
  <2>1. running \in Stack /\ age[running] \in Nat
    BY <1>1, <1>2, CoTypes DEF CoInv
  <2> QED BY <2>1, InContext DEF Saved
<1>6. /\ ctx_' \in [Func -> Context] /\ ctx_'[current_routine] = Saved
      /\ \A r \in Func : r # current_routine => ctx_'[r] = ctx_[r]
  <2>1. ctx_ \in [Func -> Context]
    BY DEF CoInv, CoTypeOK
  <2> QED BY <2>1, <1>1, <1>4, <1>5
<1>7. Mine \in [func : Func, routine : Func] /\ Mine.func = x /\ Mine.routine = current_routine
  BY <1>1 DEF Mine
<1>8. handles' \subseteq handles \cup {Mine} /\ handles \subseteq handles'
      /\ \A h \in handles' : h \in handles \/ h = Mine
  OBVIOUS
<1>9. Free' = Free
  BY <1>4 DEF Free
<1>10. ~broken' => /\ current_routine = running /\ current_ctx = running /\ z # running
                   /\ z \notin Free /\ \A h \in handles : h.routine # z
  BY <1>3 DEF CoInv, SwitchInv
<1>11. ~Fresh' \/ broken'
  BY <1>2, <1>3, <1>4 DEF Fresh
<1> HIDE DEF x
<1>12. CoTypeOK'
  <2>1. handles' \subseteq [func : Func, routine : Func]
    BY <1>7, <1>8 DEF CoInv, CoTypeOK
  <2>2. meant' \in Seq(Func)
    BY <1>4, ButLast DEF CoInv, CoTypeOK
  <2>3. yields' \in 0 .. MaxYields
    <3>1. yields \in 0 .. MaxYields /\ MaxYields \in Nat
      BY CoroutineAssumption DEF CoInv, CoTypeOK
    <3> QED BY <3>1, <1>4
  <2>4. current_ctx' \in Stack /\ running' \in Stack
    BY <1>2, <1>3, <1>4 DEF Stack
  <2> QED BY <2>1, <2>2, <2>3, <2>4, <1>3, <1>4, <1>6 DEF CoInv, CoTypeOK
<1>13. RoutinesInv'
  <2>1. running' <= routines'
    BY <1>3, <1>4 DEF CoInv, RoutinesInv
  <2>2. \A h \in handles' : h.routine <= routines'
    BY <1>1, <1>4, <1>7, <1>8 DEF CoInv, RoutinesInv
  <2>3. \A f \in Func : f > created' => applied'[f] = "no"
    <3>1. \A f \in Func : f > created => f # x
      BY <1>1, <1>2
    <3> QED BY <3>1, <1>4 DEF CoInv, RoutinesInv, x
  <2>4. \A f \in Func : applied'[f] = "tested" /\ f \in is_done' => f \in elsewhere'
    BY <1>4 DEF CoInv, RoutinesInv
  <2>5. current_routine # 0
    BY <1>1, <1>2
  <2> QED BY <2>1, <2>2, <2>3, <2>4, <2>5, <1>4 DEF CoInv, RoutinesInv
<1>14. SwitchInv'
  <2> SUFFICES ASSUME ~broken'
               PROVE  /\ \A r \in Func : ctx_'[r].stack = r
                      /\ \A i, j \in 1 .. Len(creater') : creater'[i] = creater'[j] => i = j
                      /\ running' \notin Free'
                      /\ \A h \in handles' : h.routine \notin Free' /\ h.routine # running'
                      /\ \A h, g \in handles' : h.routine = g.routine => h = g
    BY <1>11 DEF SwitchInv
  <2>1. /\ \A r \in Func : ctx_[r].stack = r
        /\ \A i, j \in 1 .. Len(creater) : creater[i] = creater[j] => i = j
        /\ running \notin Free
        /\ \A h \in handles : h.routine \notin Free /\ h.routine # running
        /\ \A h, g \in handles : h.routine = g.routine => h = g
    BY DEF CoInv, SwitchInv
  <2>2. \A r \in Func : ctx_'[r].stack = r
    BY <2>1, <1>5, <1>6, <1>10
  <2>3. \A h \in handles' : h.routine \notin Free' /\ h.routine # running'
    BY <2>1, <1>3, <1>7, <1>8, <1>9, <1>10
  <2>4. \A h, g \in handles' : h.routine = g.routine => h = g
    BY <2>1, <1>7, <1>8, <1>10
  <2> QED BY <2>1, <2>2, <2>3, <2>4, <1>3, <1>4, <1>9, <1>10
<1>15. ASSUME ~nested
       PROVE  /\ ~broken' /\ z = 0 /\ running' = 0 /\ Here' = 0 /\ meant' = <<>>
              /\ current_routine = running
  <2>1. meant = <<func_[running]>> /\ main_ctx = [stack |-> 0, age |-> age[0]]
    BY <1>15 DEF CoInv, FlatInv
  <2>2. z = 0 /\ Fresh
    BY <2>1 DEF Fresh
  <2>3. meant' = <<>>
    BY <2>1, <1>4
  <2> QED BY <2>2, <2>3, <1>3, <1>10 DEF Here
<1>16. FlatInv'
  <2> SUFFICES ASSUME ~nested
               PROVE  /\ \A h \in handles' : /\ func_[h.routine] = h.func
                                             /\ ctx_'[h.routine].age = age'[h.routine]
                      /\ \A r \in Func : r \in Free \/ r > routines => ctx_'[r].age = age'[r]
                      /\ \A i \in 1 .. Len(finished) :
                           /\ finished[i] \in 1 .. created /\ finished[i] # 0
                           /\ \A h \in handles' : finished[i] # h.func
                      /\ \A h \in handles' : h.func # 0 /\ h.func <= created
                      /\ \A h, g \in handles' : h.func = g.func => h = g
    BY <1>4, <1>9, <1>15 DEF FlatInv
  <2>1. /\ \A h \in handles : func_[h.routine] = h.func /\ ctx_[h.routine].age = age[h.routine]
        /\ \A r \in Func : r \in Free \/ r > routines => ctx_[r].age = age[r]
        /\ \A i \in 1 .. Len(finished) : finished[i] \in 1 .. created /\ finished[i] # x
                                         /\ \A h \in handles : finished[i] # h.func
        /\ \A h \in handles : h.func # x /\ h.func <= created
        /\ \A h, g \in handles : h.func = g.func => h = g
    BY DEF CoInv, FlatInv, x
  <2>2. running \notin Free /\ \A h \in handles : h.routine # running
    BY DEF CoInv, SwitchInv
  <2>3. \A r \in Func : age'[r] = age[r]
    BY <1>2, <1>3, <1>15
  <2>4. ctx_'[running].age = age'[running] /\ func_[running] = x
    BY <1>1, <1>5, <1>6, <1>15, <2>3
  <2>5. \A r \in Func : r # running => ctx_'[r] = ctx_[r]
    BY <1>6, <1>15
  <2>6. \A h \in handles' : func_[h.routine] = h.func /\ ctx_'[h.routine].age = age'[h.routine]
    BY <2>1, <2>2, <2>3, <2>4, <2>5, <1>2, <1>7, <1>8, <1>15
  <2>7. \A r \in Func : r \in Free \/ r > routines => ctx_'[r].age = age'[r]
    <3>1. \A r \in Func : r > routines => r # running
      BY <1>1, <1>2
    <3> QED BY <3>1, <2>1, <2>2, <2>3, <2>5
  <2>8. \A i \in 1 .. Len(finished) : /\ finished[i] \in 1 .. created /\ finished[i] # 0
                                      /\ \A h \in handles' : finished[i] # h.func
    BY <2>1, <1>2, <1>7, <1>8
  <2>9. \A h \in handles' : h.func # 0 /\ h.func <= created
    BY <2>1, <1>1, <1>2, <1>7, <1>8
  <2>10. \A h, g \in handles' : h.func = g.func => h = g
    BY <2>1, <1>7, <1>8
  <2> QED BY <2>6, <2>7, <2>8, <2>9, <2>10
<1>17. ReturnsOnce'
  <2> SUFFICES ASSUME ~nested, NEW f \in 1 .. created
               PROVE  \/ \E i \in 1 .. Len(finished) : finished[i] = f
                      \/ f \in elsewhere
                      \/ \E h \in handles' : h.func = f /\ func_[h.routine] = f
    BY <1>4 DEF CoInv, ReturnsOnce
  <2>1. CASE f = x
    <3>1. func_[Mine.routine] = x
      BY <1>1, <1>7, <1>15
    <3> QED BY <2>1, <3>1, <1>7 DEF x
  <2>2. CASE f # x
    BY <2>2, <1>8 DEF CoInv, ReturnsOnce, x
  <2> QED BY <2>1, <2>2
<1>18. SleepsUnanswered'
  <2> SUFFICES ASSUME NEW f \in 1 .. created, applied'[f] = "sleeps"
               PROVE  f \in elsewhere \/ nested \/ \E h \in handles' : h.func = f
    BY <1>4 DEF SleepsUnanswered
  <2>1. CASE f = x
    BY <2>1, <1>7 DEF x
  <2>2. CASE f # x
    <3>1. f \in Func
      <4>1. created \in 0 .. MaxFuncs
        BY DEF CoInv, CoTypeOK
      <4> QED BY <4>1, <1>2 DEF Func
    <3>2. applied[f] = "sleeps"
      BY <2>2, <3>1 DEF x
    <3> QED BY <3>2, <1>8 DEF CoInv, SleepsUnanswered
  <2> QED BY <2>1, <2>2
<1> QED BY <1>12, <1>13, <1>14, <1>16, <1>17, <1>18 DEF CoInv

LEMMA YieldKeeps == CoInv /\ Yield => CoInv'
<1> SUFFICES ASSUME CoInv, Yield PROVE CoInv'
  OBVIOUS
<1> QED BY ApplyType, YieldedKeeps DEF Yield, Runs

LEMMA YieldApplyKeeps == CoInv /\ YieldApply => CoInv'
<1> SUFFICES ASSUME CoInv, YieldApply PROVE CoInv'
  OBVIOUS
<1>1. Here \in Func
  BY HereRuns DEF YieldApply
<1> DEFINE x == Here
<1>2. /\ applied' = [applied EXCEPT ![x] = "sleeps"] /\ x \in Func /\ applied[x] = "tested"
      /\ handles' = IF x \in is_done THEN handles ELSE handles \cup {Mine}
  BY <1>1 DEF YieldApply
<1> HIDE DEF x
<1>3. /\ applied' \in [Func -> {"no", "asked", "tested", "sleeps"}]
      /\ \A f \in Func : f # x => applied'[f] = applied[f]
      /\ applied'[x] # "tested"
  BY <1>2, ApplyType
<1>4. \/ handles' = handles \cup {Mine}
      \/ handles' = handles /\ x \in elsewhere
  BY <1>2, ApplyType
<1> QED BY <1>3, <1>4, YieldedKeeps DEF YieldApply, Runs, x

\* No more routines are free than were made.
LEMMA FewFree ==
  ASSUME NEW n \in Nat, NEW q \in Seq(1 .. n),
         \A i, j \in 1 .. Len(q) : q[i] = q[j] => i = j
  PROVE  Len(q) <= n
<1>1. Len(q) \in Nat /\ q \in [1 .. Len(q) -> 1 .. n]
  OBVIOUS
<1>2. q \in Injection(1 .. Len(q), 1 .. n)
  BY <1>1 DEF Injection, IsInjective
<1>3. IsFiniteSet(1 .. n) /\ Cardinality(1 .. n) = n
      /\ IsFiniteSet(1 .. Len(q)) /\ Cardinality(1 .. Len(q)) = Len(q)
  <2>1. \A m \in Nat : IsFiniteSet(1 .. m) /\ Cardinality(1 .. m) = m
    <3> SUFFICES ASSUME NEW m \in Nat
                 PROVE  IsFiniteSet(1 .. m) /\ Cardinality(1 .. m) = m
      OBVIOUS
    <3>1. /\ IsFiniteSet(1 .. m)
          /\ Cardinality(1 .. m) = IF 1 > m THEN 0 ELSE m - 1 + 1
      BY FS_Interval
    <3> QED BY <3>1
  <2> QED BY <2>1, <1>1
<1>4. Cardinality(1 .. Len(q)) <= Cardinality(1 .. n)
  BY <1>2, <1>3, FS_Injection
<1> QED BY <1>3, <1>4

LEMMA Appended ==
  ASSUME NEW S, NEW q \in Seq(S), NEW e \in S
  PROVE  /\ Append(q, e) \in Seq(S) /\ Len(Append(q, e)) = Len(q) + 1 /\ Len(q) \in Nat
         /\ Append(q, e)[Len(q) + 1] = e
         /\ \A i \in 1 .. Len(q) : Append(q, e)[i] = q[i]
OBVIOUS

LEMMA ReturnKeeps == CoInv /\ Return_ => CoInv'
<1> SUFFICES ASSUME CoInv, Return_ PROVE CoInv'
  OBVIOUS
<1> DEFINE x == Here  z == main_ctx.stack
           n == Len(creater)  m == Len(finished)
<1>1. /\ running # 0 /\ running \in Func /\ running <= routines /\ running \in 1 .. routines
      /\ x \in Func /\ x <= created /\ x \in 1 .. created /\ x = func_[running]
      /\ current_routine \in Func /\ current_routine <= routines
  BY HereRuns DEF Return_
<1>2. /\ main_ctx \in Context /\ z \in Stack /\ main_ctx.age \in Nat /\ age[z] \in Nat
      /\ routines \in Nat /\ created \in Nat /\ running \in Nat /\ MaxFuncs \in Nat
      /\ \A r \in Func : r \in Stack /\ r \in Nat /\ r # 0
      /\ \A h \in handles : h.func \in Func /\ h.routine \in Func
  <2>1. /\ z \in Stack /\ main_ctx.age \in Nat /\ age[z] \in Nat
        /\ routines \in Nat /\ created \in Nat /\ running \in Nat /\ MaxFuncs \in Nat
        /\ \A h \in handles : h.func \in Func /\ h.routine \in Func
    BY CoTypes DEF CoInv
  <2>2. \A r \in Func : r \in Stack /\ r \in Nat /\ r # 0
    BY <2>1 DEF Func, Stack
  <2> QED BY <2>1, <2>2 DEF CoInv, CoTypeOK
<1>3. /\ ~broken /\ running' = z /\ broken' \in BOOLEAN
      /\ (broken' <=> (current_ctx = 0 \/ ~Fresh))
      /\ age' \in [Stack -> Nat] /\ age'[z] = age[z] + 1
      /\ \A s \in Stack : s # z => age'[s] = age[s]
  <2>1. age \in [Stack -> Nat] /\ age' = [age EXCEPT ![z] = age[z] + 1]
    BY DEF Return_, CoInv, CoTypeOK
  <2>2. broken' = (current_ctx = 0 \/ main_ctx.age # age[z])
    BY DEF Return_
  <2>3. broken' \in BOOLEAN /\ (broken' <=> (current_ctx = 0 \/ ~Fresh))
    BY <2>2, Zenon DEF Fresh
  <2>4. ~broken /\ running' = z
    BY DEF Return_, Runs
  <2> QED BY <2>1, <2>3, <2>4, <1>2
<1>4. /\ UNCHANGED <<main_ctx, current_ctx, current_routine, routines, func_, handles,
                     applied, is_done, created, yields, nested, elsewhere>>
      /\ meant' = SubSeq(meant, 1, Len(meant) - 1)
      /\ creater' = Append(creater, running) /\ finished' = Append(finished, x)
      /\ ctx_' = [r \in Func |-> IF r = current_ctx THEN Saved ELSE ctx_[r]]
  BY DEF Return_
<1>5. /\ Saved \in Context /\ Saved.stack = running /\ Saved.age = age[running]
  <2>1. running \in Stack /\ age[running] \in Nat
    BY <1>1, <1>2, CoTypes DEF CoInv
  <2> QED BY <2>1, InContext DEF Saved
<1>6. /\ ctx_' \in [Func -> Context] /\ \A r \in Func : r = current_ctx => ctx_'[r] = Saved
      /\ \A r \in Func : r # current_ctx => ctx_'[r] = ctx_[r]
  <2>1. ctx_ \in [Func -> Context]
    BY DEF CoInv, CoTypeOK
  <2> QED BY <2>1, <1>4, <1>5
<1>7. /\ creater' \in Seq(1 .. routines) /\ Len(creater') = n + 1 /\ n \in Nat
      /\ creater'[n + 1] = running /\ \A i \in 1 .. n : creater'[i] = creater[i]
  <2>1. creater \in Seq(1 .. routines)
    BY DEF CoInv, CoTypeOK
  <2> QED BY <2>1, <1>1, <1>4, Appended
<1>8. /\ finished' \in Seq(Func) /\ Len(finished') = m + 1 /\ m \in Nat
      /\ finished'[m + 1] = x /\ \A i \in 1 .. m : finished'[i] = finished[i]
  BY <1>1, <1>4, Appended DEF CoInv, CoTypeOK
<1>9. /\ \A i, j \in 1 .. n : creater[i] = creater[j] => i = j
      /\ \A i \in 1 .. n : creater[i] # running
      /\ \A h \in handles : h.routine \notin Free /\ h.routine # running
      /\ \A h, g \in handles : h.routine = g.routine => h = g
      /\ \A r \in Func : ctx_[r].stack = r
  BY <1>3 DEF CoInv, SwitchInv, Free
<1> HIDE DEF x, n, m
<1>10. Free' = Free \cup {running}
  <2>1. \A i \in 1 .. n + 1 : i \in 1 .. n \/ i = n + 1
    BY <1>7
  <2>2. n + 1 \in 1 .. n + 1 /\ \A i \in 1 .. n : i \in 1 .. n + 1
    BY <1>7
  <2>3. Free = {creater[i] : i \in 1 .. n} /\ Free' = {creater'[i] : i \in 1 .. n + 1}
    BY <1>7 DEF Free, n
  <2> QED BY <2>1, <2>2, <2>3, <1>7
<1>11. \A i, j \in 1 .. Len(creater') : creater'[i] = creater'[j] => i = j
  <2> SUFFICES ASSUME NEW i \in 1 .. n + 1, NEW j \in 1 .. n + 1, creater'[i] = creater'[j]
               PROVE  i = j
    BY <1>7
  <2>1. /\ i = n + 1 \/ i \in 1 .. n
        /\ j = n + 1 \/ j \in 1 .. n
    BY <1>7
  <2> QED BY <2>1, <1>7, <1>9
<1>12. ~broken' => /\ current_routine = running /\ current_ctx = running /\ z # running
                   /\ z \notin Free /\ \A h \in handles : h.routine # z
  BY <1>1, <1>3 DEF CoInv, SwitchInv
<1>13. ~Fresh' \/ broken'
  BY <1>2, <1>3, <1>4 DEF Fresh
<1>14. CoTypeOK'
  <2>1. meant' \in Seq(Func)
    BY <1>4, ButLast DEF CoInv, CoTypeOK
  <2>2. Len(creater') <= routines'
    BY <1>2, <1>4, <1>7, <1>11, FewFree
  <2> QED BY <2>1, <2>2, <1>2, <1>3, <1>4, <1>6, <1>7, <1>8 DEF CoInv, CoTypeOK
<1>15. RoutinesInv'
  <2>1. running' <= routines'
    BY <1>3, <1>4 DEF CoInv, RoutinesInv
  <2>2. current_routine # 0
    BY <1>1, <1>2
  <2> QED BY <2>1, <2>2, <1>4 DEF CoInv, RoutinesInv
<1>16. SwitchInv'
  <2> SUFFICES ASSUME ~broken'
               PROVE  /\ \A r \in Func : ctx_'[r].stack = r
                      /\ \A i, j \in 1 .. Len(creater') : creater'[i] = creater'[j] => i = j
                      /\ running' \notin Free'
                      /\ \A h \in handles' : h.routine \notin Free' /\ h.routine # running'
                      /\ \A h, g \in handles' : h.routine = g.routine => h = g
    BY <1>13 DEF SwitchInv
  <2>1. \A r \in Func : ctx_'[r].stack = r
    BY <1>5, <1>6, <1>9, <1>12
  <2>2. running' \notin Free'
    BY <1>3, <1>10, <1>12
  <2>3. \A h \in handles' : h.routine \notin Free' /\ h.routine # running'
    BY <1>3, <1>4, <1>9, <1>10, <1>12
  <2> QED BY <2>1, <2>2, <2>3, <1>4, <1>9, <1>11
<1>17. ASSUME ~nested
       PROVE  /\ ~broken' /\ z = 0 /\ running' = 0 /\ Here' = 0 /\ meant' = <<>>
              /\ current_ctx = running
  <2>1. meant = <<func_[running]>> /\ main_ctx = [stack |-> 0, age |-> age[0]]
    BY <1>1, <1>17 DEF CoInv, FlatInv
  <2>2. z = 0 /\ Fresh
    BY <2>1 DEF Fresh
  <2>3. meant' = <<>>
    BY <2>1, <1>4
  <2>4. current_ctx = running
    BY <2>2, <1>3 DEF CoInv, SwitchInv
  <2> QED BY <2>2, <2>3, <2>4, <1>1, <1>3 DEF Here
<1>18. FlatInv'
  <2> SUFFICES ASSUME ~nested
               PROVE  /\ \A h \in handles : /\ func_[h.routine] = h.func
                                            /\ ctx_'[h.routine].age = age'[h.routine]
                      /\ \A r \in Func : r \in Free' \/ r > routines => ctx_'[r].age = age'[r]
                      /\ \A i \in 1 .. m + 1 :
                           /\ finished'[i] \in 1 .. created /\ finished'[i] # 0
                           /\ \A h \in handles : finished'[i] # h.func
                      /\ \A h \in handles : h.func # 0 /\ h.func <= created
                      /\ \A h, g \in handles : h.func = g.func => h = g
    BY <1>4, <1>8, <1>17 DEF FlatInv
  <2>1. /\ \A h \in handles : func_[h.routine] = h.func /\ ctx_[h.routine].age = age[h.routine]
        /\ \A r \in Func : r \in Free \/ r > routines => ctx_[r].age = age[r]
        /\ \A i \in 1 .. m : finished[i] \in 1 .. created /\ finished[i] # x
                             /\ \A h \in handles : finished[i] # h.func
        /\ \A h \in handles : h.func # x /\ h.func <= created
        /\ \A h, g \in handles : h.func = g.func => h = g
    BY DEF CoInv, FlatInv, x, m
  <2>2. \A r \in Func : age'[r] = age[r]
    BY <1>2, <1>3, <1>17
  <2>3. ctx_'[running].age = age'[running]
    BY <1>1, <1>5, <1>6, <1>17, <2>2
  <2>4. \A r \in Func : r # running => ctx_'[r] = ctx_[r]
    BY <1>6, <1>17
  <2>5. \A h \in handles : func_[h.routine] = h.func /\ ctx_'[h.routine].age = age'[h.routine]
    BY <2>1, <2>2, <2>4, <1>2, <1>9
  <2>6. \A r \in Func : r \in Free' \/ r > routines => ctx_'[r].age = age'[r]
    BY <2>1, <2>2, <2>3, <2>4, <1>10
  <2>7. \A i \in 1 .. m + 1 : /\ finished'[i] \in 1 .. created /\ finished'[i] # 0
                              /\ \A h \in handles : finished'[i] # h.func
    <3> SUFFICES ASSUME NEW i \in 1 .. m + 1
                 PROVE  /\ finished'[i] \in 1 .. created /\ finished'[i] # 0
                        /\ \A h \in handles : finished'[i] # h.func
      OBVIOUS
    <3>1. i = m + 1 \/ i \in 1 .. m
      BY <1>8
    <3> QED BY <3>1, <2>1, <1>1, <1>2, <1>8
  <2>8. \A h \in handles : h.func # 0
    BY <1>2
  <2> QED BY <2>1, <2>5, <2>6, <2>7, <2>8
<1>19. ReturnsOnce'
  <2> SUFFICES ASSUME ~nested
               PROVE  /\ IsInjective(finished')
                      /\ \A f \in 1 .. created :
                           \/ \E i \in 1 .. m + 1 : finished'[i] = f
                           \/ f \in elsewhere
                           \/ \E h \in handles : h.func = f /\ func_[h.routine] = f
    BY <1>4, <1>8 DEF ReturnsOnce
  <2>1. \A i, j \in 1 .. m : finished[i] = finished[j] => i = j
    BY DEF CoInv, ReturnsOnce, IsInjective, CoTypeOK, m
  <2>2. \A i \in 1 .. m : finished[i] # x
    BY DEF CoInv, FlatInv, x, m
  <2>3. IsInjective(finished')
    <3>1. DOMAIN finished' = 1 .. m + 1
      BY <1>8
    <3> SUFFICES ASSUME NEW i \in 1 .. m + 1, NEW j \in 1 .. m + 1, finished'[i] = finished'[j]
                 PROVE  i = j
      BY <3>1 DEF IsInjective
    <3>2. /\ i = m + 1 \/ i \in 1 .. m
          /\ j = m + 1 \/ j \in 1 .. m
      BY <1>8
    <3> QED BY <3>2, <2>1, <2>2, <1>8
  <2>4. ASSUME NEW f \in 1 .. created
        PROVE  \/ \E i \in 1 .. m + 1 : finished'[i] = f
               \/ f \in elsewhere
               \/ \E h \in handles : h.func = f /\ func_[h.routine] = f
    <3>1. CASE f = x
      <4>1. m + 1 \in 1 .. m + 1
        BY <1>8
      <4> QED BY <3>1, <4>1, <1>8
    <3>2. CASE \E i \in 1 .. m : finished[i] = f
      <4>1. PICK i \in 1 .. m : finished[i] = f
        BY <3>2
      <4>2. i \in 1 .. m + 1 /\ finished'[i] = f
        BY <4>1, <1>8
      <4> QED BY <4>2
    <3> QED BY <3>1, <3>2 DEF CoInv, ReturnsOnce, x, m
  <2> QED BY <2>3, <2>4
<1>20. SleepsUnanswered'
  BY <1>4 DEF CoInv, SleepsUnanswered
<1> QED BY <1>14, <1>15, <1>16, <1>18, <1>19, <1>20 DEF CoInv

\* routine_swicher: what Create and Resume have in common.
LEMMA Switched ==
  ASSUME CoInv, ~broken, NEW r \in Func, r # running, SwitchTo(r), GoOn(ctx_[r]), ctx_' = ctx_,
         r \notin Free', Free' \subseteq Free, handles' \subseteq handles,
         \A h \in handles' : h.routine # r,
         \A i, j \in 1 .. Len(creater') : creater'[i] = creater'[j] => i = j
  PROVE  /\ running' = r /\ current_routine' = r /\ current_ctx' = r /\ r \in Stack /\ r # 0
         /\ age' \in [Stack -> Nat] /\ main_ctx' \in Context /\ main_ctx'.stack = running
         /\ broken' \in BOOLEAN /\ nested' \in BOOLEAN /\ (nested => nested')
         /\ (broken' <=> ctx_[r].age # age[r])
         /\ \A s \in Func : s # r => age'[s] = age[s]
         /\ ~nested' => /\ ~nested /\ running = 0 /\ meant = <<>> /\ Here = 0
                        /\ main_ctx' = [stack |-> 0, age |-> age'[0]]
         /\ SwitchInv'
<1>1. /\ r \in Stack /\ r # 0 /\ running \in Stack /\ age[running] \in Nat /\ ctx_[r] \in Context
      /\ \A s \in Func : s \in Stack
  <2>1. MaxFuncs \in Nat /\ running \in Stack
    BY CoTypes DEF CoInv, CoTypeOK
  <2>2. \A s \in Func : s \in Stack /\ s # 0
    BY <2>1 DEF Func, Stack
  <2> QED BY <2>1, <2>2, CoTypes DEF CoInv
<1>2. /\ \A s \in Func : ctx_[s].stack = s
      /\ running \notin Free /\ \A h \in handles : h.routine \notin Free /\ h.routine # running
      /\ \A h, g \in handles : h.routine = g.routine => h = g
  BY DEF CoInv, SwitchInv
<1>3. ctx_[r].stack = r
  BY <1>2
<1>4. /\ running' = r /\ broken' \in BOOLEAN /\ broken' = (ctx_[r].age # age[r])
      /\ age' \in [Stack -> Nat] /\ \A s \in Stack : s # r => age'[s] = age[s]
  BY <1>1, <1>3, Gone DEF CoInv
<1>5. /\ main_ctx' = Saved /\ current_routine' = r /\ current_ctx' = r
      /\ nested' = (nested \/ running # 0)
  BY DEF SwitchTo
<1>6. Saved \in Context /\ Saved.stack = running /\ Saved.age = age[running]
  BY <1>1, InContext DEF Saved
<1>7. Fresh'
  BY <1>1, <1>4, <1>5, <1>6 DEF Fresh
<1>8. SwitchInv'
  BY <1>2, <1>4, <1>5, <1>6, <1>7 DEF SwitchInv
<1>9. nested' \in BOOLEAN /\ (nested => nested') /\ (~nested' => ~nested /\ running = 0)
  <2>1. nested \in BOOLEAN
    BY DEF CoInv, CoTypeOK
  <2> QED BY <2>1, <1>5
<1>10. ASSUME ~nested'
       PROVE  /\ ~nested /\ running = 0 /\ meant = <<>> /\ Here = 0
              /\ main_ctx' = [stack |-> 0, age |-> age'[0]]
  <2>1. ~nested /\ running = 0
    BY <1>9, <1>10
  <2>2. meant = <<>> /\ Here = 0
    BY <2>1 DEF CoInv, FlatInv, Here
  <2>3. age'[0] = age[0]
    BY <2>1, <1>1, <1>4
  <2> QED BY <2>1, <2>2, <2>3, <1>5 DEF Saved
<1>11. \A s \in Func : s # r => age'[s] = age[s]
  BY <1>1, <1>4
<1>12. broken' <=> ctx_[r].age # age[r]
  BY <1>4
<1> QED BY <1>1, <1>4, <1>5, <1>6, <1>8, <1>9, <1>10, <1>11, <1>12

LEMMA ResumeKeeps == CoInv /\ Resume => CoInv'
<1> SUFFICES ASSUME CoInv, Resume PROVE CoInv'
  OBVIOUS
<1>1. PICK h \in handles :
        /\ handles' = handles \ {h}
        /\ SwitchTo(h.routine) /\ GoOn(ctx_[h.routine])
        /\ meant' = Append(meant, h.func)
        /\ applied' = [applied EXCEPT ![h.func] = IF @ = "sleeps" THEN "no" ELSE @]
  BY DEF Resume
<1> DEFINE r == h.routine  f == h.func
<1>2. /\ ~broken
      /\ UNCHANGED <<ctx_, creater, routines, func_, is_done, created, yields, finished,
                     elsewhere>>
  BY DEF Resume, Runs
<1>3. r \in Func /\ f \in Func /\ \A g \in handles : g.func \in Func /\ g.routine \in Func
  BY CoTypes DEF CoInv
<1>4. Free' = Free
  BY <1>2 DEF Free
<1>5. /\ r # running /\ r \notin Free /\ \A g \in handles' : g.routine # r
      /\ \A i, j \in 1 .. Len(creater) : creater[i] = creater[j] => i = j
  BY <1>1, <1>2 DEF CoInv, SwitchInv
<1>6. handles' \subseteq handles
  BY <1>1
<1>7. /\ running' = r /\ current_routine' = r /\ current_ctx' = r /\ r \in Stack /\ r # 0
      /\ age' \in [Stack -> Nat] /\ main_ctx' \in Context /\ main_ctx'.stack = running
      /\ broken' \in BOOLEAN /\ nested' \in BOOLEAN /\ (nested => nested')
      /\ (broken' <=> ctx_[r].age # age[r])
      /\ \A s \in Func : s # r => age'[s] = age[s]
      /\ ~nested' => /\ ~nested /\ running = 0 /\ meant = <<>> /\ Here = 0
                     /\ main_ctx' = [stack |-> 0, age |-> age'[0]]
      /\ SwitchInv'
  BY <1>1, <1>2, <1>3, <1>4, <1>5, <1>6, Switched
<1>8. /\ applied' \in [Func -> {"no", "asked", "tested", "sleeps"}]
      /\ \A g \in Func : g # f => applied'[g] = applied[g]
      /\ applied'[f] = IF applied[f] = "sleeps" THEN "no" ELSE applied[f]
  <2>1. applied \in [Func -> {"no", "asked", "tested", "sleeps"}]
    BY ApplyType
  <2> QED BY <2>1, <1>1, <1>3
<1>9. CoTypeOK'
  <2>1. meant' \in Seq(Func)
    BY <1>1, <1>3, Appended DEF CoInv, CoTypeOK
  <2> QED BY <2>1, <1>2, <1>6, <1>7, <1>8 DEF CoInv, CoTypeOK
<1>10. r <= routines /\ running <= routines
  BY DEF CoInv, RoutinesInv
<1>11. RoutinesInv'
  <2>1. \A g \in Func : g > created => applied'[g] = "no"
    BY <1>3, <1>8, ApplyType
  <2>2. \A g \in Func : applied'[g] = "tested" /\ g \in is_done' => g \in elsewhere'
    BY <1>2, <1>3, <1>8, ApplyType
  <2> QED BY <2>1, <2>2, <1>2, <1>6, <1>7, <1>10 DEF CoInv, RoutinesInv
<1>12. Here' = func_[r]
  BY <1>2, <1>7 DEF Here
<1>13. ASSUME ~nested'
       PROVE  /\ \A g \in handles : func_[g.routine] = g.func /\ ctx_[g.routine].age = age[g.routine]
              /\ \A s \in Func : s \in Free \/ s > routines => ctx_[s].age = age[s]
              /\ \A i \in 1 .. Len(finished) :
                   finished[i] \in 1 .. created /\ \A g \in handles : finished[i] # g.func
              /\ \A g \in handles : g.func <= created
              /\ \A g, k \in handles : g.func = k.func => g = k
              /\ func_[r] = f
  <2>1. ~nested
    BY <1>7, <1>13
  <2>2. FlatInv
    BY DEF CoInv
  <2> QED BY <2>1, <2>2 DEF FlatInv
<1>14. FlatInv'
  <2> SUFFICES ASSUME ~nested'
               PROVE  /\ ~broken' /\ meant' = <<func_[r]>>
                      /\ \A g \in handles' : /\ func_[g.routine] = g.func
                                             /\ ctx_[g.routine].age = age'[g.routine]
                      /\ \A s \in Func : s \in Free \/ s > routines => ctx_[s].age = age'[s]
                      /\ \A i \in 1 .. Len(finished) :
                           /\ finished[i] \in 1 .. created /\ finished[i] # f
                           /\ \A g \in handles' : finished[i] # g.func
                      /\ \A g \in handles' : g.func # f /\ g.func <= created
                      /\ \A g, k \in handles' : g.func = k.func => g = k
    BY <1>2, <1>4, <1>7, <1>12, <1>13 DEF FlatInv
  <2>1. ~broken' /\ meant' = <<func_[r]>>
    BY <1>1, <1>7, <1>13
  <2>2. \A g \in handles' : func_[g.routine] = g.func /\ ctx_[g.routine].age = age'[g.routine]
    BY <1>3, <1>5, <1>6, <1>7, <1>13
  <2>3. \A s \in Func : s \in Free \/ s > routines => ctx_[s].age = age'[s]
    <3>1. \A s \in Func : s > routines => s # r
      BY <1>10, CoTypes DEF CoInv, Func
    <3> QED BY <3>1, <1>5, <1>7, <1>13
  <2>4. \A g \in handles' : g.func # f
    BY <1>1, <1>13
  <2> QED BY <2>1, <2>2, <2>3, <2>4, <1>6, <1>13
<1>15. ReturnsOnce'
  <2> SUFFICES ASSUME ~nested', NEW g \in 1 .. created
               PROVE  \/ \E i \in 1 .. Len(finished) : finished[i] = g
                      \/ g = f \/ g \in elsewhere
                      \/ \E k \in handles' : k.func = g /\ func_[k.routine] = g
    BY <1>2, <1>7, <1>12, <1>13 DEF CoInv, ReturnsOnce
  <2>1. g # Here
    BY <1>7
  <2> QED BY <2>1, <1>1, <1>7 DEF CoInv, ReturnsOnce
<1>16. SleepsUnanswered'
  <2> SUFFICES ASSUME NEW g \in 1 .. created, applied'[g] = "sleeps"
               PROVE  g \in elsewhere \/ nested' \/ \E k \in handles' : k.func = g
    BY <1>2 DEF SleepsUnanswered
  <2>1. g # f
    BY <1>8
  <2>2. g \in Func
    <3>1. created \in 0 .. MaxFuncs
      BY DEF CoInv, CoTypeOK
    <3> QED BY <3>1, CoroutineAssumption DEF Func
  <2>3. applied[g] = "sleeps"
    BY <2>1, <2>2, <1>8
  <2> QED BY <2>1, <2>3, <1>1, <1>7 DEF CoInv, SleepsUnanswered
<1> QED BY <1>7, <1>9, <1>11, <1>14, <1>15, <1>16 DEF CoInv

\* What is left of the free routines when the first of them is taken.
LEMMA TakenOff ==
  ASSUME NEW S, NEW q \in Seq(S), q # <<>>,
         \A i, j \in 1 .. Len(q) : q[i] = q[j] => i = j
  PROVE  /\ Head(q) \in S /\ Head(q) = q[1] /\ 1 \in 1 .. Len(q)
         /\ Taken(q) \in Seq(S) /\ Len(Taken(q)) = Len(q) - 1 /\ Len(q) \in Nat /\ Len(q) > 0
         /\ \A i \in 1 .. Len(Taken(q)) : /\ i + 1 \in 1 .. Len(q) /\ Taken(q)[i] = q[i + 1]
                                          /\ Taken(q)[i] # Head(q)
         /\ \A i, j \in 1 .. Len(Taken(q)) : Taken(q)[i] = Taken(q)[j] => i = j
<1>1. Len(q) \in Nat /\ Len(q) > 0 /\ Head(q) = q[1] /\ q[1] \in S
  OBVIOUS
<1>2. Taken(q) \in Seq(S) /\ Len(Taken(q)) = Len(q) - 1
      /\ \A i \in 1 .. Len(q) - 1 : Taken(q)[i] = q[i + 1]
  BY <1>1 DEF Taken
<1>3. 1 \in 1 .. Len(q) /\ \A i \in 1 .. Len(Taken(q)) : i + 1 \in 1 .. Len(q) /\ i + 1 # 1
  BY <1>1, <1>2
<1>4. \A i \in 1 .. Len(Taken(q)) : Taken(q)[i] = q[i + 1] /\ Taken(q)[i] # Head(q)
  BY <1>1, <1>2, <1>3
<1>5. ASSUME NEW i \in 1 .. Len(Taken(q)), NEW j \in 1 .. Len(Taken(q)), Taken(q)[i] = Taken(q)[j]
      PROVE  i = j
  <2>1. i + 1 = j + 1
    BY <1>3, <1>4, <1>5
  <2> QED BY <2>1, <1>1, <1>2
<1> QED BY <1>1, <1>2, <1>3, <1>4, <1>5

\* The routine a function is created on.
NextRoutine == IF creater = <<>> THEN routines + 1 ELSE Head(creater)

LEMMA NextFree ==
  ASSUME CoInv, Create
  PROVE  /\ NextRoutine \in Func /\ NextRoutine # running /\ NextRoutine \notin Free' /\ Free' \subseteq Free
         /\ NextRoutine \in Free \/ NextRoutine > routines
         /\ \A h \in handles : h.routine # NextRoutine
         /\ creater' \in Seq(1 .. routines') /\ Len(creater') <= routines'
         /\ \A i, j \in 1 .. Len(creater') : creater'[i] = creater'[j] => i = j
         /\ routines' \in Stack /\ routines <= routines' /\ NextRoutine <= routines'
         /\ \A s \in Func : s <= routines' /\ s # NextRoutine => s <= routines
         /\ routines' <= created'
<1> DEFINE r == NextRoutine
<1>1. /\ MaxFuncs \in Nat /\ routines \in Nat /\ created \in Nat /\ running \in Nat
      /\ routines <= created /\ created < MaxFuncs /\ running <= routines
      /\ created' = created + 1
      /\ creater' = IF creater = <<>> THEN creater ELSE Taken(creater)
      /\ routines' = IF creater = <<>> THEN r ELSE routines
      /\ \A h \in handles : h.routine \in Nat /\ h.routine <= routines
      /\ \A s \in Func : s \in Nat
  <2>1. \A h \in handles : h.routine \in Func /\ h.routine <= routines
    BY CoTypes DEF CoInv, RoutinesInv
  <2> QED BY <2>1, CoTypes DEF CoInv, RoutinesInv, Create, NextRoutine, Func
<1>2. /\ \A i, j \in 1 .. Len(creater) : creater[i] = creater[j] => i = j
      /\ running \notin Free /\ \A h \in handles : h.routine \notin Free
  BY DEF CoInv, SwitchInv, Create, Runs
<1>3. creater \in Seq(1 .. routines) /\ Len(creater) <= routines
  BY DEF CoInv, CoTypeOK
<1>4. CASE creater = <<>>
  <2>1. r = routines + 1 /\ routines' = r /\ creater' = <<>>
    BY <1>1, <1>4 DEF NextRoutine
  <2>2. r \in Nat /\ r > 0 /\ r <= MaxFuncs /\ r > routines /\ r <= created'
    BY <1>1, <2>1
  <2>3. Free' = {} /\ Len(creater') = 0
    BY <2>1 DEF Free
  <2> HIDE DEF r
  <2>4. r \in Func /\ r \in Stack
    BY <1>1, <2>2 DEF Func, Stack
  <2>5. r # running /\ \A h \in handles : h.routine # r
    BY <1>1, <2>2
  <2>6. \A s \in Func : s <= r /\ s # r => s <= routines
    BY <1>1, <2>1
  <2>7. creater' \in Seq(1 .. routines') /\ Len(creater') <= routines'
    BY <2>1, <2>2, <2>3
  <2>8. routines <= routines' /\ r <= routines'
    BY <1>1, <2>1, <2>2
  <2> QED BY <2>1, <2>2, <2>3, <2>4, <2>5, <2>6, <2>7, <2>8 DEF r
<1>5. CASE creater # <<>>
  <2> DEFINE q == Taken(creater)
  <2>1. r = Head(creater) /\ routines' = routines /\ creater' = q
    BY <1>1, <1>5 DEF NextRoutine
  <2>2. /\ r \in 1 .. routines /\ r = creater[1] /\ 1 \in 1 .. Len(creater)
        /\ q \in Seq(1 .. routines) /\ Len(q) = Len(creater) - 1 /\ Len(creater) \in Nat
        /\ \A i \in 1 .. Len(q) : i + 1 \in 1 .. Len(creater) /\ q[i] = creater[i + 1] /\ q[i] # r
        /\ \A i, j \in 1 .. Len(q) : q[i] = q[j] => i = j
    BY <1>2, <1>3, <1>5, <2>1, TakenOff
  <2> HIDE DEF r, q
  <2>3. r \in Free /\ r \notin Free' /\ Free' \subseteq Free
    BY <2>1, <2>2 DEF Free
  <2>4. r \in Func /\ r <= routines /\ routines \in Stack
    BY <1>1, <2>2 DEF Func, Stack
  <2>5. r # running /\ \A h \in handles : h.routine # r
    BY <1>2, <2>3
  <2>6. Len(creater') <= routines' /\ routines <= routines' /\ routines' <= created'
    BY <1>1, <1>3, <2>1, <2>2
  <2> QED BY <2>1, <2>2, <2>3, <2>4, <2>5, <2>6 DEF r
<1> QED BY <1>4, <1>5

LEMMA CreateKeeps == CoInv /\ Create => CoInv'
<1> SUFFICES ASSUME CoInv, Create PROVE CoInv'
  OBVIOUS
<1> DEFINE r == NextRoutine  c == created + 1
<1>1. /\ r \in Func /\ r # running /\ r \notin Free' /\ Free' \subseteq Free
      /\ r \in Free \/ r > routines
      /\ \A h \in handles : h.routine # r
      /\ creater' \in Seq(1 .. routines') /\ Len(creater') <= routines'
      /\ \A i, j \in 1 .. Len(creater') : creater'[i] = creater'[j] => i = j
      /\ routines' \in Stack /\ routines <= routines' /\ r <= routines'
      /\ \A s \in Func : s <= routines' /\ s # r => s <= routines
      /\ routines' <= created'
  BY NextFree
<1>2. /\ ~broken /\ created < MaxFuncs /\ created' = c
      /\ func_' = [func_ EXCEPT ![r] = c] /\ SwitchTo(r) /\ GoOn(ctx_[r])
      /\ meant' = Append(meant, c)
      /\ UNCHANGED <<ctx_, handles, applied, is_done, yields, finished, elsewhere>>
  BY DEF Create, Runs, NextRoutine
<1>3. /\ created \in Nat /\ MaxFuncs \in Nat /\ routines \in Nat /\ routines' \in Nat
      /\ running \in Nat /\ main_ctx.stack \in Nat
      /\ \A s \in Func : s \in Nat /\ func_[s] \in Nat
      /\ \A h \in handles : h.func \in Func /\ h.routine \in Func
  BY <1>1, CoTypes DEF CoInv, Func, Stack
<1>4. c \in Func /\ c \in 0 .. MaxFuncs /\ c \in Nat /\ c # 0 /\ ~(c <= created) /\ created <= c
      /\ c \in 1 .. c /\ \A f \in 1 .. c : f = c \/ f \in 1 .. created
  BY <1>2, <1>3 DEF Func
<1> HIDE DEF r, c
<1>5. /\ func_' \in [Func -> 0 .. MaxFuncs] /\ func_'[r] = c
      /\ \A s \in Func : s # r => func_'[s] = func_[s]
  <2>1. func_ \in [Func -> 0 .. MaxFuncs]
    BY DEF CoInv, CoTypeOK
  <2> QED BY <2>1, <1>1, <1>2, <1>4
<1>6. /\ running' = r /\ current_routine' = r /\ current_ctx' = r /\ r \in Stack /\ r # 0
      /\ age' \in [Stack -> Nat] /\ main_ctx' \in Context /\ main_ctx'.stack = running
      /\ broken' \in BOOLEAN /\ nested' \in BOOLEAN /\ (nested => nested')
      /\ (broken' <=> ctx_[r].age # age[r])
      /\ \A s \in Func : s # r => age'[s] = age[s]
      /\ ~nested' => /\ ~nested /\ running = 0 /\ meant = <<>> /\ Here = 0
                     /\ main_ctx' = [stack |-> 0, age |-> age'[0]]
      /\ SwitchInv'
  BY <1>1, <1>2, Switched
<1>7. CoTypeOK'
  <2>1. meant' \in Seq(Func)
    BY <1>2, <1>4, Appended DEF CoInv, CoTypeOK
  <2>2. created' \in 0 .. MaxFuncs
    BY <1>2, <1>4
  <2> QED BY <2>1, <2>2, <1>1, <1>2, <1>5, <1>6 DEF CoInv, CoTypeOK
<1>8. RoutinesInv'
  <2>1. running <= routines /\ \A h \in handles : h.routine <= routines
    BY DEF CoInv, RoutinesInv
  <2>2. running' <= routines' /\ main_ctx'.stack <= routines' /\ current_routine' <= routines'
    BY <2>1, <1>1, <1>3, <1>6
  <2>3. \A h \in handles' : h.routine <= routines'
    BY <2>1, <1>1, <1>2, <1>3
  <2>4. \A s \in Func : func_'[s] <= created' /\ (s <= routines' => func_'[s] # 0)
    <3> SUFFICES ASSUME NEW s \in Func
                 PROVE  func_'[s] <= c /\ (s <= routines' => func_'[s] # 0)
      BY <1>2
    <3>1. CASE s = r
      BY <3>1, <1>4, <1>5
    <3>2. CASE s # r
      <4>1. func_[s] <= created /\ (s <= routines => func_[s] # 0)
        BY DEF CoInv, RoutinesInv
      <4> QED BY <3>2, <4>1, <1>1, <1>3, <1>4, <1>5
    <3> QED BY <3>1, <3>2
  <2>5. \A f \in Func : f > created' => applied'[f] = "no"
    <3>1. \A f \in Func : f > c => f > created
      BY <1>3, <1>4
    <3> QED BY <3>1, <1>2, ApplyType
  <2>6. \A f \in Func : applied'[f] = "tested" /\ f \in is_done' => f \in elsewhere'
    BY <1>2, ApplyType
  <2> QED BY <2>2, <2>3, <2>4, <2>5, <2>6, <1>1, <1>6 DEF RoutinesInv
<1>9. Here' = c
  BY <1>5, <1>6 DEF Here
<1>10. ASSUME ~nested'
       PROVE  /\ \A g \in handles : func_[g.routine] = g.func /\ ctx_[g.routine].age = age[g.routine]
              /\ \A s \in Func : s \in Free \/ s > routines => ctx_[s].age = age[s]
              /\ \A i \in 1 .. Len(finished) :
                   finished[i] \in 1 .. created /\ \A g \in handles : finished[i] # g.func
              /\ \A g \in handles : g.func <= created
              /\ \A g, k \in handles : g.func = k.func => g = k
  <2>1. ~nested
    BY <1>6, <1>10
  <2>2. FlatInv
    BY DEF CoInv
  <2> QED BY <2>1, <2>2 DEF FlatInv
<1>11. FlatInv'
  <2> SUFFICES ASSUME ~nested'
               PROVE  /\ ~broken' /\ meant' = <<c>>
                      /\ \A g \in handles : /\ func_'[g.routine] = g.func
                                            /\ ctx_[g.routine].age = age'[g.routine]
                      /\ \A s \in Func : s \in Free' \/ s > routines' => ctx_[s].age = age'[s]
                      /\ \A i \in 1 .. Len(finished) :
                           /\ finished[i] \in 1 .. c /\ finished[i] # c
                           /\ \A g \in handles : finished[i] # g.func
                      /\ \A g \in handles : g.func # c /\ g.func <= c
                      /\ \A g, k \in handles : g.func = k.func => g = k
    BY <1>2, <1>5, <1>6, <1>9 DEF FlatInv
  <2>1. ~broken' /\ meant' = <<c>>
    BY <1>1, <1>2, <1>6, <1>10
  <2>2. \A g \in handles : func_'[g.routine] = g.func /\ ctx_[g.routine].age = age'[g.routine]
    BY <1>1, <1>3, <1>5, <1>6, <1>10
  <2>3. \A s \in Func : s \in Free' \/ s > routines' => ctx_[s].age = age'[s]
    <3>1. \A s \in Func : s > routines' => s > routines /\ s # r
      BY <1>1, <1>3
    <3> QED BY <3>1, <1>1, <1>6, <1>10
  <2>4. \A f \in 1 .. created : f \in 1 .. c /\ f # c
    BY <1>3, <1>4
  <2>5. \A g \in handles : g.func # c /\ g.func <= c
    <3> SUFFICES ASSUME NEW g \in handles
                 PROVE  g.func # c /\ g.func <= c
      OBVIOUS
    <3>1. g.func \in Nat /\ g.func <= created
      BY <1>3, <1>10
    <3> QED BY <3>1, <1>3, <1>4
  <2> QED BY <2>1, <2>2, <2>3, <2>4, <2>5, <1>10
<1>12. ReturnsOnce'
  <2> SUFFICES ASSUME ~nested', NEW f \in 1 .. c
               PROVE  \/ \E i \in 1 .. Len(finished) : finished[i] = f
                      \/ f = c \/ f \in elsewhere
                      \/ \E h \in handles : h.func = f /\ func_'[h.routine] = f
    BY <1>2, <1>6, <1>9 DEF CoInv, ReturnsOnce
  <2>1. CASE f = c
    BY <2>1
  <2>2. CASE f \in 1 .. created
    <3>1. f # Here /\ ~nested
      BY <2>2, <1>6
    <3>2. \A h \in handles : func_'[h.routine] = func_[h.routine]
      BY <1>1, <1>3, <1>5
    <3> QED BY <2>2, <3>1, <3>2 DEF CoInv, ReturnsOnce
  <2> QED BY <2>1, <2>2, <1>4
<1>13. SleepsUnanswered'
  <2> SUFFICES ASSUME NEW f \in 1 .. c, applied[f] = "sleeps"
               PROVE  f \in elsewhere \/ nested' \/ \E h \in handles : h.func = f
    BY <1>2 DEF SleepsUnanswered
  <2>1. f \in 1 .. created
    <3>1. applied[c] = "no"
      BY <1>3, <1>4, ApplyType
    <3> QED BY <3>1, <1>4
  <2> QED BY <2>1, <1>6 DEF CoInv, SleepsUnanswered
<1> QED BY <1>6, <1>7, <1>8, <1>11, <1>12, <1>13 DEF CoInv

LEMMA CoInvStep == CoInv /\ [CoNext]_coVars => CoInv'
<1> SUFFICES ASSUME CoInv, [CoNext]_coVars PROVE CoInv'
  OBVIOUS
<1>1. CASE UNCHANGED coVars
  <2>1. Still /\ UNCHANGED <<applied, is_done, elsewhere>>
    BY <1>1 DEF coVars, Still
  <2> QED BY <2>1, ApplyType, StillKeeps
<1> QED BY <1>1, CreateKeeps, ResumeKeeps, YieldKeeps, ReturnKeeps, AskKeeps, TestKeeps,
           YieldApplyKeeps, DoneElsewhereKeeps DEF CoNext

LEMMA FlatIsRight == CoInv => FlatFollows
<1> SUFFICES ASSUME CoInv, ~nested
             PROVE  ~broken /\ Here = IF meant = <<>> THEN 0 ELSE meant[Len(meant)]
  BY DEF FlatFollows
<1>1. /\ ~broken /\ (running = 0 => meant = <<>>)
      /\ (running # 0 => meant = <<func_[running]>>)
  BY DEF CoInv, FlatInv
<1>2. CASE running = 0
  BY <1>1, <1>2 DEF Here
<1>3. CASE running # 0
  <2>1. PICK f : f = func_[running]
    OBVIOUS
  <2>2. meant = <<f>>
    BY <2>1, <1>1, <1>3
  <2>3. meant # <<>> /\ meant[Len(meant)] = func_[running]
    BY <2>1, <2>2
  <2> QED BY <2>3, <1>1, <1>3 DEF Here
<1> QED BY <1>2, <1>3

\* However many functions are created and however often they yield: unless
\* a function creates or resumes another, every switch finds its frames and
\* leads to the code that is meant to run, a function returns once, and one
\* that sleeps in apply has yet to be called back.
THEOREM CoroutinesAreSafe == CoSpec => []CoSafe
<1>1. CoInv => CoSafe
  BY FlatIsRight DEF CoInv, CoSafe
<1> QED BY <1>1, CoInvInit, CoInvStep, PTL DEF CoSpec

-----------------------------------------------------------------------------
(* The fold by which the arguments of an item are stored.                  *)

StoreArg(b, arg) == Store(Store(b, <<TypeIndex(arg), 0>>), ArgBytes(arg))

EmptyBuf == [buf |-> <<>>, size |-> StackBuf, over |-> FALSE]

\* The function by which the fold goes over the first n arguments.
Folds_(f, item, n) ==
  f = [s \in SUBSET (1 .. n) |->
         IF s = {} THEN EmptyBuf ELSE StoreArg(f[s \ {Max(s)}], item[Max(s)])]

LEMMA MaxTop ==
  ASSUME NEW n \in Nat, NEW s \in SUBSET (1 .. n), n \in s
  PROVE  Max(s) = n
<1>1. n \in s /\ \A y \in s : n >= y
  OBVIOUS
<1>2. \A x \in s : (\A y \in s : x >= y) => x = n
  OBVIOUS
<1> QED BY <1>1, <1>2 DEF Max

LEMMA MaxIn ==
  ASSUME NEW n \in Nat, NEW s \in SUBSET (1 .. n), s # {}
  PROVE  Max(s) \in s
<1> DEFINE T == {k \in Nat : \A y \in s : y <= k}
<1>1. n \in T
  OBVIOUS
<1>2. PICK m \in T : \A k \in T : m <= k
  <2>1. T \in SUBSET Nat /\ T # {}
    BY <1>1
  <2> HIDE DEF T
  <2> QED BY <2>1, LeastNumber
<1>3. m \in s
  <2>1. SUFFICES ASSUME m \notin s PROVE FALSE
    OBVIOUS
  <2>2. PICK z \in s : TRUE
    OBVIOUS
  <2>3. m \in Nat /\ z \in 1 .. n /\ z <= m
    BY <1>2
  <2>4. m - 1 \in Nat
    BY <2>3
  <2>5. \A y \in s : y <= m - 1
    BY <1>2, <2>1, <2>3
  <2>6. m - 1 \in T
    BY <2>4, <2>5
  <2> HIDE DEF T
  <2> QED BY <1>2, <2>3, <2>6
<1>4. \A y \in s : m >= y
  BY <1>2
<1> HIDE DEF T
<1> QED BY <1>3, <1>4 DEF Max

LEMMA FoldExists ==
  ASSUME NEW item, NEW n \in Nat
  PROVE  \E f : Folds_(f, item, n)
<1> DEFINE T == {m \in Nat : ~\E f : Folds_(f, item, m)}
<1>1. SUFFICES ASSUME T # {} PROVE FALSE
  OBVIOUS
<1>2. PICK m \in T : \A k \in T : m <= k
  <2>1. T \in SUBSET Nat
    OBVIOUS
  <2> HIDE DEF T
  <2> QED BY <1>1, <2>1, LeastNumber
<1>3. CASE m = 0
  <2> DEFINE g == [s \in SUBSET (1 .. 0) |-> EmptyBuf]
  <2>1. \A s \in SUBSET (1 .. 0) : s = {}
    OBVIOUS
  <2>2. g = [s \in SUBSET (1 .. 0) |->
               IF s = {} THEN EmptyBuf ELSE StoreArg(g[s \ {Max(s)}], item[Max(s)])]
    BY <2>1
  <2>3. Folds_(g, item, 0)
    <3> HIDE DEF g
    <3> QED BY <2>2 DEF Folds_
  <2> QED BY <1>2, <1>3, <2>3
<1>4. CASE m # 0
  <2>1. m \in Nat /\ m - 1 \in Nat /\ m - 1 \notin T
    BY <1>2, <1>4
  <2>2. PICK f : Folds_(f, item, m - 1)
    BY <2>1
  <2> DEFINE g == [s \in SUBSET (1 .. m) |->
                     IF m \in s THEN StoreArg(f[s \ {m}], item[m]) ELSE f[s]]
  <2>3. ASSUME NEW s \in SUBSET (1 .. m - 1)
        PROVE  f[s] = IF s = {} THEN EmptyBuf ELSE StoreArg(f[s \ {Max(s)}], item[Max(s)])
    <3> HIDE DEF T
    <3> QED BY <2>2 DEF Folds_
  <2>4. ASSUME NEW s \in SUBSET (1 .. m - 1) PROVE s \in SUBSET (1 .. m) /\ g[s] = f[s]
    <3>1. s \in SUBSET (1 .. m) /\ m \notin s
      BY <2>1
    <3> QED BY <3>1
  <2>5. ASSUME NEW s \in SUBSET (1 .. m)
        PROVE  g[s] = IF s = {} THEN EmptyBuf ELSE StoreArg(g[s \ {Max(s)}], item[Max(s)])
    <3>1. CASE m \in s
      <4>1. Max(s) = m /\ s # {}
        BY <3>1, <2>1, MaxTop
      <4>2. s \ {m} \in SUBSET (1 .. m - 1)
        BY <2>1
      <4>3. g[s \ {m}] = f[s \ {m}]
        BY <4>2, <2>4
      <4>4. g[s] = StoreArg(f[s \ {m}], item[m])
        BY <3>1
      <4> HIDE DEF g
      <4> QED BY <4>1, <4>3, <4>4
    <3>2. CASE m \notin s
      <4>1. s \in SUBSET (1 .. m - 1)
        BY <3>2, <2>1
      <4>2. s # {} => s \ {Max(s)} \in SUBSET (1 .. m - 1)
        BY <4>1
      <4> HIDE DEF g, T
      <4> QED BY <4>1, <4>2, <2>3, <2>4
    <3> QED BY <3>1, <3>2
  <2>6. Folds_(g, item, m)
    <3>1. g = [s \in SUBSET (1 .. m) |-> g[s]]
      OBVIOUS
    <3> HIDE DEF g
    <3> QED BY <2>5, <3>1 DEF Folds_
  <2> QED BY <1>2, <2>6
<1> QED BY <1>3, <1>4

\* s goes over the buffers after each argument.
Steps_(s, item) == /\ s[0] = EmptyBuf
                   /\ \A k \in 1 .. Len(item) : s[k] = StoreArg(s[k - 1], item[k])
                   /\ Stored(item) = s[Len(item)]

LEMMA StoredSteps ==
  ASSUME NEW item \in Seq(Argument)
  PROVE  \E s : Steps_(s, item)
<1> DEFINE n == Len(item)
           f == CHOOSE f : f = [s \in SUBSET (1 .. n) |->
                  IF s = {} THEN EmptyBuf ELSE StoreArg(f[s \ {Max(s)}], item[Max(s)])]
           r == [k \in 0 .. n |-> f[1 .. k]]
<1>0. n \in Nat /\ DOMAIN item = 1 .. n
  OBVIOUS
<1>1. Stored(item) = f[1 .. n]
  <2>1. 1 .. n = DOMAIN item
    BY <1>0
  <2> HIDE DEF n
  <2> QED BY <2>1 DEF Stored, FoldLeft, MapThenFoldSet, StoreArg, EmptyBuf
<1>2. f = [s \in SUBSET (1 .. n) |->
             IF s = {} THEN EmptyBuf ELSE StoreArg(f[s \ {Max(s)}], item[Max(s)])]
  BY <1>0, FoldExists DEF Folds_
<1>3. ASSUME NEW s \in SUBSET (1 .. n)
      PROVE  f[s] = IF s = {} THEN EmptyBuf ELSE StoreArg(f[s \ {Max(s)}], item[Max(s)])
  <2> HIDE DEF f, n
  <2> QED BY <1>2
<1> HIDE DEF f, n
<1>4. r[0] = EmptyBuf
  <2>1. 1 .. 0 = {} /\ 0 \in 0 .. n
    BY <1>0
  <2> QED BY <1>3, <2>1
<1>5. ASSUME NEW k \in 1 .. n PROVE r[k] = StoreArg(r[k - 1], item[k])
  <2>1. k \in Nat /\ k \in 1 .. k /\ 1 .. k \in SUBSET (1 .. n) /\ k - 1 \in 0 .. n /\ k \in 0 .. n
    BY <1>0
  <2>2. Max(1 .. k) = k
    BY <2>1, MaxTop
  <2>3. (1 .. k) \ {k} = 1 .. k - 1
    BY <2>1
  <2>4. 1 .. k # {}
    BY <2>1
  <2>5. f[1 .. k] = StoreArg(f[1 .. k - 1], item[k])
    BY <1>3, <2>1, <2>2, <2>3, <2>4
  <2> QED BY <2>1, <2>5
<1>6. Stored(item) = r[n]
  BY <1>0, <1>1
<1> HIDE DEF r
<1>7. Steps_(r, item)
  BY <1>4, <1>5, <1>6 DEF Steps_, n
<1> QED BY <1>7

-----------------------------------------------------------------------------
(* What storing an argument leaves in the buffer.                          *)

BufState == [buf : Seq(Nat), size : Nat, over : BOOLEAN]

Fits(b) == ~b.over /\ Len(b.buf) <= b.size

LEMMA StoreRight ==
  ASSUME NEW b \in BufState, NEW bytes \in Seq(Nat)
  PROVE  /\ Store(b, bytes) \in BufState
         /\ Store(b, bytes).buf = b.buf \o bytes
         /\ Store(b, bytes).size >= b.size
         /\ Fits(b) /\ Len(bytes) <= b.size => Fits(Store(b, bytes))
<1> DEFINE n == Len(b.buf)
           k == Len(bytes)
           sz == b.size
           size == IF n + k > sz THEN 2 * sz ELSE sz
           joined == b.buf \o bytes
           over == b.over \/ n + k > size
           d == [buf |-> joined, size |-> size, over |-> over]
<1>1. Store(b, bytes) = d
  BY DEF Store, Grown
<1>2. n \in Nat /\ k \in Nat /\ sz \in Nat /\ b.over \in BOOLEAN /\ b.buf \in Seq(Nat)
  BY DEF BufState
<1>3. joined \in Seq(Nat) /\ Len(joined) = n + k
  BY <1>2, ConcatProperties
<1>4. size \in Nat /\ size >= sz
  BY <1>2
<1>5. over \in BOOLEAN
  OBVIOUS
<1>6. d.buf = joined /\ d.size = size
  OBVIOUS
<1>7. d.over = over
  OBVIOUS
<1>8. n <= sz /\ k <= sz => n + k <= size
  BY <1>2
<1>9. d \in BufState
  <2> HIDE DEF joined, size, over
  <2> QED BY <1>3, <1>4, <1>5 DEF BufState
<1>10. ASSUME Fits(b), k <= sz PROVE Fits(d)
  <2>1. ~b.over /\ n <= sz
    BY <1>10 DEF Fits
  <2>2. n + k <= size
    BY <2>1, <1>8, <1>10
  <2>3. ~over
    BY <2>1, <2>2, <1>2, <1>4
  <2>4. ~d.over
    BY <2>3, <1>7
  <2>5. Len(d.buf) <= d.size
    BY <2>2, <1>3, <1>6
  <2> QED BY <2>4, <2>5 DEF Fits
<1> HIDE DEF d
<1> QED BY <1>1, <1>4, <1>6, <1>9, <1>10

ArgOK(arg) ==
  /\ TypeIndex(arg) \in Nat
  /\ ArgBytes(arg) \in Seq(Nat)
  /\ arg.type = "num" => arg = Num /\ TypeIndex(arg) = 8 /\ ArgBytes(arg) = NumBytes
  /\ arg.type = "lit" => arg = Lit /\ TypeIndex(arg) = 12 /\ ArgBytes(arg) = PtrBytes
  /\ arg.type = "str" =>
       /\ arg.len \in Nat /\ arg = Str_(arg.len) /\ TypeIndex(arg) = 2
       /\ Len(ArgBytes(arg)) = arg.len + 1
       /\ \A i \in 1 .. arg.len : ArgBytes(arg)[i] = 97
       /\ ArgBytes(arg)[arg.len + 1] = 0
  /\ Len(ArgBytes(arg)) \in Nat
  /\ arg.type # "str" => Len(ArgBytes(arg)) <= 8
  /\ arg.type \in {"num", "lit", "str"}

LEMMA ArgRight ==
  ASSUME NEW arg \in Argument
  PROVE  ArgOK(arg)
<1>1. CASE arg.type = "num"
  <2>1. arg = Num /\ TypeIndex(arg) = 8 /\ ArgBytes(arg) = NumBytes
    BY <1>1 DEF Argument, Num, TypeIndex, ArgBytes
  <2>2. NumBytes \in Seq(Nat) /\ Len(NumBytes) = 4
    BY DEF NumBytes
  <2> QED BY <1>1, <2>1, <2>2 DEF ArgOK
<1>2. CASE arg.type = "lit"
  <2>1. arg = Lit /\ TypeIndex(arg) = 12 /\ ArgBytes(arg) = PtrBytes
    BY <1>2 DEF Argument, Lit, TypeIndex, ArgBytes
  <2>2. PtrBytes \in Seq(Nat) /\ Len(PtrBytes) = 8
    BY DEF PtrBytes
  <2> QED BY <1>2, <2>1, <2>2 DEF ArgOK
<1>3. CASE arg.type = "str"
  <2> DEFINE n == arg.len
             chars == [i \in 1 .. n |-> 97]
             z == <<0>>
  <2>1. n \in Nat /\ arg = Str_(n) /\ TypeIndex(arg) = 2 /\ ArgBytes(arg) = chars \o z
    BY <1>3 DEF Argument, Str_, TypeIndex, ArgBytes
  <2>2. chars \in Seq(Nat) /\ Len(chars) = n /\ z \in Seq(Nat) /\ Len(z) = 1 /\ z[1] = 0
        /\ \A i \in 1 .. n : chars[i] = 97
    BY <2>1
  <2>3. /\ chars \o z \in Seq(Nat) /\ Len(chars \o z) = n + 1
        /\ \A i \in 1 .. n + 1 : (chars \o z)[i] = IF i <= n THEN chars[i] ELSE z[i - n]
    <3> HIDE DEF chars, z, n
    <3>1. chars \in Seq(Nat) /\ z \in Seq(Nat)
      BY <2>2
    <3>2. /\ chars \o z \in Seq(Nat) /\ Len(chars \o z) = Len(chars) + Len(z)
          /\ \A i \in 1 .. Len(chars) + Len(z) :
               (chars \o z)[i] = IF i <= Len(chars) THEN chars[i] ELSE z[i - Len(chars)]
      BY <3>1, ConcatProperties
    <3> QED BY <2>1, <2>2, <3>2
  <2>4. \A i \in 1 .. n : (chars \o z)[i] = 97
    <3> HIDE DEF chars, z, n
    <3> QED BY <2>1, <2>2, <2>3
  <2>5. (chars \o z)[n + 1] = 0
    <3> HIDE DEF chars, z, n
    <3>1. n + 1 \in 1 .. n + 1 /\ ~(n + 1 <= n) /\ (n + 1) - n = 1
      BY <2>1
    <3> QED BY <2>2, <2>3, <3>1
  <2> HIDE DEF chars, z
  <2>6. ArgBytes(arg) \in Seq(Nat) /\ Len(ArgBytes(arg)) = n + 1 /\ Len(ArgBytes(arg)) \in Nat
    BY <2>1, <2>3
  <2>7. (\A i \in 1 .. n : ArgBytes(arg)[i] = 97) /\ ArgBytes(arg)[n + 1] = 0
    BY <2>1, <2>4, <2>5
  <2>8. /\ arg.len \in Nat /\ arg = Str_(arg.len) /\ TypeIndex(arg) = 2
        /\ Len(ArgBytes(arg)) = arg.len + 1
        /\ \A i \in 1 .. arg.len : ArgBytes(arg)[i] = 97
        /\ ArgBytes(arg)[arg.len + 1] = 0
    BY <2>1, <2>6, <2>7
  <2>9. TypeIndex(arg) \in Nat /\ arg.type # "num" /\ arg.type # "lit" /\ arg.type \in {"num", "lit", "str"}
    BY <1>3, <2>1
  <2> HIDE DEF n
  <2> QED BY ONLY <1>3, <2>6, <2>8, <2>9 DEF ArgOK
<1>4. arg.type \in {"num", "lit", "str"}
  BY DEF Argument
<1> QED BY <1>1, <1>2, <1>3, <1>4

Chunk(arg) == <<TypeIndex(arg), 0>> \o ArgBytes(arg)

LEMMA ChunkRight ==
  ASSUME NEW arg \in Argument
  PROVE  /\ Chunk(arg) \in Seq(Nat) /\ Len(Chunk(arg)) = 2 + Len(ArgBytes(arg))
         /\ Chunk(arg)[1] = TypeIndex(arg) /\ Chunk(arg)[2] = 0
         /\ \A i \in 1 .. Len(ArgBytes(arg)) : Chunk(arg)[2 + i] = ArgBytes(arg)[i]
<1> DEFINE h == <<TypeIndex(arg), 0>>
           t == ArgBytes(arg)
           n == Len(t)
<1>1. h \in Seq(Nat) /\ t \in Seq(Nat) /\ n \in Nat /\ Len(h) = 2 /\ h[1] = TypeIndex(arg) /\ h[2] = 0
  BY ArgRight DEF ArgOK
<1>2. Chunk(arg) = h \o t
  BY DEF Chunk
<1> HIDE DEF h
<1>3. /\ h \o t \in Seq(Nat) /\ Len(h \o t) = 2 + n
      /\ \A i \in 1 .. 2 + n : (h \o t)[i] = IF i <= 2 THEN h[i] ELSE t[i - 2]
  <2>1. h \in Seq(Nat) /\ t \in Seq(Nat)
    BY <1>1
  <2>2. /\ h \o t \in Seq(Nat) /\ Len(h \o t) = Len(h) + Len(t)
        /\ \A i \in 1 .. Len(h) + Len(t) : (h \o t)[i] = IF i <= Len(h) THEN h[i] ELSE t[i - Len(h)]
    <3> HIDE DEF t, n
    <3> QED BY <2>1, ConcatProperties
  <2> QED BY <1>1, <2>2
<1>4. (h \o t)[1] = h[1] /\ (h \o t)[2] = h[2]
  BY <1>1, <1>3
<1>5. ASSUME NEW i \in 1 .. n PROVE (h \o t)[2 + i] = t[i]
  <2>1. 2 + i \in 1 .. 2 + n /\ ~(2 + i <= 2) /\ (2 + i) - 2 = i
    BY <1>1
  <2> QED BY <1>3, <2>1
<1> QED BY <1>1, <1>2, <1>3, <1>4, <1>5

\* An argument that is not a string as long as the buffer.
Short(arg) == arg.type = "str" => arg.len < StackBuf

LEMMA StoreArgRight ==
  ASSUME NEW b \in BufState, NEW arg \in Argument
  PROVE  /\ StoreArg(b, arg) \in BufState
         /\ StoreArg(b, arg).buf = b.buf \o Chunk(arg)
         /\ StoreArg(b, arg).size >= b.size
         /\ Fits(b) /\ Short(arg) /\ b.size >= StackBuf => Fits(StoreArg(b, arg))
<1> DEFINE h == <<TypeIndex(arg), 0>>
           t == ArgBytes(arg)
           c == Store(b, h)
           d == Store(c, t)
<1>1. h \in Seq(Nat) /\ Len(h) = 2 /\ t \in Seq(Nat) /\ Len(t) \in Nat
  BY ArgRight DEF ArgOK
<1>2. StoreArg(b, arg) = d
  BY DEF StoreArg
<1> HIDE DEF h, t
<1>3. c \in BufState /\ c.buf = b.buf \o h /\ c.size >= b.size
      /\ (Fits(b) /\ Len(h) <= b.size => Fits(c))
  BY <1>1, StoreRight
<1> HIDE DEF c
<1>4. d \in BufState /\ d.buf = c.buf \o t /\ d.size >= c.size
      /\ (Fits(c) /\ Len(t) <= c.size => Fits(d))
  BY <1>1, <1>3, StoreRight
<1> HIDE DEF d
<1>5. b.size \in Nat /\ c.size \in Nat /\ d.size \in Nat /\ b.buf \in Seq(Nat)
  BY <1>3, <1>4 DEF BufState
<1>6. d.buf = b.buf \o Chunk(arg)
  <2> DEFINE K == Nat
             x == b.buf
  <2>0. x \in Seq(K) /\ h \in Seq(K) /\ t \in Seq(K)
    BY <1>1, <1>5
  <2> HIDE DEF K, x
  <2>1. (x \o h) \o t = x \o (h \o t)
    BY <2>0, ConcatAssociative
  <2> USE DEF x
  <2> QED BY <1>3, <1>4, <2>1 DEF Chunk, h, t
<1>7. ASSUME Fits(b), Short(arg), b.size >= StackBuf PROVE Fits(d)
  <2>1. Len(t) <= StackBuf
    BY <1>1, <1>7, ArgRight, LoggerAssumption DEF Short, t, ArgOK
  <2> QED BY <1>1, <1>3, <1>4, <1>5, <1>7, <2>1, LoggerAssumption
<1>8. d.size >= b.size
  BY <1>3, <1>4, <1>5
<1> QED BY <1>2, <1>4, <1>6, <1>7, <1>8

-----------------------------------------------------------------------------
(* The buffer of an item.                                                  *)

StepOK(b, item) ==
  /\ b \in BufState /\ b.size >= StackBuf
  /\ (\A j \in 1 .. Len(item) : Short(item[j])) => Fits(b)

LEMMA StepsRight ==
  ASSUME NEW item \in Seq(Argument), NEW s, Steps_(s, item)
  PROVE  \A k \in 0 .. Len(item) : StepOK(s[k], item)
<1> DEFINE n == Len(item)
           T == {m \in 0 .. n : ~StepOK(s[m], item)}
<1>0. n \in Nat /\ \A j \in 1 .. n : item[j] \in Argument
  OBVIOUS
<1>1. SUFFICES ASSUME T # {} PROVE FALSE
  OBVIOUS
<1>2. PICK m \in T : \A k \in T : m <= k
  <2>1. T \in SUBSET Nat
    BY <1>0
  <2> HIDE DEF T
  <2> QED BY <1>1, <2>1, LeastNumber
<1>3. m \in 0 .. n /\ ~StepOK(s[m], item)
  OBVIOUS
<1>4. CASE m = 0
  <2>1. EmptyBuf \in BufState /\ EmptyBuf.size >= StackBuf /\ Fits(EmptyBuf)
    BY LoggerAssumption DEF EmptyBuf, BufState, Fits
  <2> QED BY <1>3, <1>4, <2>1 DEF StepOK, Steps_
<1>5. CASE m # 0
  <2>1. m \in 1 .. n /\ m - 1 \in 0 .. n /\ m \in Nat
    BY <1>0, <1>3, <1>5
  <2>2. m - 1 \notin T
    <3> HIDE DEF T
    <3> QED BY <1>2, <2>1
  <2>3. StepOK(s[m - 1], item)
    BY <2>1, <2>2
  <2>4. s[m] = StoreArg(s[m - 1], item[m])
    BY <2>1 DEF Steps_
  <2> DEFINE b == s[m - 1]
             d == s[m]
             a == item[m]
  <2>5. a \in Argument /\ b \in BufState /\ b.size >= StackBuf
    BY <1>0, <2>1, <2>3 DEF StepOK
  <2>6. d \in BufState /\ d.size >= b.size
        /\ (Fits(b) /\ Short(a) /\ b.size >= StackBuf => Fits(d))
    BY <2>4, <2>5, StoreArgRight
  <2>7. b.size \in Nat /\ d.size \in Nat
    BY <2>5, <2>6 DEF BufState
  <2>8. d.size >= StackBuf
    BY <2>5, <2>6, <2>7, LoggerAssumption
  <2>9. (\A j \in 1 .. n : Short(item[j])) => Fits(d)
    BY <2>1, <2>3, <2>5, <2>6 DEF StepOK
  <2> HIDE DEF d
  <2>10. StepOK(d, item)
    BY <2>6, <2>8, <2>9 DEF StepOK
  <2> QED BY <1>3, <2>10 DEF d
<1> QED BY <1>4, <1>5

\* Bytes are written behind the buffer only for a string that is too long.
LEMMA OverLong ==
  ASSUME NEW item \in Seq(Argument), Stored(item).over
  PROVE  \E j \in 1 .. Len(item) : item[j].type = "str" /\ item[j].len >= StackBuf
<1>1. PICK s : Steps_(s, item)
  BY StoredSteps
<1>2. StepOK(Stored(item), item)
  <2>1. Len(item) \in 0 .. Len(item)
    OBVIOUS
  <2> QED BY <1>1, <2>1, StepsRight DEF Steps_
<1>3. PICK j \in 1 .. Len(item) : ~Short(item[j])
  BY <1>2 DEF StepOK, Fits
<1>4. item[j] \in Argument
  OBVIOUS
<1>5. item[j].type = "str" /\ ~(item[j].len < StackBuf)
  BY <1>3 DEF Short
<1>6. item[j].len \in Nat
  BY <1>4, <1>5, ArgRight DEF ArgOK
<1> QED BY <1>5, <1>6, LoggerAssumption

-----------------------------------------------------------------------------
(* How the bytes are read.                                                 *)

ByteAt(buf, behind, p) == IF p < Len(buf) THEN buf[p + 1] ELSE behind
BytesAt(buf, behind, p, n) == [i \in 1 .. n |-> ByteAt(buf, behind, p + i - 1)]
ZerosAt(buf, behind, p) == {n \in 0 .. Len(buf) : ByteAt(buf, behind, p + n) = 0}
StrlenAt(buf, behind, p) ==
  IF ZerosAt(buf, behind, p) = {} THEN Len(buf)
  ELSE CHOOSE n \in ZerosAt(buf, behind, p) : \A m \in ZerosAt(buf, behind, p) : n <= m

TypeAt(buf, behind, p) == ByteAt(buf, behind, p) + 256 * ByteAt(buf, behind, p + 1)

\* The text from p on, where t holds the texts from later positions on.
TextAt(buf, behind, t, p) ==
  LET type == TypeAt(buf, behind, p)
      q == p + SizeofType
  IN  CASE p >= Len(buf) -> <<>>
        [] p < Len(buf) /\ type = 0 -> <<[type |-> "char"]>> \o t[q + 1]
        [] p < Len(buf) /\ type = 2 ->
             <<Str_(StrlenAt(buf, behind, q))>> \o t[q + StrlenAt(buf, behind, q)]
        [] p < Len(buf) /\ type = 8 ->
             <<IF BytesAt(buf, behind, q, 4) = NumBytes THEN Num ELSE [type |-> "other"]>> \o t[q + 4]
        [] p < Len(buf) /\ type = 12 ->
             IF BytesAt(buf, behind, q, 8) = PtrBytes THEN <<Lit>> \o t[q + 8]
             ELSE <<[type |-> "undefined"]>>
        [] OTHER -> t[q]

TextTop(buf) == 2 * Len(buf) + 12

Texts(t, buf, behind, m) == t = [p \in m .. TextTop(buf) |-> TextAt(buf, behind, t, p)]

LEMMA StrlenIn ==
  ASSUME NEW buf \in Seq(Nat), NEW behind, NEW p \in Nat
  PROVE  StrlenAt(buf, behind, p) \in 0 .. Len(buf)
<1> DEFINE Z == ZerosAt(buf, behind, p)
<1>1. Len(buf) \in Nat /\ Z \in SUBSET (0 .. Len(buf)) /\ Z \in SUBSET Nat
  BY DEF ZerosAt
<1>2. CASE Z = {}
  BY <1>1, <1>2 DEF StrlenAt
<1>3. CASE Z # {}
  <2>1. \E n \in Z : \A m \in Z : n <= m
    <3> HIDE DEF Z
    <3> QED BY <1>1, <1>3, LeastNumber
  <2> DEFINE l == CHOOSE n \in Z : \A m \in Z : n <= m
  <2>2. StrlenAt(buf, behind, p) = l
    BY <1>3 DEF StrlenAt
  <2>3. l \in Z
    <3> HIDE DEF Z
    <3> QED BY <2>1
  <2> HIDE DEF l, Z
  <2> QED BY <1>1, <2>2, <2>3
<1> QED BY <1>2, <1>3

\* Only later texts are used.
LEMMA TextLater ==
  ASSUME NEW buf \in Seq(Nat), NEW behind, NEW p \in 0 .. TextTop(buf), NEW t, NEW u,
         \A r \in p + 1 .. TextTop(buf) : t[r] = u[r]
  PROVE  TextAt(buf, behind, t, p) = TextAt(buf, behind, u, p)
<1> DEFINE n == Len(buf)
           q == p + SizeofType
           k == StrlenAt(buf, behind, q)
<1>1. n \in Nat /\ p \in Nat /\ q = p + 2 /\ q \in Nat /\ TextTop(buf) = 2 * n + 12
  BY DEF TextTop, SizeofType
<1>2. k \in 0 .. n
  BY <1>1, StrlenIn
<1> HIDE DEF k, n, q
<1>3. CASE p >= n
  <2>1. ~(p < n)
    BY <1>1, <1>3
  <2> QED BY <1>3, <2>1 DEF TextAt, n
<1>4. CASE p < n
  <2>1. /\ q + 1 \in p + 1 .. TextTop(buf) /\ q + k \in p + 1 .. TextTop(buf)
        /\ q + 4 \in p + 1 .. TextTop(buf) /\ q + 8 \in p + 1 .. TextTop(buf)
        /\ q \in p + 1 .. TextTop(buf)
    BY <1>1, <1>2, <1>4
  <2>2. t[q + 1] = u[q + 1] /\ t[q + k] = u[q + k] /\ t[q + 4] = u[q + 4] /\ t[q + 8] = u[q + 8]
        /\ t[q] = u[q]
    BY <2>1
  <2> QED BY <2>2 DEF TextAt, k, q
<1> QED BY <1>1, <1>3, <1>4

LEMMA TextsExist ==
  ASSUME NEW buf \in Seq(Nat), NEW behind
  PROVE  \E t : Texts(t, buf, behind, 0)
<1> DEFINE N == TextTop(buf)
           T == {d \in 0 .. N + 1 : ~\E t : Texts(t, buf, behind, N + 1 - d)}
<1>0. N \in Nat
  BY DEF TextTop
<1> HIDE DEF N
<1>1. CASE T = {}
  <2>1. N + 1 \in 0 .. N + 1 /\ N + 1 - (N + 1) = 0
    BY <1>0
  <2> QED BY <1>1, <2>1
<1>2. CASE T # {}
  <2>1. PICK d \in T : \A k \in T : d <= k
    <3>1. T \in SUBSET Nat
      BY <1>0
    <3> HIDE DEF T
    <3> QED BY <1>2, <3>1, LeastNumber
  <2>2. d \in 0 .. N + 1 /\ ~\E t : Texts(t, buf, behind, N + 1 - d)
    OBVIOUS
  <2>3. CASE d = 0
    <3> DEFINE t == [p \in N + 1 .. N |-> <<>>]
    <3>1. N + 1 .. N = {} /\ N + 1 - 0 = N + 1
      BY <1>0
    <3>2. Texts(t, buf, behind, N + 1)
      BY <3>1 DEF Texts, N
    <3> QED BY <2>2, <2>3, <3>1, <3>2
  <2>4. CASE d # 0
    <3> DEFINE m == N + 1 - d
    <3>1. d - 1 \in 0 .. N + 1 /\ m \in 0 .. N /\ N + 1 - (d - 1) = m + 1
      BY <1>0, <2>2, <2>4
    <3>2. d - 1 \notin T
      <4>1. d \in Nat /\ ~(d <= d - 1)
        BY <1>0, <2>2
      <4> HIDE DEF T
      <4> QED BY <2>1, <4>1
    <3>3. PICK t : Texts(t, buf, behind, m + 1)
      BY <3>1, <3>2
    <3> HIDE DEF m, T
    <3> DEFINE u == [p \in m .. N |-> IF p = m THEN TextAt(buf, behind, t, m) ELSE t[p]]
    <3>4. ASSUME NEW p \in m + 1 .. N PROVE t[p] = TextAt(buf, behind, t, p)
      <4>1. t = [r \in m + 1 .. N |-> TextAt(buf, behind, t, r)]
        BY <3>3 DEF Texts, N
      <4> QED BY <4>1
    <3>5. ASSUME NEW p \in m + 1 .. N PROVE u[p] = t[p]
      <4>1. p \in m .. N /\ p # m
        BY <1>0, <3>1
      <4> QED BY <4>1
    <3>6. ASSUME NEW p \in m .. N PROVE u[p] = TextAt(buf, behind, u, p)
      <4>1. p \in 0 .. N
        BY <1>0, <3>1
      <4>2. \A r \in p + 1 .. N : t[r] = u[r]
        <5>1. \A r \in p + 1 .. N : r \in m + 1 .. N
          BY <1>0, <3>1
        <5> HIDE DEF u
        <5> QED BY <5>1, <3>5
      <4>3. TextAt(buf, behind, t, p) = TextAt(buf, behind, u, p)
        <5> HIDE DEF u
        <5> QED BY <4>1, <4>2, TextLater DEF N
      <4>4. CASE p = m
        <5>1. u[p] = TextAt(buf, behind, t, p)
          BY <4>4
        <5> HIDE DEF u
        <5> QED BY <5>1, <4>3
      <4>5. CASE p # m
        <5>1. p \in m + 1 .. N
          BY <1>0, <3>1, <4>5
        <5> HIDE DEF u
        <5> QED BY <5>1, <3>4, <3>5, <4>3
      <4> QED BY <4>4, <4>5
    <3>7. Texts(u, buf, behind, m)
      <4>1. u = [p \in m .. N |-> u[p]]
        OBVIOUS
      <4> HIDE DEF u
      <4> QED BY <3>6, <4>1 DEF Texts, N
    <3> QED BY <2>2, <3>7 DEF m
  <2> QED BY <2>3, <2>4
<1> QED BY <1>1, <1>2

\* The texts by which an item is read.
LEMMA ReadTexts ==
  ASSUME NEW buf \in Seq(Nat), NEW behind
  PROVE  \E t : /\ \A p \in 0 .. TextTop(buf) : t[p] = TextAt(buf, behind, t, p)
                /\ ReadOut(buf, behind) = t[0]
<1> DEFINE t == CHOOSE t : t = [p \in 0 .. TextTop(buf) |-> TextAt(buf, behind, t, p)]
<1>1. t = [p \in 0 .. TextTop(buf) |-> TextAt(buf, behind, t, p)]
  BY TextsExist DEF Texts
<1>2. ReadOut(buf, behind) = t[0]
  BY DEF ReadOut, TextAt, TextTop, TypeAt, ByteAt, BytesAt, ZerosAt, StrlenAt
<1> HIDE DEF t
<1>3. \A p \in 0 .. TextTop(buf) : t[p] = TextAt(buf, behind, t, p)
  BY <1>1
<1> QED BY <1>2, <1>3

-----------------------------------------------------------------------------
(* What is read where an argument stands.                                  *)

\* The bytes of arg stand in buf from p on.
StandsAt(buf, p, arg) ==
  /\ p \in Nat /\ p + Len(Chunk(arg)) <= Len(buf)
  /\ \A i \in 1 .. Len(Chunk(arg)) : buf[p + i] = Chunk(arg)[i]

LEMMA BytesThere ==
  ASSUME NEW buf \in Seq(Nat), NEW behind, NEW arg \in Argument, NEW p \in Nat, StandsAt(buf, p, arg)
  PROVE  /\ p + 2 + Len(ArgBytes(arg)) <= Len(buf) /\ p \in 0 .. TextTop(buf) /\ p < Len(buf)
         /\ TypeAt(buf, behind, p) = TypeIndex(arg)
         /\ \A i \in 1 .. Len(ArgBytes(arg)) : ByteAt(buf, behind, p + 2 + i - 1) = ArgBytes(arg)[i]
<1> DEFINE n == Len(ArgBytes(arg))
           c == Chunk(arg)
           L == Len(buf)
<1>1. /\ c \in Seq(Nat) /\ Len(c) = 2 + n /\ c[1] = TypeIndex(arg) /\ c[2] = 0
      /\ \A i \in 1 .. n : c[2 + i] = ArgBytes(arg)[i]
  BY ChunkRight
<1>2. n \in Nat /\ TypeIndex(arg) \in Nat /\ L \in Nat
  BY ArgRight DEF ArgOK
<1>3. p + Len(c) <= L /\ \A i \in 1 .. Len(c) : buf[p + i] = c[i]
  BY DEF StandsAt
<1> HIDE DEF c, n, L
<1>4. p + 2 + n <= L /\ p < L /\ p + 1 < L /\ p \in 0 .. 2 * L + 12
  BY <1>1, <1>2, <1>3
<1>5. buf[p + 1] = TypeIndex(arg) /\ buf[p + 2] = 0
  BY <1>1, <1>2, <1>3
<1>6. TypeAt(buf, behind, p) = TypeIndex(arg)
  <2>1. ByteAt(buf, behind, p) = TypeIndex(arg)
    BY <1>4, <1>5 DEF ByteAt, L
  <2>2. ByteAt(buf, behind, p + 1) = 0
    <3>1. p + 1 + 1 = p + 2
      OBVIOUS
    <3> QED BY <1>4, <1>5, <3>1 DEF ByteAt, L
  <2> QED BY <2>1, <2>2, <1>2 DEF TypeAt
<1>7. ASSUME NEW i \in 1 .. n PROVE ByteAt(buf, behind, p + 2 + i - 1) = ArgBytes(arg)[i]
  <2>1. 2 + i \in 1 .. 2 + n /\ p + (2 + i) = p + 2 + i - 1 + 1 /\ p + 2 + i - 1 < L
    BY <1>2, <1>4
  <2>2. buf[p + (2 + i)] = c[2 + i]
    BY <1>1, <1>3, <2>1
  <2> QED BY <1>1, <2>1, <2>2 DEF ByteAt, L
<1> QED BY <1>4, <1>6, <1>7 DEF n, L, TextTop

\* The text x at p, by the type that stands there.
ByType(x, type, k, four, eight, t, p) ==
  /\ type = 0 => x = <<[type |-> "char"]>> \o t[p + 2 + 1]
  /\ type = 2 => x = <<Str_(k)>> \o t[p + 2 + k]
  /\ type = 8 /\ four = NumBytes => x = <<Num>> \o t[p + 2 + 4]
  /\ type = 12 /\ eight = PtrBytes => x = <<Lit>> \o t[p + 2 + 8]
  /\ type \notin {0, 2, 8, 12} => x = t[p + 2]

LEMMA TextByType ==
  ASSUME NEW buf, NEW behind, NEW t, NEW p \in Nat, Len(buf) \in Nat, p < Len(buf)
  PROVE  ByType(TextAt(buf, behind, t, p), TypeAt(buf, behind, p), StrlenAt(buf, behind, p + 2),
                BytesAt(buf, behind, p + 2, 4), BytesAt(buf, behind, p + 2, 8), t, p)
<1> DEFINE type == TypeAt(buf, behind, p)
           k == StrlenAt(buf, behind, p + 2)
           L == Len(buf)
           four == BytesAt(buf, behind, p + 2, 4)
           eight == BytesAt(buf, behind, p + 2, 8)
<1>1. TextAt(buf, behind, t, p) =
        CASE p >= L -> <<>>
          [] p < L /\ type = 0 -> <<[type |-> "char"]>> \o t[p + 2 + 1]
          [] p < L /\ type = 2 -> <<Str_(k)>> \o t[p + 2 + k]
          [] p < L /\ type = 8 -> <<IF four = NumBytes THEN Num ELSE [type |-> "other"]>> \o t[p + 2 + 4]
          [] p < L /\ type = 12 -> IF eight = PtrBytes THEN <<Lit>> \o t[p + 2 + 8]
                                   ELSE <<[type |-> "undefined"]>>
          [] OTHER -> t[p + 2]
  BY DEF TextAt, SizeofType
<1>2. ~(p >= L) /\ p < L
  OBVIOUS
<1> HIDE DEF type, k, L, four, eight
<1>3. ASSUME type = 0 PROVE TextAt(buf, behind, t, p) = <<[type |-> "char"]>> \o t[p + 2 + 1]
  BY <1>1, <1>2, <1>3
<1>4. ASSUME type = 2 PROVE TextAt(buf, behind, t, p) = <<Str_(k)>> \o t[p + 2 + k]
  BY <1>1, <1>2, <1>4
<1>5. ASSUME type = 8, four = NumBytes PROVE TextAt(buf, behind, t, p) = <<Num>> \o t[p + 2 + 4]
  BY <1>1, <1>2, <1>5
<1>6. ASSUME type = 12, eight = PtrBytes PROVE TextAt(buf, behind, t, p) = <<Lit>> \o t[p + 2 + 8]
  BY <1>1, <1>2, <1>6
<1>7. ASSUME type \notin {0, 2, 8, 12} PROVE TextAt(buf, behind, t, p) = t[p + 2]
  BY <1>1, <1>2, <1>7
<1> QED BY <1>3, <1>4, <1>5, <1>6, <1>7 DEF ByType, type, k, four, eight

TextsOf(t, buf, behind) == \A p \in 0 .. TextTop(buf) : t[p] = TextAt(buf, behind, t, p)

LEMMA ReadNum ==
  ASSUME NEW buf \in Seq(Nat), NEW behind, NEW t, TextsOf(t, buf, behind), NEW p \in Nat,
         StandsAt(buf, p, Num)
  PROVE  t[p] = <<Num>> \o t[p + 6]
<1>1. Num \in Argument /\ Num.type = "num"
  BY DEF Num, Argument
<1>2. ArgBytes(Num) = NumBytes /\ TypeIndex(Num) = 8
  BY <1>1, ArgRight DEF ArgOK
<1>3. Len(NumBytes) = 4 /\ NumBytes \in Seq(Nat) /\ NumBytes = [i \in 1 .. 4 |-> NumBytes[i]]
  BY DEF NumBytes
<1>4. /\ p \in 0 .. TextTop(buf) /\ p < Len(buf) /\ TypeAt(buf, behind, p) = 8
      /\ \A i \in 1 .. 4 : ByteAt(buf, behind, p + 2 + i - 1) = NumBytes[i]
  <2> DEFINE a == Num
  <2>1. a \in Argument /\ StandsAt(buf, p, a)
    BY <1>1
  <2>2. Len(ArgBytes(a)) = 4 /\ TypeIndex(a) = 8 /\ ArgBytes(a) = NumBytes
    BY <1>2, <1>3
  <2> HIDE DEF a
  <2>3. /\ p \in 0 .. TextTop(buf) /\ p < Len(buf) /\ TypeAt(buf, behind, p) = TypeIndex(a)
        /\ \A i \in 1 .. Len(ArgBytes(a)) : ByteAt(buf, behind, p + 2 + i - 1) = ArgBytes(a)[i]
    BY <2>1, BytesThere
  <2> QED BY <2>2, <2>3
<1>5. BytesAt(buf, behind, p + 2, 4) = NumBytes
  BY <1>3, <1>4 DEF BytesAt
<1>6. t[p] = TextAt(buf, behind, t, p)
  BY <1>4 DEF TextsOf
<1>7. p + 2 + 4 = p + 6 /\ Len(buf) \in Nat
  OBVIOUS
<1>8. TextAt(buf, behind, t, p) = <<Num>> \o t[p + 2 + 4]
  <2>1. ByType(TextAt(buf, behind, t, p), TypeAt(buf, behind, p), StrlenAt(buf, behind, p + 2),
               BytesAt(buf, behind, p + 2, 4), BytesAt(buf, behind, p + 2, 8), t, p)
    BY <1>4, <1>5, <1>7, TextByType
  <2> QED BY <1>4, <1>5, <1>7, <2>1 DEF ByType
<1> QED BY <1>6, <1>7, <1>8

LEMMA ReadLit ==
  ASSUME NEW buf \in Seq(Nat), NEW behind, NEW t, TextsOf(t, buf, behind), NEW p \in Nat,
         StandsAt(buf, p, Lit)
  PROVE  t[p] = <<Lit>> \o t[p + 10]
<1>1. Lit \in Argument /\ Lit.type = "lit"
  BY DEF Lit, Argument
<1>2. ArgBytes(Lit) = PtrBytes /\ TypeIndex(Lit) = 12
  BY <1>1, ArgRight DEF ArgOK
<1>3. Len(PtrBytes) = 8 /\ PtrBytes = [i \in 1 .. 8 |-> PtrBytes[i]]
  BY DEF PtrBytes
<1>4. /\ p \in 0 .. TextTop(buf) /\ p < Len(buf) /\ TypeAt(buf, behind, p) = 12
      /\ \A i \in 1 .. 8 : ByteAt(buf, behind, p + 2 + i - 1) = PtrBytes[i]
  <2> DEFINE a == Lit
  <2>1. a \in Argument /\ StandsAt(buf, p, a)
    BY <1>1
  <2>2. Len(ArgBytes(a)) = 8 /\ TypeIndex(a) = 12 /\ ArgBytes(a) = PtrBytes
    BY <1>2, <1>3
  <2> HIDE DEF a
  <2>3. /\ p \in 0 .. TextTop(buf) /\ p < Len(buf) /\ TypeAt(buf, behind, p) = TypeIndex(a)
        /\ \A i \in 1 .. Len(ArgBytes(a)) : ByteAt(buf, behind, p + 2 + i - 1) = ArgBytes(a)[i]
    BY <2>1, BytesThere
  <2> QED BY <2>2, <2>3
<1>5. BytesAt(buf, behind, p + 2, 8) = PtrBytes
  BY <1>3, <1>4 DEF BytesAt
<1>6. t[p] = TextAt(buf, behind, t, p)
  BY <1>4 DEF TextsOf
<1>7. p + 2 + 8 = p + 10 /\ Len(buf) \in Nat
  OBVIOUS
<1>8. TextAt(buf, behind, t, p) = <<Lit>> \o t[p + 2 + 8]
  <2>1. ByType(TextAt(buf, behind, t, p), TypeAt(buf, behind, p), StrlenAt(buf, behind, p + 2),
               BytesAt(buf, behind, p + 2, 4), BytesAt(buf, behind, p + 2, 8), t, p)
    BY <1>4, <1>5, <1>7, TextByType
  <2> QED BY <1>4, <1>5, <1>7, <2>1 DEF ByType
<1> QED BY <1>6, <1>7, <1>8

Char == [type |-> "char"]

\* A string at the end: its zero is read as a char, unless what lies behind the
\* bytes makes another type of it.
StrRead(x, arg) == x = <<arg>> \o <<>> \/ x = <<arg>> \o <<Char>>

LEMMA ReadStr ==
  ASSUME NEW buf \in Seq(Nat), NEW behind \in {0, 1}, NEW t, TextsOf(t, buf, behind), NEW p \in Nat,
         NEW arg \in Argument, arg.type = "str", StandsAt(buf, p, arg),
         p + Len(Chunk(arg)) = Len(buf)
  PROVE  StrRead(t[p], arg)
<1> DEFINE n == arg.len
           L == Len(buf)
           q == p + 2
           r == q + n
           Z == ZerosAt(buf, behind, q)
<1>1. /\ n \in Nat /\ L \in Nat /\ arg = Str_(n) /\ TypeIndex(arg) = 2 /\ Len(ArgBytes(arg)) = n + 1
      /\ \A i \in 1 .. n : ArgBytes(arg)[i] = 97
      /\ ArgBytes(arg)[n + 1] = 0
  BY ArgRight DEF ArgOK
<1>2. p + n + 3 = L
  <2>1. Len(Chunk(arg)) = 2 + Len(ArgBytes(arg))
    BY ChunkRight
  <2>2. p + Len(Chunk(arg)) = L
    OBVIOUS
  <2> HIDE DEF n, L
  <2> QED BY <1>1, <2>1, <2>2
<1>3. /\ p \in 0 .. TextTop(buf) /\ p < L /\ TypeAt(buf, behind, p) = 2
      /\ \A i \in 1 .. n + 1 : ByteAt(buf, behind, p + 2 + i - 1) = ArgBytes(arg)[i]
  <2>1. /\ p \in 0 .. TextTop(buf) /\ p < Len(buf) /\ TypeAt(buf, behind, p) = TypeIndex(arg)
        /\ \A i \in 1 .. Len(ArgBytes(arg)) : ByteAt(buf, behind, p + 2 + i - 1) = ArgBytes(arg)[i]
    BY BytesThere
  <2> HIDE DEF n
  <2> QED BY <1>1, <2>1
<1> HIDE DEF n, L
<1>4. ASSUME NEW i \in 0 .. n - 1 PROVE ByteAt(buf, behind, q + i) = 97
  <2>1. i + 1 \in 1 .. n /\ i + 1 \in 1 .. n + 1 /\ p + 2 + (i + 1) - 1 = q + i
    BY <1>1
  <2> QED BY <1>1, <1>3, <2>1
<1>5. ByteAt(buf, behind, r) = 0
  <2>1. n + 1 \in 1 .. n + 1 /\ p + 2 + (n + 1) - 1 = r
    BY <1>1
  <2> QED BY <1>1, <1>3, <2>1
<1>6. StrlenAt(buf, behind, q) = n
  <2>1. n \in Z
    BY <1>1, <1>2, <1>5 DEF ZerosAt, L
  <2>2. Z \in SUBSET (0 .. L) /\ Z # {}
    BY <2>1 DEF ZerosAt, L
  <2>3. ASSUME NEW m \in Z PROVE n <= m
    <3>1. m \in 0 .. L /\ ByteAt(buf, behind, q + m) = 0
      BY DEF ZerosAt, L
    <3>2. ~(m \in 0 .. n - 1)
      BY <1>4, <3>1
    <3> QED BY <1>1, <3>1, <3>2
  <2>4. ASSUME NEW m \in Z, \A k \in Z : m <= k PROVE m = n
    <3>1. m <= n /\ n <= m /\ m \in 0 .. L
      BY <2>1, <2>2, <2>3, <2>4
    <3> QED BY <1>1, <3>1
  <2>5. StrlenAt(buf, behind, q) = CHOOSE k \in Z : \A m \in Z : k <= m
    BY <2>2 DEF StrlenAt
  <2> HIDE DEF Z
  <2> QED BY <2>1, <2>3, <2>4, <2>5
<1>7. t[p] = <<arg>> \o t[r]
  <2>1. t[p] = TextAt(buf, behind, t, p)
    BY <1>3 DEF TextsOf
  <2>2. Len(buf) \in Nat /\ p < Len(buf)
    BY <1>1, <1>3 DEF L
  <2>3. TextAt(buf, behind, t, p) = <<Str_(n)>> \o t[q + n]
    <3>1. ByType(TextAt(buf, behind, t, p), TypeAt(buf, behind, p), StrlenAt(buf, behind, p + 2),
                 BytesAt(buf, behind, p + 2, 4), BytesAt(buf, behind, p + 2, 8), t, p)
      BY <1>3, <1>6, <2>2, TextByType
    <3> QED BY <1>3, <1>6, <2>2, <3>1 DEF ByType
  <2> QED BY <1>1, <2>1, <2>3
<1>8. r = L - 1 /\ r \in Nat /\ r \in 0 .. TextTop(buf) /\ r + 2 \in 0 .. TextTop(buf)
      /\ r + 3 \in 0 .. TextTop(buf) /\ r < L /\ r + 2 >= L /\ r + 3 >= L
      /\ ~(r + 1 < L) /\ ~(r >= L)
  <2>1. L \in Nat /\ r = L - 1 /\ L >= 1
    BY <1>1, <1>2
  <2>2. TextTop(buf) = 2 * L + 12
    BY DEF TextTop, L
  <2> HIDE DEF r
  <2> QED BY <2>1, <2>2
<1>9. t[r + 2] = <<>> /\ t[r + 3] = <<>>
  <2>1. t[r + 2] = TextAt(buf, behind, t, r + 2) /\ t[r + 3] = TextAt(buf, behind, t, r + 3)
    BY <1>8 DEF TextsOf
  <2>2. ~(r + 2 < L) /\ ~(r + 3 < L)
    BY <1>1, <1>8
  <2>3. TextAt(buf, behind, t, r + 2) = <<>>
    BY <1>8, <2>2 DEF TextAt, L
  <2>4. TextAt(buf, behind, t, r + 3) = <<>>
    BY <1>8, <2>2 DEF TextAt, L
  <2> QED BY <2>1, <2>3, <2>4
<1>10. TypeAt(buf, behind, r) = 256 * behind
  <2>1. ByteAt(buf, behind, r + 1) = behind
    BY <1>8 DEF ByteAt, L
  <2> QED BY <1>5, <2>1 DEF TypeAt
<1>11. t[r] = TextAt(buf, behind, t, r)
  BY <1>8 DEF TextsOf
<1>12. CASE behind = 0
  <2>1. TypeAt(buf, behind, r) = 0
    BY <1>10, <1>12
  <2>2. t[r] = <<Char>> \o t[r + 3]
    <3>1. r + 2 + 1 = r + 3 /\ Len(buf) \in Nat /\ r < Len(buf) /\ r \in Nat
      BY <1>1, <1>8 DEF L
    <3> HIDE DEF r
    <3>2. TextAt(buf, behind, t, r) = <<Char>> \o t[r + 2 + 1]
      <4>1. ByType(TextAt(buf, behind, t, r), TypeAt(buf, behind, r), StrlenAt(buf, behind, r + 2),
                   BytesAt(buf, behind, r + 2, 4), BytesAt(buf, behind, r + 2, 8), t, r)
        BY <2>1, <3>1, TextByType
      <4> QED BY <2>1, <3>1, <4>1 DEF ByType, Char
    <3> QED BY <1>11, <3>1, <3>2
  <2>3. t[r] = <<Char>>
    <3>1. <<Char>> \in Seq({Char})
      OBVIOUS
    <3> QED BY <2>2, <1>9, <3>1, ConcatEmptySeq
  <2> QED BY <1>7, <2>3 DEF StrRead
<1>13. CASE behind = 1
  <2>1. TypeAt(buf, behind, r) = 256
    BY <1>10, <1>13
  <2>2. t[r] = t[r + 2]
    <3>1. Len(buf) \in Nat /\ r < Len(buf) /\ r \in Nat /\ 256 \notin {0, 2, 8, 12}
      BY <1>1, <1>8 DEF L
    <3> HIDE DEF r
    <3>2. TextAt(buf, behind, t, r) = t[r + 2]
      <4>1. ByType(TextAt(buf, behind, t, r), TypeAt(buf, behind, r), StrlenAt(buf, behind, r + 2),
                   BytesAt(buf, behind, r + 2, 4), BytesAt(buf, behind, r + 2, 8), t, r)
        BY <2>1, <3>1, TextByType
      <4> QED BY <2>1, <3>1, <4>1 DEF ByType
    <3> QED BY <1>11, <3>2
  <2> QED BY <1>7, <1>9, <2>2 DEF StrRead
<1> QED BY <1>12, <1>13

-----------------------------------------------------------------------------
(* Where the arguments of an item stand.                                   *)

LEMMA StandsJoined ==
  ASSUME NEW b \in Seq(Nat), NEW arg \in Argument
  PROVE  /\ b \o Chunk(arg) \in Seq(Nat)
         /\ Len(b \o Chunk(arg)) = Len(b) + Len(Chunk(arg))
         /\ StandsAt(b \o Chunk(arg), Len(b), arg)
<1> DEFINE c == Chunk(arg)
           d == b \o c
           n == Len(b)
           k == Len(c)
<1>1. c \in Seq(Nat) /\ k \in Nat /\ n \in Nat
  <2>1. c \in Seq(Nat)
    BY ChunkRight
  <2> HIDE DEF c
  <2> QED BY <2>1
<1> HIDE DEF c
<1>2. d \in Seq(Nat) /\ Len(d) = n + k /\ \A i \in 1 .. n + k : d[i] = IF i <= n THEN b[i] ELSE c[i - n]
  <2>1. b \in Seq(Nat) /\ c \in Seq(Nat)
    BY <1>1
  <2> QED BY <2>1, ConcatProperties
<1> HIDE DEF d, n, k
<1>3. ASSUME NEW i \in 1 .. k PROVE d[n + i] = c[i]
  <2>1. n + i \in 1 .. n + k /\ ~(n + i <= n) /\ (n + i) - n = i
    BY <1>1
  <2> QED BY <1>2, <2>1
<1> QED BY <1>1, <1>2, <1>3 DEF StandsAt, c, d, n, k

LEMMA StandsStill ==
  ASSUME NEW b \in Seq(Nat), NEW p, NEW arg \in Argument, StandsAt(b, p, arg), NEW e \in Seq(Nat)
  PROVE  StandsAt(b \o e, p, arg)
<1> DEFINE d == b \o e
           n == Len(b)
           k == Len(e)
           c == Chunk(arg)
           l == Len(c)
<1>1. d \in Seq(Nat) /\ Len(d) = n + k /\ \A i \in 1 .. n + k : d[i] = IF i <= n THEN b[i] ELSE e[i - n]
  <2>1. b \in Seq(Nat) /\ e \in Seq(Nat)
    OBVIOUS
  <2> QED BY <2>1, ConcatProperties
<1>2. n \in Nat /\ k \in Nat /\ l \in Nat
  <2>1. c \in Seq(Nat)
    BY ChunkRight
  <2> HIDE DEF c
  <2> QED BY <2>1
<1>3. p \in Nat /\ p + l <= n /\ \A i \in 1 .. l : b[p + i] = c[i]
  BY DEF StandsAt
<1> HIDE DEF c, d, n, k, l
<1>4. ASSUME NEW i \in 1 .. l PROVE d[p + i] = c[i]
  <2>1. p + i \in 1 .. n + k /\ p + i <= n
    BY <1>2, <1>3
  <2> QED BY <1>1, <1>3, <2>1
<1>5. p + l <= Len(d)
  BY <1>1, <1>2, <1>3
<1> QED BY <1>3, <1>4, <1>5 DEF StandsAt, c, d, l

\* After the first k arguments.
LEMMA StepBytes ==
  ASSUME NEW item \in Seq(Argument), NEW s, Steps_(s, item), NEW k \in 1 .. Len(item)
  PROVE  /\ item[k] \in Argument
         /\ s[k - 1].buf \in Seq(Nat)
         /\ s[k].buf = s[k - 1].buf \o Chunk(item[k])
<1>1. k - 1 \in 0 .. Len(item) /\ item[k] \in Argument
  OBVIOUS
<1>2. s[k - 1] \in BufState
  BY <1>1, StepsRight DEF StepOK
<1>3. s[k] = StoreArg(s[k - 1], item[k])
  BY DEF Steps_
<1> DEFINE b == s[k - 1]
           a == item[k]
<1>4. StoreArg(b, a).buf = b.buf \o Chunk(a)
  BY <1>1, <1>2, StoreArgRight
<1> QED BY <1>1, <1>2, <1>3, <1>4 DEF BufState

LEMMA ArgStands ==
  ASSUME NEW item \in Seq(Argument), NEW s, Steps_(s, item), NEW k \in 1 .. Len(item)
  PROVE  \A m \in k .. Len(item) : StandsAt(s[m].buf, Len(s[k - 1].buf), item[k])
<1> DEFINE n == Len(item)
           p == Len(s[k - 1].buf)
           T == {m \in k .. n : ~StandsAt(s[m].buf, p, item[k])}
<1>0. n \in Nat /\ k \in Nat /\ item[k] \in Argument
  OBVIOUS
<1>1. SUFFICES ASSUME T # {} PROVE FALSE
  OBVIOUS
<1>2. PICK m \in T : \A j \in T : m <= j
  <2>1. T \in SUBSET Nat
    BY <1>0
  <2> HIDE DEF T
  <2> QED BY <1>1, <2>1, LeastNumber
<1>3. m \in k .. n /\ ~StandsAt(s[m].buf, p, item[k])
  OBVIOUS
<1>4. CASE m = k
  <2> DEFINE b == s[k - 1].buf
             a == item[k]
  <2>1. s[k].buf = b \o Chunk(a) /\ b \in Seq(Nat) /\ a \in Argument
    BY StepBytes
  <2> HIDE DEF b, a
  <2>2. StandsAt(b \o Chunk(a), Len(b), a)
    BY <2>1, StandsJoined
  <2> QED BY <1>3, <1>4, <2>1, <2>2 DEF b, a
<1>5. CASE m # k
  <2>1. m - 1 \in k .. n /\ m \in 1 .. n
    BY <1>0, <1>3, <1>5
  <2>2. m - 1 \notin T
    <3>1. m \in Nat /\ ~(m <= m - 1)
      BY <1>0, <1>3
    <3> HIDE DEF T
    <3> QED BY <1>2, <3>1
  <2>3. StandsAt(s[m - 1].buf, p, item[k])
    BY <2>1, <2>2
  <2> DEFINE b == s[m - 1].buf
             a == item[m]
             e == Chunk(a)
  <2>4. s[m].buf = b \o e /\ b \in Seq(Nat) /\ a \in Argument
    BY <2>1, StepBytes
  <2>5. e \in Seq(Nat)
    BY <2>4, ChunkRight
  <2>6. StandsAt(b, p, item[k])
    BY <2>3
  <2> HIDE DEF b, e, p
  <2>7. StandsAt(b \o e, p, item[k])
    BY <1>0, <2>4, <2>5, <2>6, StandsStill
  <2> QED BY <1>3, <2>4, <2>7
<1> QED BY <1>4, <1>5

-----------------------------------------------------------------------------
(* The text of an item.                                                    *)

RestOf(item, k) == [i \in 1 .. Len(item) - k |-> item[k + i]]
EndsOf(item) == {<<>>} \cup {c \in {<<Char>>} : item # <<>> /\ item[Len(item)].type = "str"}

Read_(t, item, p, k) == \E c \in EndsOf(item) : t[p] = RestOf(item, k) \o c

LEMMA RestRight ==
  ASSUME NEW item \in Seq(Argument), NEW k \in 1 .. Len(item)
  PROVE  RestOf(item, k) \in Seq(Argument) /\ RestOf(item, k - 1) = <<item[k]>> \o RestOf(item, k)
<1> DEFINE n == Len(item)
           r == RestOf(item, k)
           h == <<item[k]>>
           d == h \o r
<1>1. n \in Nat /\ k \in 1 .. n /\ k \in Nat /\ \A i \in 1 .. n : item[i] \in Argument
  OBVIOUS
<1>2. r \in Seq(Argument) /\ Len(r) = n - k /\ \A i \in 1 .. n - k : r[i] = item[k + i]
  <2>1. r = [i \in 1 .. n - k |-> item[k + i]] /\ n - k \in Nat
    BY <1>1 DEF RestOf
  <2>2. \A i \in 1 .. n - k : item[k + i] \in Argument
    <3>1. \A i \in 1 .. n - k : k + i \in 1 .. n
      BY <1>1
    <3> QED BY <1>1, <3>1
  <2> HIDE DEF r, n
  <2> QED BY <2>1, <2>2
<1>3. h \in Seq(Argument) /\ Len(h) = 1 /\ h[1] = item[k]
  BY <1>1
<1> HIDE DEF r, h
<1>4. d \in Seq(Argument) /\ Len(d) = Len(h) + Len(r)
      /\ \A i \in 1 .. Len(h) + Len(r) : d[i] = IF i <= Len(h) THEN h[i] ELSE r[i - Len(h)]
  <2>1. h \in Seq(Argument) /\ r \in Seq(Argument)
    BY <1>2, <1>3
  <2> QED BY <2>1, ConcatProperties
<1> HIDE DEF d, n
<1>5. 1 + (n - k) = n - (k - 1) /\ n - k \in Nat
  BY <1>1
<1>6. d = [i \in 1 .. n - (k - 1) |-> d[i]]
  <2>1. Len(d) = n - (k - 1)
    BY <1>2, <1>3, <1>4, <1>5
  <2> QED BY <1>4, <2>1
<1>7. ASSUME NEW i \in 1 .. n - (k - 1) PROVE d[i] = item[k - 1 + i]
  <2>1. i \in 1 .. Len(h) + Len(r)
    BY <1>2, <1>3, <1>5
  <2>2. CASE i = 1
    <3>1. k - 1 + i = k
      BY <1>1, <2>2
    <3> QED BY <1>3, <1>4, <2>1, <2>2, <3>1
  <2>3. CASE i # 1
    <3>1. i - 1 \in 1 .. n - k /\ k + (i - 1) = k - 1 + i /\ ~(i <= 1)
      BY <1>1, <1>5, <2>3
    <3> QED BY <1>2, <1>3, <1>4, <2>1, <3>1
  <2> QED BY <2>2, <2>3
<1>8. RestOf(item, k - 1) = d
  <2>1. RestOf(item, k - 1) = [i \in 1 .. n - (k - 1) |-> item[k - 1 + i]]
    BY DEF RestOf, n
  <2> QED BY <1>6, <1>7, <2>1
<1> QED BY <1>2, <1>8 DEF d, h, r

\* One more argument before what is read already.
LEMMA ReadMore ==
  ASSUME NEW item \in Seq(Argument), NEW k \in 1 .. Len(item), NEW t, NEW p, NEW q,
         Read_(t, item, q, k), t[p] = <<item[k]>> \o t[q]
  PROVE  Read_(t, item, p, k - 1)
<1> DEFINE V == Argument \cup {Char}
           h == <<item[k]>>
           r == RestOf(item, k)
<1>1. PICK c \in EndsOf(item) : t[q] = r \o c
  BY DEF Read_
<1>2. h \in Seq(V) /\ r \in Seq(V) /\ c \in Seq(V)
  <2>1. item[k] \in Argument /\ r \in Seq(Argument)
    BY RestRight
  <2>2. c = <<>> \/ c = <<Char>>
    BY DEF EndsOf
  <2>3. Argument \subseteq V /\ Char \in V
    OBVIOUS
  <2> HIDE DEF r, V
  <2>4. h \in Seq(V) /\ <<>> \in Seq(V) /\ <<Char>> \in Seq(V)
    BY <2>1, <2>3
  <2>5. r \in Seq(V)
    <3>1. Len(r) \in Nat /\ r = [i \in 1 .. Len(r) |-> r[i]] /\ \A i \in 1 .. Len(r) : r[i] \in Argument
      BY <2>1
    <3>2. \A i \in 1 .. Len(r) : r[i] \in V
      BY <2>3, <3>1
    <3> QED BY <3>1, <3>2
  <2> QED BY <2>2, <2>4, <2>5
<1>3. RestOf(item, k - 1) = h \o r
  BY RestRight
<1> HIDE DEF h, r, V
<1>4. (h \o r) \o c = h \o (r \o c)
  BY <1>2, ConcatAssociative
<1>5. t[p] = RestOf(item, k - 1) \o c
  BY <1>1, <1>3, <1>4 DEF h
<1> QED BY <1>5 DEF Read_

LEMMA ItemReads ==
  ASSUME NEW item \in Seq(Argument), NEW behind \in {0, 1},
         \A j \in 1 .. Len(item) - 1 : item[j].type # "str"
  PROVE  \E c \in EndsOf(item) : ReadOut(Stored(item).buf, behind) = item \o c
<1> DEFINE n == Len(item)
           buf == Stored(item).buf
<1>1. PICK s : Steps_(s, item)
  BY StoredSteps
<1> DEFINE P(k) == Len(s[k].buf)
<1>2. n \in Nat /\ s[n].buf = buf /\ s[0].buf = <<>> /\ \A k \in 0 .. n : s[k].buf \in Seq(Nat)
  <2>1. \A k \in 0 .. n : s[k] \in BufState
    BY <1>1, StepsRight DEF StepOK
  <2>2. s[n].buf = buf /\ s[0].buf = <<>>
    BY <1>1 DEF Steps_, EmptyBuf
  <2> QED BY <2>1, <2>2 DEF BufState
<1>3. buf \in Seq(Nat)
  <2>1. n \in 0 .. n
    BY <1>2
  <2> HIDE DEF buf, n
  <2> QED BY <1>2, <2>1
<1> HIDE DEF buf
<1>4. PICK t : (\A p \in 0 .. TextTop(buf) : t[p] = TextAt(buf, behind, t, p))
               /\ ReadOut(buf, behind) = t[0]
  BY <1>3, ReadTexts
<1>5. TextsOf(t, buf, behind)
  BY <1>4 DEF TextsOf
<1>6. ASSUME NEW k \in 1 .. n
      PROVE  /\ StandsAt(buf, P(k - 1), item[k]) /\ P(k - 1) \in Nat /\ item[k] \in Argument
             /\ P(k) = P(k - 1) + Len(Chunk(item[k]))
  <2>1. k - 1 \in 0 .. n /\ n \in k .. n /\ item[k] \in Argument
    BY <1>2
  <2>2. StandsAt(s[n].buf, P(k - 1), item[k])
    BY <1>1, <2>1, ArgStands
  <2> DEFINE b == s[k - 1].buf
             a == item[k]
  <2>3. s[k].buf = b \o Chunk(a) /\ b \in Seq(Nat) /\ a \in Argument
    BY <1>1, StepBytes
  <2> HIDE DEF b, a
  <2>4. Len(b \o Chunk(a)) = Len(b) + Len(Chunk(a)) /\ Len(b) \in Nat
    BY <2>3, StandsJoined
  <2> QED BY <1>2, <2>1, <2>2, <2>3, <2>4 DEF b, a
<1>7. ASSUME NEW k \in 1 .. n, Read_(t, item, P(k), k)
      PROVE  Read_(t, item, P(k - 1), k - 1)
  <2> DEFINE a == item[k]
             p == P(k - 1)
             q == P(k)
  <2>1. StandsAt(buf, p, a) /\ p \in Nat /\ a \in Argument /\ q = p + Len(Chunk(a))
    BY <1>6
  <2>2. Read_(t, item, q, k)
    BY <1>7
  <2> HIDE DEF p, q, a
  <2>3. Len(Chunk(a)) = 2 + Len(ArgBytes(a))
    BY <2>1, ChunkRight
  <2>4. CASE a.type = "num"
    <3>1. a = Num /\ Len(ArgBytes(a)) = 4
      BY <2>1, <2>4, ArgRight DEF ArgOK, NumBytes
    <3>2. StandsAt(buf, p, Num) /\ q = p + 6
      BY <2>1, <2>3, <3>1
    <3>3. t[p] = <<Num>> \o t[p + 6]
      BY <1>3, <1>5, <2>1, <3>2, ReadNum
    <3> QED BY <2>2, <3>1, <3>2, <3>3, ReadMore DEF a, p
  <2>5. CASE a.type = "lit"
    <3>1. a = Lit /\ Len(ArgBytes(a)) = 8
      BY <2>1, <2>5, ArgRight DEF ArgOK, PtrBytes
    <3>2. StandsAt(buf, p, Lit) /\ q = p + 10
      BY <2>1, <2>3, <3>1
    <3>3. t[p] = <<Lit>> \o t[p + 10]
      BY <1>3, <1>5, <2>1, <3>2, ReadLit
    <3> QED BY <2>2, <3>1, <3>2, <3>3, ReadMore DEF a, p
  <2>6. CASE a.type = "str"
    <3>1. k = n
      <4>1. ~(k \in 1 .. n - 1)
        BY <2>6 DEF a
      <4> QED BY <1>2, <4>1
    <3>2. q = Len(buf)
      BY <1>2, <3>1 DEF q
    <3>3. p + Len(Chunk(a)) = Len(buf)
      BY <2>1, <3>2
    <3>4. t[p] = <<a>> \o <<>> \/ t[p] = <<a>> \o <<Char>>
      <4>1. StrRead(t[p], a)
        BY <1>3, <1>5, <2>1, <2>6, <3>3, ReadStr
      <4> QED BY <4>1 DEF StrRead
    <3>5. RestOf(item, k - 1) = <<a>>
      <4>1. RestOf(item, k - 1) = <<a>> \o RestOf(item, k)
        BY RestRight DEF a
      <4>2. RestOf(item, k) = <<>>
        <5>1. 1 .. n - n = {}
          BY <1>2
        <5>2. RestOf(item, n) = <<>>
          BY <5>1 DEF RestOf
        <5> QED BY <3>1, <5>2
      <4>3. <<a>> \in Seq({a})
        OBVIOUS
      <4> QED BY <4>1, <4>2, <4>3, ConcatEmptySeq
    <3>6. <<>> \in EndsOf(item) /\ <<Char>> \in EndsOf(item)
      <4>1. item # <<>> /\ item[n].type = "str"
        BY <3>1, <2>6 DEF a
      <4> QED BY <4>1 DEF EndsOf
    <3> QED BY <3>4, <3>5, <3>6 DEF Read_, p
  <2> QED BY <2>1, <2>4, <2>5, <2>6, ArgRight DEF ArgOK
<1>8. Read_(t, item, P(n), n)
  <2>1. P(n) = Len(buf) /\ Len(buf) \in Nat
    BY <1>2, <1>3
  <2>2. Len(buf) \in 0 .. TextTop(buf) /\ ~(Len(buf) < Len(buf)) /\ Len(buf) >= Len(buf)
    BY <2>1 DEF TextTop
  <2>3. t[Len(buf)] = <<>>
    BY <1>4, <2>2 DEF TextAt
  <2>4. RestOf(item, n) = <<>>
    <3>1. 1 .. n - n = {}
      BY <1>2
    <3> QED BY <3>1 DEF RestOf
  <2>5. <<>> \in EndsOf(item) /\ <<>> \o <<>> = <<>>
    BY DEF EndsOf
  <2> QED BY <2>1, <2>3, <2>4, <2>5 DEF Read_
<1>9. Read_(t, item, P(0), 0)
  <2> DEFINE T == {m \in 0 .. n : Read_(t, item, P(m), m)}
  <2>1. T \in SUBSET Nat /\ n \in T
    BY <1>2, <1>8
  <2>2. PICK m \in T : \A j \in T : m <= j
    <3> HIDE DEF T
    <3> QED BY <2>1, LeastNumber
  <2>3. CASE m = 0
    BY <2>3
  <2>4. CASE m # 0
    <3>1. m \in 1 .. n /\ m - 1 \in 0 .. n /\ Read_(t, item, P(m), m)
      BY <1>2, <2>4
    <3>2. Read_(t, item, P(m - 1), m - 1)
      BY <1>7, <3>1
    <3>3. m - 1 \in T
      BY <3>1, <3>2
    <3>4. m \in Nat /\ ~(m <= m - 1)
      BY <3>1
    <3> HIDE DEF T
    <3> QED BY <2>2, <3>3, <3>4
  <2> QED BY <2>3, <2>4
<1>10. P(0) = 0
  BY <1>2
<1>11. RestOf(item, 0) = item
  <2>1. RestOf(item, 0) = [i \in 1 .. n |-> item[i]]
    <3>1. n - 0 = n /\ \A i \in 1 .. n : 0 + i = i
      BY <1>2
    <3> QED BY <3>1 DEF RestOf
  <2> QED BY <2>1
<1> QED BY <1>4, <1>9, <1>10, <1>11 DEF Read_, buf

-----------------------------------------------------------------------------
(* The logger.                                                             *)

\* A line of the file: an item and what was read of it.
Line == {[item |-> i, text |-> ReadOut(Stored(i).buf, behind)] : i \in Items, behind \in {0, 1}}

\* What was pushed is what was written and then what is in the queue.
QueueOK ==
  /\ Len(pushed) = Len(written) + Len(items_)
  /\ \A i \in 1 .. Len(written) : written[i].item = pushed[i]
  /\ \A i \in 1 .. Len(items_) : items_[i] = pushed[Len(written) + i]

LogInv ==
  /\ LoggerTypeOK
  /\ \A u \in Users : user[u].at = "pushing" => user[u].item \in Items
  /\ opened = IF is_open_ THEN 1 ELSE 0
  /\ written \in Seq(Line)
  /\ QueueOK

LEMMA LogInitInv == LoggerInit => LogInv
<1> SUFFICES ASSUME LoggerInit PROVE LogInv
  OBVIOUS
<1>1. LoggerTypeOK
  <2>1. IdleUser \in [at : {"idle", "opening", "pushing"}, item : Items \cup {<<>>}]
    BY DEF IdleUser
  <2>2. user \in [Users -> [at : {"idle", "opening", "pushing"}, item : Items \cup {<<>>}]]
    BY <2>1 DEF LoggerInit
  <2>3. items_ \in Seq(Items) /\ pushed \in Seq(Items) /\ opened \in Nat
    BY DEF LoggerInit
  <2> QED BY <2>2, <2>3 DEF LoggerInit, LoggerTypeOK
<1>2. \A u \in Users : user[u].at = "pushing" => user[u].item \in Items
  BY DEF LoggerInit, IdleUser
<1>3. opened = (IF is_open_ THEN 1 ELSE 0) /\ written \in Seq(Line) /\ QueueOK
  BY DEF LoggerInit, QueueOK
<1> QED BY <1>1, <1>2, <1>3 DEF LogInv

\* Users change their state, the rest but the file stays.
LEMMA UserMoves ==
  ASSUME LogInv, NEW u \in Users, NEW a \in {"idle", "opening", "pushing"}, NEW i \in Items \cup {<<>>},
         user' = [user EXCEPT ![u] = [at |-> a, item |-> i]], a = "pushing" => i \in Items
  PROVE  /\ user' \in [Users -> [at : {"idle", "opening", "pushing"}, item : Items \cup {<<>>}]]
         /\ \A v \in Users : user'[v].at = "pushing" => user'[v].item \in Items
<1>1. user \in [Users -> [at : {"idle", "opening", "pushing"}, item : Items \cup {<<>>}]]
      /\ \A v \in Users : user[v].at = "pushing" => user[v].item \in Items
  BY DEF LogInv, LoggerTypeOK
<1>2. [at |-> a, item |-> i] \in [at : {"idle", "opening", "pushing"}, item : Items \cup {<<>>}]
  OBVIOUS
<1>3. user' \in [Users -> [at : {"idle", "opening", "pushing"}, item : Items \cup {<<>>}]]
  BY <1>1, <1>2
<1>4. ASSUME NEW v \in Users, user'[v].at = "pushing" PROVE user'[v].item \in Items
  <2>1. CASE v = u
    <3>1. user'[v] = [at |-> a, item |-> i]
      BY <1>1, <2>1
    <3> QED BY <1>4, <3>1
  <2>2. CASE v # u
    <3>1. user'[v] = user[v]
      BY <1>1, <2>2
    <3> QED BY <1>1, <1>4, <3>1
  <2> QED BY <2>1, <2>2
<1> QED BY <1>3, <1>4

LEMMA LogNextInv == LogInv /\ [LoggerNext]_logVars_ => LogInv'
<1> SUFFICES ASSUME LogInv, [LoggerNext]_logVars_ PROVE LogInv'
  OBVIOUS
<1> DEFINE States == [at : {"idle", "opening", "pushing"}, item : Items \cup {<<>>}]
<1>1. /\ user \in [Users -> States]
      /\ logger \in {"start", "waiting", "writing", "done"} /\ mtx_ \in {"free", "logger"}
      /\ is_open_ \in BOOLEAN /\ notifiedCv \in BOOLEAN /\ stop_ \in BOOLEAN
      /\ items_ \in Seq(Items) /\ pushed \in Seq(Items) /\ opened \in Nat
      /\ \A u \in Users : user[u].at = "pushing" => user[u].item \in Items
      /\ opened = IF is_open_ THEN 1 ELSE 0
      /\ written \in Seq(Line) /\ QueueOK
  BY DEF LogInv, LoggerTypeOK
<1> DEFINE UsersOK == /\ user' \in [Users -> States]
                      /\ \A u \in Users : user'[u].at = "pushing" => user'[u].item \in Items
           FileOK == /\ is_open_' \in BOOLEAN /\ notifiedCv' \in BOOLEAN /\ stop_' \in BOOLEAN
                     /\ logger' \in {"start", "waiting", "writing", "done"} /\ mtx_' \in {"free", "logger"}
                     /\ opened' \in Nat /\ opened' = IF is_open_' THEN 1 ELSE 0
           LinesOK == /\ items_' \in Seq(Items) /\ pushed' \in Seq(Items) /\ written' \in Seq(Line)
                      /\ QueueOK'
<1>2. UsersOK /\ FileOK /\ LinesOK => LogInv'
  BY DEF LogInv, LoggerTypeOK
<1>3. ASSUME UNCHANGED <<items_, pushed, written>> PROVE LinesOK
  BY <1>1, <1>3 DEF QueueOK
<1>4. ASSUME UNCHANGED user PROVE UsersOK
  BY <1>1, <1>4
<1>5. ASSUME UNCHANGED <<logger, mtx_, is_open_, notifiedCv, stop_, opened>> PROVE FileOK
  BY <1>1, <1>5
<1>6. ASSUME NEW u \in Users, Log(u) PROVE LogInv'
  <2>1. PICK i \in Items : user' = [user EXCEPT ![u] = [at |-> IF is_open_ THEN "pushing" ELSE "opening",
                                                       item |-> i]]
    BY <1>6 DEF Log
  <2> DEFINE a == IF is_open_ THEN "pushing" ELSE "opening"
  <2>2. a \in {"idle", "opening", "pushing"} /\ i \in Items \cup {<<>>}
    OBVIOUS
  <2>3. user' = [user EXCEPT ![u] = [at |-> a, item |-> i]] /\ (a = "pushing" => i \in Items)
    BY <2>1
  <2> HIDE DEF a
  <2>4. UsersOK
    BY <2>2, <2>3, UserMoves
  <2>5. UNCHANGED <<logger, mtx_, is_open_, notifiedCv, stop_, items_, opened, pushed, written>>
    BY <1>6 DEF Log
  <2> HIDE DEF UsersOK, FileOK, LinesOK
  <2> QED BY <1>2, <1>3, <1>5, <2>4, <2>5
<1>7. ASSUME NEW u \in Users, SetFile(u) PROVE LogInv'
  <2>1. user[u] \in States /\ user[u].at = "idle" /\ user' = [user EXCEPT ![u].at = "opening"]
    BY <1>1, <1>7 DEF SetFile
  <2> DEFINE i == user[u].item
  <2>2. i \in Items \cup {<<>>} /\ user' = [user EXCEPT ![u] = [at |-> "opening", item |-> i]]
    <3>1. [user[u] EXCEPT !.at = "opening"] = [at |-> "opening", item |-> i]
      BY <2>1
    <3> QED BY <2>1, <3>1
  <2> HIDE DEF i
  <2>3. UsersOK
    BY <2>2, UserMoves
  <2>4. UNCHANGED <<logger, mtx_, is_open_, notifiedCv, stop_, items_, opened, pushed, written>>
    BY <1>7 DEF SetFile
  <2> HIDE DEF UsersOK, FileOK, LinesOK
  <2> QED BY <1>2, <1>3, <1>5, <2>3, <2>4
<1>8. ASSUME NEW u \in Users, OpenLog(u) PROVE LogInv'
  <2>1. user[u] \in States /\ user[u].at = "opening"
    BY <1>1, <1>8 DEF OpenLog
  <2>2. UsersOK
    <3>1. CASE user[u].item = <<>>
      <4>1. user' = [user EXCEPT ![u] = [at |-> "idle", item |-> <<>>]]
        BY <1>1, <1>8, <3>1 DEF OpenLog, IdleUser
      <4> QED BY <4>1, UserMoves
    <3>2. CASE user[u].item # <<>>
      <4> DEFINE i == user[u].item
      <4>1. i \in Items /\ i \in Items \cup {<<>>}
        BY <2>1, <3>2
      <4>2. user' = [user EXCEPT ![u] = [at |-> "pushing", item |-> i]]
        <5>1. [user[u] EXCEPT !.at = "pushing"] = [at |-> "pushing", item |-> i]
          BY <2>1
        <5> QED BY <1>1, <1>8, <3>2, <5>1 DEF OpenLog
      <4> HIDE DEF i
      <4> QED BY <4>1, <4>2, UserMoves
    <3> QED BY <3>1, <3>2
  <2>3. FileOK
    <3>1. /\ (~is_open_ /\ is_open_' = TRUE /\ opened' = opened + 1) \/ UNCHANGED <<is_open_, opened>>
          /\ UNCHANGED <<logger, mtx_, stop_>>
      BY <1>8 DEF OpenLog, Opens
    <3>2. notifiedCv' \in BOOLEAN
      BY <1>1, <1>8 DEF OpenLog, Opens
    <3>3. CASE ~is_open_ /\ is_open_' = TRUE /\ opened' = opened + 1
      BY <1>1, <3>1, <3>2, <3>3
    <3>4. CASE UNCHANGED <<is_open_, opened>>
      BY <1>1, <3>1, <3>2, <3>4
    <3> QED BY <3>1, <3>3, <3>4
  <2>4. UNCHANGED <<items_, pushed, written>>
    BY <1>8 DEF OpenLog
  <2> HIDE DEF UsersOK, FileOK, LinesOK
  <2> QED BY <1>2, <1>3, <2>2, <2>3, <2>4
<1>9. ASSUME NEW u \in Users, Push(u) PROVE LogInv'
  <2> DEFINE i == user[u].item
             n == Len(items_)
             w == Len(written)
             m == Len(pushed)
  <2>1. i \in Items /\ items_' = Append(items_, i) /\ pushed' = Append(pushed, i)
        /\ user' = [user EXCEPT ![u] = [at |-> "idle", item |-> <<>>]]
    BY <1>1, <1>9 DEF Push, IdleUser
  <2>2. UNCHANGED <<logger, mtx_, is_open_, notifiedCv, stop_, opened, written>>
    BY <1>9 DEF Push
  <2>3. UsersOK
    BY <2>1, UserMoves
  <2>4. n \in Nat /\ w \in Nat /\ m \in Nat /\ m = w + n
    BY <1>1 DEF QueueOK
  <2>5. /\ items_' \in Seq(Items) /\ Len(items_') = n + 1
        /\ \A j \in 1 .. n : items_'[j] = items_[j]
        /\ items_'[n + 1] = i
    BY <1>1, <2>1
  <2>6. /\ pushed' \in Seq(Items) /\ Len(pushed') = m + 1
        /\ \A j \in 1 .. m : pushed'[j] = pushed[j]
        /\ pushed'[m + 1] = i
    BY <1>1, <2>1
  <2>7. QueueOK'
    <3>1. /\ \A j \in 1 .. w : written[j].item = pushed[j]
          /\ \A j \in 1 .. n : items_[j] = pushed[w + j]
      BY <1>1 DEF QueueOK
    <3>2. written' = written
      BY <2>2
    <3>3. ASSUME NEW j \in 1 .. w PROVE written[j].item = pushed'[j]
      <4>1. j \in 1 .. m
        BY <2>4
      <4> QED BY <2>6, <3>1, <4>1
    <3>4. ASSUME NEW j \in 1 .. n + 1 PROVE items_'[j] = pushed'[w + j]
      <4>1. CASE j = n + 1
        <5>1. w + j = m + 1
          BY <2>4, <4>1
        <5> QED BY <2>5, <2>6, <4>1, <5>1
      <4>2. CASE j # n + 1
        <5>1. j \in 1 .. n /\ w + j \in 1 .. m
          BY <2>4, <4>2
        <5> QED BY <2>5, <2>6, <3>1, <5>1
      <4> QED BY <4>1, <4>2
    <3>5. m + 1 = w + (n + 1)
      BY <2>4
    <3> QED BY <2>5, <2>6, <3>2, <3>3, <3>4, <3>5 DEF QueueOK
  <2>8. LinesOK
    BY <1>1, <2>2, <2>5, <2>6, <2>7
  <2> HIDE DEF UsersOK, FileOK, LinesOK
  <2> QED BY <1>2, <1>5, <2>2, <2>3, <2>8
<1>10. ASSUME WriteOne PROVE LogInv'
  <2> DEFINE n == Len(items_)
             w == Len(written)
             m == Len(pushed)
  <2>1. n \in Nat /\ w \in Nat /\ m \in Nat /\ m = w + n /\ items_ # <<>> /\ n >= 1
    BY <1>1, <1>10 DEF QueueOK, WriteOne
  <2>2. PICK behind \in {0, 1} :
          written' = Append(written, [item |-> items_[1], text |-> ReadOut(Stored(items_[1]).buf, behind)])
    BY <1>10 DEF WriteOne, TakenAt
  <2> DEFINE l == [item |-> items_[1], text |-> ReadOut(Stored(items_[1]).buf, behind)]
  <2>3. l \in Line /\ l.item = items_[1]
    <3>1. items_[1] \in Items
      BY <1>1, <2>1
    <3> QED BY <3>1 DEF Line
  <2> HIDE DEF l
  <2>4. /\ written' \in Seq(Line) /\ Len(written') = w + 1
        /\ \A j \in 1 .. w : written'[j] = written[j]
        /\ written'[w + 1] = l
    <3>1. written' = Append(written, l) /\ written \in Seq(Line)
      BY <1>1, <2>2 DEF l
    <3> HIDE DEF w
    <3> QED BY <2>3, <3>1 DEF w
  <2>5. items_' = SubSeq(items_, 1, 0) \o SubSeq(items_, 2, n)
    <3>1. items_' = RemoveAt(items_, 1)
      BY <1>10 DEF WriteOne, TakenAt
    <3> QED BY <3>1 DEF RemoveAt
  <2>6. items_' = Tail(items_)
    <3>1. SubSeq(items_, 1, 0) = <<>>
      BY <1>1
    <3>2. SubSeq(items_, 2, n) \in Seq(Items) /\ SubSeq(items_, 2, n) = Tail(items_)
      BY <1>1, <2>1
    <3> QED BY <2>5, <3>1, <3>2
  <2>7. items_' \in Seq(Items) /\ Len(items_') = n - 1 /\ \A j \in 1 .. n - 1 : items_'[j] = items_[j + 1]
    BY <1>1, <2>1, <2>6
  <2>8. UNCHANGED <<user, logger, mtx_, is_open_, notifiedCv, stop_, opened, pushed>>
    BY <1>10 DEF WriteOne
  <2>9. QueueOK'
    <3>1. /\ \A j \in 1 .. w : written[j].item = pushed[j]
          /\ \A j \in 1 .. n : items_[j] = pushed[w + j]
      BY <1>1 DEF QueueOK
    <3>2. ASSUME NEW j \in 1 .. w + 1 PROVE written'[j].item = pushed[j]
      <4>1. CASE j = w + 1
        <5>1. 1 \in 1 .. n
          BY <2>1
        <5> QED BY <2>3, <2>4, <3>1, <4>1, <5>1
      <4>2. CASE j # w + 1
        <5>1. j \in 1 .. w
          BY <2>1, <4>2
        <5> QED BY <2>4, <3>1, <5>1
      <4> QED BY <4>1, <4>2
    <3>3. ASSUME NEW j \in 1 .. n - 1 PROVE items_'[j] = pushed[w + 1 + j]
      <4>1. j + 1 \in 1 .. n /\ w + (j + 1) = w + 1 + j
        BY <2>1
      <4> QED BY <2>7, <3>1, <4>1
    <3>4. m = (w + 1) + (n - 1) /\ pushed' = pushed
      BY <2>1, <2>8
    <3> QED BY <2>4, <2>7, <3>2, <3>3, <3>4 DEF QueueOK
  <2>10. LinesOK
    BY <1>1, <2>4, <2>7, <2>8, <2>9
  <2> HIDE DEF UsersOK, FileOK, LinesOK
  <2> QED BY <1>2, <1>4, <1>5, <2>8, <2>10
<1>11. ASSUME Destroy \/ Wait_ \/ EndLog PROVE LogInv'
  <2>1. UNCHANGED <<user, items_, pushed, written, is_open_, opened>>
    BY <1>11 DEF Destroy, Wait_, EndLog
  <2>2. FileOK
    BY <1>1, <1>11, <2>1 DEF Destroy, Wait_, EndLog
  <2> HIDE DEF UsersOK, FileOK, LinesOK
  <2> QED BY <1>2, <1>3, <1>4, <2>1, <2>2
<1>12. ASSUME UNCHANGED logVars_ PROVE LogInv'
  <2>1. UNCHANGED <<user, logger, mtx_, is_open_, notifiedCv, stop_, items_, opened, pushed, written>>
    BY <1>12 DEF logVars_
  <2> HIDE DEF UsersOK, FileOK, LinesOK
  <2> QED BY <1>2, <1>3, <1>4, <1>5, <2>1
<1>13. ASSUME LoggerNext PROVE LogInv'
  <2>1. CASE \E u \in Users : Log(u) \/ SetFile(u) \/ OpenLog(u) \/ Push(u)
    BY <1>6, <1>7, <1>8, <1>9, <2>1
  <2>2. CASE Destroy \/ Wait_ \/ WriteOne \/ EndLog
    BY <1>10, <1>11, <2>2
  <2> QED BY <1>13, <2>1, <2>2 DEF LoggerNext
<1> QED BY <1>12, <1>13

LEMMA LogInvSafe == LogInv => LoggerSafe
<1> SUFFICES ASSUME LogInv PROVE LoggerSafe
  OBVIOUS
<1>1. /\ items_ \in Seq(Items) /\ pushed \in Seq(Items) /\ written \in Seq(Line) /\ QueueOK
      /\ LoggerTypeOK /\ opened = IF is_open_ THEN 1 ELSE 0
  BY DEF LogInv, LoggerTypeOK
<1>2. OpenedOnce
  BY <1>1 DEF OpenedOnce
<1>3. WrittenInOrder
  <2> DEFINE w == Len(written)
             m == Len(pushed)
  <2>1. w \in Nat /\ m \in Nat /\ w <= m /\ \A i \in 1 .. w : written[i].item = pushed[i]
    BY <1>1 DEF QueueOK
  <2>2. SubSeq(pushed, 1, w) = [i \in 1 .. w |-> pushed[i]]
    BY <1>1, <2>1
  <2>3. [i \in 1 .. w |-> written[i].item] = [i \in 1 .. w |-> pushed[i]]
    BY <2>1
  <2> QED BY <2>2, <2>3 DEF WrittenInOrder
<1>4. TextAsLogged
  <2> SUFFICES ASSUME NEW i \in 1 .. Len(written),
                      \A j \in 1 .. Len(written[i].item) - 1 : written[i].item[j].type # "str"
               PROVE  \/ written[i].text = written[i].item
                      \/ /\ written[i].item # <<>> /\ Last(written[i].item).type = "str"
                         /\ written[i].text = Append(written[i].item, [type |-> "char"])
    BY DEF TextAsLogged
  <2>1. written[i] \in Line
    BY <1>1
  <2>2. PICK item \in Items, behind \in {0, 1} :
          written[i] = [item |-> item, text |-> ReadOut(Stored(item).buf, behind)]
    BY <2>1 DEF Line
  <2>3. item \in Seq(Argument) /\ written[i].item = item
        /\ written[i].text = ReadOut(Stored(item).buf, behind)
    BY <2>2, LoggerAssumption
  <2>4. \A j \in 1 .. Len(item) - 1 : item[j].type # "str"
    BY <2>3
  <2>5. PICK c \in EndsOf(item) : ReadOut(Stored(item).buf, behind) = item \o c
    BY <2>3, <2>4, ItemReads
  <2>6. CASE c = <<>>
    <3>1. item \o <<>> = item
      BY <2>3, ConcatEmptySeq
    <3> QED BY <2>3, <2>5, <2>6, <3>1
  <2>7. CASE c # <<>>
    <3>1. c = <<Char>> /\ item # <<>> /\ item[Len(item)].type = "str"
      BY <2>7 DEF EndsOf
    <3>2. item \o <<Char>> = Append(item, Char)
      <4> DEFINE V == Argument \cup {Char}
      <4>1. item \in Seq(V) /\ Char \in V
        <5>1. Argument \subseteq V /\ Char \in V
          OBVIOUS
        <5> HIDE DEF V
        <5>2. Len(item) \in Nat /\ item = [k \in 1 .. Len(item) |-> item[k]]
              /\ \A k \in 1 .. Len(item) : item[k] \in Argument
          BY <2>3
        <5> QED BY <5>1, <5>2
      <4> HIDE DEF V
      <4> QED BY <4>1, AppendIsConcat
    <3> QED BY <2>3, <2>5, <3>1, <3>2 DEF Char, Last
  <2> QED BY <2>6, <2>7
<1>5. OverflowsOnlyLong
  <2> SUFFICES ASSUME NEW i \in 1 .. Len(pushed), Stored(pushed[i]).over
               PROVE  \E j \in 1 .. Len(pushed[i]) : /\ pushed[i][j].type = "str"
                                                     /\ pushed[i][j].len >= StackBuf
    BY DEF OverflowsOnlyLong
  <2>1. pushed[i] \in Seq(Argument)
    BY <1>1, LoggerAssumption
  <2> QED BY <2>1, OverLong
<1> QED BY <1>1, <1>2, <1>3, <1>4, <1>5 DEF LoggerSafe

\* LoggerSafe: whoever logs, the file is opened once and holds the items in the
\* order in which they were pushed; an item without a string before its end is
\* written as it was logged; the buffer overflows only for a string longer than
\* it is (open_log, operator<=, write_log, check_buffer, operator>>).
THEOREM LoggerIsSafe == LoggerSpec => []LoggerSafe
<1>1. LoggerSpec => []LogInv
  BY LogInitInv, LogNextInv, PTL DEF LoggerSpec
<1> QED BY <1>1, LogInvSafe, PTL

=============================================================================
