------------------------------- MODULE Msgbox -------------------------------
(***************************************************************************)
(* xnet::msgbox and the loop proactor_pool registers on it: any thread     *)
(* posts a handle to a proactor's message box; the proactor's io thread    *)
(* runs them.  The io thread blocks in the proactor until a byte arrives   *)
(* on the box's signal socket; a poster writes that byte only when         *)
(* ypipe::flush tells it that the reader has gone to sleep.                *)
(*                                                                         *)
(* The io thread is itself a poster: a handle may post to the box that is  *)
(* running it (proactor_pool::accept_callback does).                       *)
(***************************************************************************)
EXTENDS Ypipe, Sequences

CONSTANTS Poster,        \* the threads that post, the io thread aside
          IoThread,      \* the proactor's own thread
          NoThread,      \* mtx_ is free
          NoHandle,      \* the io thread runs no handle
          MaxPosts       \* bound: posts made by one thread

ASSUME ThreadAssumption ==
  /\ IoThread \notin Poster
  /\ NoThread \notin Poster \cup {IoThread}
  /\ MaxPosts \in Nat

Thread == Poster \cup {IoThread}

\* A handle is named by who posted it and which of its posts it is.
Handle == Thread \X (1 .. MaxPosts)

ASSUME HandleAssumption == NoHandle \notin Handle

VARIABLES pipe,          \* ypipe_
          posted,        \* what the slots of the pipe hold, by position
          holder,        \* owner of mtx_
          pc,            \* where each poster is in msgbox::send
          posts,         \* number of posts each thread has made
          signal,        \* bytes in flight on the signal socket
          io,            \* where the io thread is in its notify loop
          running        \* the handle it is running

vars == <<pipe, posted, holder, pc, posts, signal, io, running>>

SendPc == {"idle", "write", "flush", "wake", "notify"}
IoPc   == {"wait", "check", "take", "run"}

TypeOK ==
  /\ pipe \in PipeType
  /\ posted \in Seq(Handle)
  /\ holder \in Thread \cup {NoThread}
  /\ pc \in [Thread -> SendPc]
  /\ posts \in [Thread -> 0 .. MaxPosts]
  /\ signal \in Nat
  /\ io \in IoPc
  /\ running \in Handle \cup {NoHandle}

-----------------------------------------------------------------------------
(* init() reads once from the empty pipe, which puts the reader to sleep   *)
(* before the first post, and arms async_recv_some on the signal socket.   *)

Init ==
  /\ pipe = CheckRead(NewPipe)
  /\ posted = <<>>
  /\ holder = NoThread
  /\ pc = [t \in Thread |-> "idle"]
  /\ posts = [t \in Thread |-> 0]
  /\ signal = 0
  /\ io = "wait"
  /\ running = NoHandle

-----------------------------------------------------------------------------
(* msgbox::send, one step for each access to what the io thread shares.    *)

\* The lock_guard on mtx_.  The io thread posts only from inside a handle.
SendLock(t) ==
  /\ pc[t] = "idle"
  /\ holder = NoThread
  /\ posts[t] < MaxPosts
  /\ t = IoThread => io = "run"
  /\ holder' = t
  /\ pc' = [pc EXCEPT ![t] = "write"]
  /\ posts' = [posts EXCEPT ![t] = @ + 1]
  /\ UNCHANGED <<pipe, posted, signal, io, running>>

\* ypipe_->write: the handle is in the pipe, not yet visible to the reader.
SendWrite(t) ==
  /\ pc[t] = "write"
  /\ pipe' = Write(pipe)
  /\ posted' = Append(posted, <<t, posts[t]>>)
  /\ pc' = [pc EXCEPT ![t] = "flush"]
  /\ UNCHANGED <<holder, posts, signal, io, running>>

\* The CAS of flush succeeds: the reader is awake and will see the handle.
SendFlush(t) ==
  /\ pc[t] = "flush"
  /\ ReaderAwake(pipe)
  /\ pipe' = Publish(pipe)
  /\ holder' = NoThread
  /\ pc' = [pc EXCEPT ![t] = "idle"]
  /\ UNCHANGED <<posted, posts, signal, io, running>>

\* The CAS fails: the reader is asleep, and flush goes on to the plain store.
SendFlushAsleep(t) ==
  /\ pc[t] = "flush"
  /\ ~ReaderAwake(pipe)
  /\ pc' = [pc EXCEPT ![t] = "wake"]
  /\ UNCHANGED <<pipe, posted, holder, posts, signal, io, running>>

\* c_ = f_; w_ = f_; return false.
SendWake(t) ==
  /\ pc[t] = "wake"
  /\ pipe' = Publish(pipe)
  /\ pc' = [pc EXCEPT ![t] = "notify"]
  /\ UNCHANGED <<posted, holder, posts, signal, io, running>>

\* notify(): one byte on the signal socket; then mtx_ is released.
SendNotify(t) ==
  /\ pc[t] = "notify"
  /\ signal' = signal + 1
  /\ holder' = NoThread
  /\ pc' = [pc EXCEPT ![t] = "idle"]
  /\ UNCHANGED <<pipe, posted, posts, io, running>>

Send(t) == \/ SendLock(t)
           \/ SendWrite(t)
           \/ SendFlush(t)
           \/ SendFlushAsleep(t)
           \/ SendWake(t)
           \/ SendNotify(t)

-----------------------------------------------------------------------------
(* The io thread.                                                          *)

\* Mutant: the receive completes whether or not a byte has come.
RecvNothing ==
  /\ io = "wait"
  /\ signal' = signal - 1
  /\ io' = "check"
  /\ UNCHANGED <<pipe, posted, holder, pc, posts, running>>

\* The receive on the signal socket completes with some of the bytes sent,
\* and signal_callback starts the loop that drains the pipe.
RecvSignal ==
  /\ io = "wait"
  /\ \E n \in 1 .. signal : signal' = signal - n
  /\ io' = "check"
  /\ UNCHANGED <<pipe, posted, holder, pc, posts, running>>

\* Mutant: the loop does not look at what recv returns.
CheckPipeTakes ==
  /\ io = "check"
  /\ pipe' = CheckRead(pipe)
  /\ io' = "take"
  /\ UNCHANGED <<posted, holder, pc, posts, signal, running>>

\* msgbox::recv -> ypipe::read -> check_read.  With nothing to read the loop
\* breaks and async_recv_some is armed again.
CheckPipe ==
  /\ io = "check"
  /\ pipe' = CheckRead(pipe)
  /\ io' = IF Readable(pipe') THEN "take" ELSE "wait"
  /\ UNCHANGED <<posted, holder, pc, posts, signal, running>>

\* The rest of ypipe::read: move the handle out of the front slot, pop it.
TakeHandle ==
  /\ io = "take"
  /\ running' = posted[pipe.front + 1]
  /\ pipe' = Pop(pipe)
  /\ io' = "run"
  /\ UNCHANGED <<posted, holder, pc, posts, signal>>

\* item.second() returns; any post it made has left msgbox::send.
HandleDone ==
  /\ io = "run"
  /\ pc[IoThread] = "idle"
  /\ running' = NoHandle
  /\ io' = "check"
  /\ UNCHANGED <<pipe, posted, holder, pc, posts, signal>>

Io == RecvSignal \/ CheckPipe \/ TakeHandle \/ HandleDone

-----------------------------------------------------------------------------
Next == (\E t \in Thread : Send(t)) \/ Io

\* No thread stops inside msgbox::send and the io thread keeps running.
\* Nothing obliges a thread to post.
Fairness ==
  /\ WF_vars(Io)
  /\ \A t \in Thread : WF_vars(Send(t) /\ pc[t] # "idle")

Spec == Init /\ [][Next]_vars /\ Fairness

-----------------------------------------------------------------------------
\* A slot has been written and not yet published.
Unpublished == \E t \in Thread : pc[t] \in {"flush", "wake"}

\* A poster has found the reader asleep and is about to store c_.
FoundAsleep == \E t \in Thread : pc[t] = "wake"

\* A poster has stored c_ and owes the reader a byte.
OwesSignal == \E t \in Thread : pc[t] = "notify"

\* The io thread is blocked for good: no byte is in flight and none is owed.
Asleep == io = "wait" /\ signal = 0 /\ ~FoundAsleep /\ ~OwesSignal

-----------------------------------------------------------------------------
(* The inductive invariant behind the safety properties below.             *)

\* mtx_: a thread is inside send exactly when it owns the lock.
LockInv == \A t \in Thread : pc[t] # "idle" <=> holder = t

\* The post a thread is making is one of those it has counted.
CountInv == \A t \in Thread : pc[t] # "idle" => posts[t] # 0

\* The four pointers: the reader has prefetched no further than the writer
\* has published, and the writer publishes every slot before it unlocks.
PointerInv ==
  /\ pipe.back = Len(posted) /\ pipe.f = Len(posted)
  /\ pipe.r # Null /\ pipe.front <= pipe.r /\ pipe.r <= pipe.w
  /\ pipe.f = IF Unpublished THEN pipe.w + 1 ELSE pipe.w
  /\ pipe.c \in {Null, pipe.w}

\* The reader has declared itself asleep: it is, and it has read everything.
AsleepInv ==
  pipe.c = Null => /\ io = "wait" /\ signal = 0
                   /\ pipe.front = pipe.w
                   /\ ~OwesSignal

\* Whoever finds the reader asleep brings exactly one byte to wake it.
WakeInv ==
  /\ FoundAsleep => pipe.c = Null
  /\ OwesSignal => pipe.c # Null /\ io = "wait" /\ signal = 0
  /\ signal \in {0, 1}
  /\ signal = 1 => io = "wait"
  /\ pipe.c # Null /\ io = "wait" => signal = 1 \/ OwesSignal

\* The io thread: what its place in the loop says of the pipe, and that it
\* posts only from inside a handle.
LoopInv ==
  /\ io = "take" => pipe.front < pipe.r
  /\ running # NoHandle <=> io = "run"
  /\ pc[IoThread] # "idle" => io = "run"

IInv == /\ TypeOK /\ LockInv /\ CountInv
        /\ PointerInv /\ AsleepInv /\ WakeInv /\ LoopInv

-----------------------------------------------------------------------------
(* Properties.                                                             *)

\* No lost wake-up: while the io thread sleeps, every published handle has
\* been taken (flush and check_read agree on who saw whom last).
NoLostWakeup == Asleep => pipe.front = pipe.w

\* One wake-up at a time: the signal socket never holds two bytes, however
\* many threads post, so notify() never fills its buffer.
OneSignal == signal <= 1

\* The reader only moves out of a slot the writer has completed.
ReadsCompletedSlots == io = "take" => pipe.front < pipe.w

\* The queue of the abstract mailbox: slots written and not yet popped.
Waiting == SubSeq(posted, pipe.front + 1, Len(posted))

MB == INSTANCE Mailbox WITH queue <- Waiting

\* The message box is a mailbox: handles run one at a time, once, in the
\* order they entered the pipe, whatever thread posted them.
ImplementsMailbox == MB!SafeSpec

\* Every handle in the pipe is eventually run, whoever posted it and however
\* its post and the reader's going to sleep interleave.
EveryHandleRuns ==
  \A h \in Handle :
    (\E i \in 1 .. Len(Waiting) : Waiting[i] = h) ~> (running = h)

\* The byte on the signal socket and the slots of the pipe are right together.
SlotsAndSignal == OneSignal /\ ReadsCompletedSlots

=============================================================================
