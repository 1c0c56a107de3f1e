--------------------------- MODULE Msgbox_proofs ---------------------------
(***************************************************************************)
(* What TLAPS proves of the message box, for any number of posting threads *)
(* and of posts: IInv is inductive, it implies the safety properties, and  *)
(* the message box implements the abstract mailbox.                        *)
(***************************************************************************)
EXTENDS Msgbox, Ypipe_proofs, SequenceTheorems, TLAPS

-----------------------------------------------------------------------------
(* The lock lets one thread at a time be inside send, so that what is      *)
(* said of some thread inside send is said of that one.                    *)

\* While t is inside send.
LEMMA SendingNow ==
  ASSUME LockInv, NEW t \in Thread, pc[t] # "idle"
  PROVE  /\ Unpublished <=> pc[t] \in {"flush", "wake"}
         /\ FoundAsleep <=> pc[t] = "wake"
         /\ OwesSignal <=> pc[t] = "notify"
BY DEF LockInv, Unpublished, FoundAsleep, OwesSignal

\* While the lock is free.
LEMMA NobodySending ==
  ASSUME LockInv, holder = NoThread
  PROVE  ~Unpublished /\ ~FoundAsleep /\ ~OwesSignal
<1>1. ASSUME NEW t \in Thread PROVE holder # t
  BY ThreadAssumption DEF Thread
<1> QED BY <1>1 DEF LockInv, Unpublished, FoundAsleep, OwesSignal

\* After a step of the thread that has, or that takes, the lock.
LEMMA SendingNext ==
  ASSUME TypeOK, LockInv, NEW t \in Thread, holder \in {t, NoThread},
         NEW x \in SendPc, pc' = [pc EXCEPT ![t] = x]
  PROVE  /\ Unpublished' <=> x \in {"flush", "wake"}
         /\ FoundAsleep' <=> x = "wake"
         /\ OwesSignal' <=> x = "notify"
<1>1. \A u \in Thread : u # t => pc[u] = "idle"
  BY ThreadAssumption DEF LockInv, Thread
<1>2. \A u \in Thread : pc'[u] = IF u = t THEN x ELSE pc[u]
  BY DEF TypeOK
<1> QED BY <1>1, <1>2 DEF Unpublished, FoundAsleep, OwesSignal

\* The lock and the program counters stay consistent in such a step.
LEMMA LockStep ==
  ASSUME TypeOK, LockInv, NEW t \in Thread, holder \in {t, NoThread},
         NEW x \in SendPc, pc' = [pc EXCEPT ![t] = x],
         holder' = IF x = "idle" THEN NoThread ELSE t
  PROVE  LockInv'
<1>1. \A u \in Thread : u # t => pc[u] = "idle"
  BY ThreadAssumption DEF LockInv, Thread
<1>2. \A u \in Thread : pc'[u] = IF u = t THEN x ELSE pc[u]
  BY DEF TypeOK
<1>3. \A u \in Thread : u # NoThread
  BY ThreadAssumption DEF Thread
<1> QED BY <1>1, <1>2, <1>3 DEF LockInv

\* So does the count of posts, in a step that leaves it alone.
LEMMA CountStep ==
  ASSUME TypeOK, CountInv, NEW t \in Thread, NEW x, pc[t] # "idle",
         pc' = [pc EXCEPT ![t] = x], UNCHANGED posts
  PROVE  CountInv'
<1>1. \A u \in Thread : pc'[u] = IF u = t THEN x ELSE pc[u]
  BY DEF TypeOK
<1> QED BY <1>1 DEF CountInv

-----------------------------------------------------------------------------
(* Types.                                                                  *)

\* Every initial state satisfies the inductive invariant.
LEMMA InitIInv == Init => IInv
<1> SUFFICES ASSUME Init PROVE IInv
  OBVIOUS
<1>1. pipe = [front |-> 0, back |-> 0, w |-> 0, f |-> 0, r |-> 0, c |-> Null]
  BY InitPipe DEF Init
<1>2. TypeOK
  BY <1>1, ThreadAssumption DEF Init, TypeOK, PipeType, Position, SendPc, IoPc
<1>3. LockInv
  BY ThreadAssumption DEF Init, LockInv, Thread
<1>4. ~Unpublished /\ ~FoundAsleep /\ ~OwesSignal
  BY <1>3, NobodySending DEF Init
<1>5. PointerInv
  <2>1. ~Unpublished
    BY <1>4
  <2> QED BY <1>1, <2>1, NullAssumption DEF Init, PointerInv
<1>6. AsleepInv
  <2>1. ~OwesSignal
    BY <1>4
  <2> QED BY <1>1, <2>1 DEF Init, AsleepInv
<1>7. WakeInv
  <2>1. ~FoundAsleep /\ ~OwesSignal
    BY <1>4
  <2> QED BY <1>1, <2>1 DEF Init, WakeInv
<1>8. LoopInv
  BY DEF Init, LoopInv, Thread
<1>9. CountInv
  BY DEF Init, CountInv
<1> QED BY <1>2, <1>3, <1>5, <1>6, <1>7, <1>8, <1>9 DEF IInv

-----------------------------------------------------------------------------
(* One lemma per step of send: it preserves the inductive invariant.       *)

LEMMA SendLockKeeps ==
  ASSUME IInv, NEW t \in Thread, SendLock(t)
  PROVE  IInv'
<1> USE DEF IInv, SendLock
<1>1. TypeOK'
  BY ThreadAssumption DEF TypeOK, SendPc
<1>2. LockInv' /\ CountInv'
  <2>1. CountInv'
    BY DEF CountInv, TypeOK
  <2> QED BY <2>1, LockStep DEF SendPc
<1>4. /\ ~Unpublished' /\ ~FoundAsleep'
      /\ ~OwesSignal'
  BY SendingNext DEF SendPc
<1>5. ~Unpublished /\ ~FoundAsleep /\ ~OwesSignal
  BY NobodySending
<1>6. PointerInv'
  BY <1>4, <1>5 DEF PointerInv
<1>7. AsleepInv' /\ WakeInv'
  BY <1>4, <1>5 DEF AsleepInv, WakeInv
<1>8. LoopInv'
  BY DEF LoopInv, TypeOK, Thread
<1> QED BY <1>1, <1>2, <1>6, <1>7, <1>8

LEMMA SendWriteKeeps ==
  ASSUME IInv, NEW t \in Thread, SendWrite(t)
  PROVE  IInv'
<1> USE DEF IInv, SendWrite
<1>1. holder = t
  BY DEF LockInv
<1>2. /\ ~Unpublished /\ ~FoundAsleep
      /\ ~OwesSignal
  BY SendingNow
<1>3. /\ Unpublished' /\ ~FoundAsleep'
      /\ ~OwesSignal'
  BY <1>1, SendingNext DEF SendPc
<1>4. <<t, posts[t]>> \in Handle
  <2>1. posts[t] \in 0 .. MaxPosts /\ posts[t] # 0
    BY DEF TypeOK, CountInv
  <2> QED BY <2>1, ThreadAssumption DEF Handle
<1>5. posted' \in Seq(Handle) /\ Len(posted') = Len(posted) + 1
  BY <1>4 DEF TypeOK
<1>6. TypeOK'
  BY <1>5, WriteFields DEF TypeOK, SendPc
<1>7. LockInv' /\ CountInv'
  <2>1. CountInv'
    BY CountStep
  <2> QED BY <1>1, <2>1, LockStep, ThreadAssumption DEF SendPc
<1>8. PointerInv'
  <2>1. pipe.w = Len(posted) /\ pipe.back = Len(posted)
    BY <1>2 DEF PointerInv
  <2>2. /\ pipe'.back = pipe.back + 1 /\ pipe'.f = pipe.back + 1
        /\ pipe'.front = pipe.front /\ pipe'.r = pipe.r
        /\ pipe'.w = pipe.w /\ pipe'.c = pipe.c
    BY WriteFields DEF TypeOK
  <2> QED BY <1>3, <1>5, <2>1, <2>2 DEF PointerInv
<1>9. AsleepInv' /\ WakeInv'
  BY <1>2, <1>3, WriteFields DEF AsleepInv, WakeInv, TypeOK
<1>10. LoopInv'
  BY WriteFields DEF LoopInv, TypeOK, Thread
<1> QED BY <1>6, <1>7, <1>8, <1>9, <1>10

LEMMA SendFlushKeeps ==
  ASSUME IInv, NEW t \in Thread, SendFlush(t)
  PROVE  IInv'
<1> USE DEF IInv, SendFlush
<1>1. holder = t
  BY DEF LockInv
<1>2. /\ Unpublished /\ ~FoundAsleep
      /\ ~OwesSignal
  BY SendingNow
<1>3. /\ ~Unpublished' /\ ~FoundAsleep'
      /\ ~OwesSignal'
  BY <1>1, SendingNext DEF SendPc
<1>4. TypeOK'
  BY PublishFields DEF TypeOK, SendPc
<1>5. LockInv' /\ CountInv'
  <2>1. CountInv'
    BY CountStep
  <2> QED BY <1>1, <2>1, LockStep DEF SendPc
<1>6. pipe.c = pipe.w /\ pipe.c # Null /\ pipe.f = pipe.w + 1
  BY <1>2, NullAssumption DEF ReaderAwake, PointerInv, TypeOK, PipeType, Position
<1>7. PointerInv'
  <2>1. /\ pipe.r \in Nat /\ pipe.front \in Nat /\ pipe.w \in Nat
        /\ pipe.front <= pipe.r /\ pipe.r <= pipe.w
        /\ pipe.back = Len(posted) /\ pipe.f = Len(posted)
    BY DEF PointerInv, TypeOK, PipeType, Position
  <2>2. /\ pipe'.c = pipe.f /\ pipe'.w = pipe.f /\ pipe'.f = pipe.f
        /\ pipe'.front = pipe.front /\ pipe'.r = pipe.r /\ pipe'.back = pipe.back
    BY PublishFields DEF TypeOK
  <2>3. pipe'.r # Null /\ pipe'.front <= pipe'.r /\ pipe'.r <= pipe'.w
    BY <1>6, <2>1, <2>2, NullAssumption
  <2> QED BY <1>3, <2>1, <2>2, <2>3 DEF PointerInv
<1>8. AsleepInv' /\ WakeInv'
  BY <1>2, <1>3, <1>6, PublishFields, NullAssumption
  DEF AsleepInv, WakeInv, TypeOK, PipeType, Position
<1>9. LoopInv'
  BY PublishFields DEF LoopInv, TypeOK, Thread
<1> QED BY <1>4, <1>5, <1>7, <1>8, <1>9

LEMMA SendFlushAsleepKeeps ==
  ASSUME IInv, NEW t \in Thread, SendFlushAsleep(t)
  PROVE  IInv'
<1> USE DEF IInv, SendFlushAsleep
<1>1. holder = t
  BY DEF LockInv
<1>2. Unpublished /\ ~FoundAsleep /\ ~OwesSignal
  BY SendingNow
<1>3. Unpublished' /\ FoundAsleep' /\ ~OwesSignal'
  BY <1>1, SendingNext DEF SendPc
<1>4. TypeOK'
  BY DEF TypeOK, SendPc
<1>5. LockInv' /\ CountInv'
  <2>1. CountInv'
    BY CountStep
  <2> QED BY <1>1, <2>1, LockStep, ThreadAssumption DEF SendPc
<1>6. pipe.c = Null
  BY DEF ReaderAwake, PointerInv
<1>7. PointerInv'
  BY <1>2, <1>3 DEF PointerInv
<1>8. AsleepInv' /\ WakeInv'
  BY <1>2, <1>3, <1>6 DEF AsleepInv, WakeInv
<1>9. LoopInv'
  BY DEF LoopInv, TypeOK, Thread
<1> QED BY <1>4, <1>5, <1>7, <1>8, <1>9

LEMMA SendWakeKeeps ==
  ASSUME IInv, NEW t \in Thread, SendWake(t)
  PROVE  IInv'
<1> USE DEF IInv, SendWake
<1>1. holder = t
  BY DEF LockInv
<1>2. Unpublished /\ FoundAsleep /\ ~OwesSignal
  BY SendingNow
<1>3. ~Unpublished' /\ ~FoundAsleep' /\ OwesSignal'
  BY <1>1, SendingNext DEF SendPc
<1>4. TypeOK'
  BY PublishFields DEF TypeOK, SendPc
<1>5. LockInv' /\ CountInv'
  <2>1. CountInv'
    BY CountStep
  <2> QED BY <1>1, <2>1, LockStep, ThreadAssumption DEF SendPc
<1>6. /\ pipe'.c = pipe.f /\ pipe'.w = pipe.f /\ pipe'.f = pipe.f
      /\ pipe'.front = pipe.front /\ pipe'.r = pipe.r /\ pipe'.back = pipe.back
  BY PublishFields DEF TypeOK
<1>7. /\ pipe.r \in Nat /\ pipe.front \in Nat /\ pipe.w \in Nat
      /\ pipe.front <= pipe.r /\ pipe.r <= pipe.w /\ pipe.f = pipe.w + 1
      /\ pipe.back = Len(posted) /\ pipe.f = Len(posted)
  BY <1>2 DEF PointerInv, TypeOK, PipeType, Position
<1>8. PointerInv'
  <2>1. pipe'.r # Null /\ pipe'.front <= pipe'.r /\ pipe'.r <= pipe'.w
    BY <1>6, <1>7, NullAssumption
  <2> QED BY <1>3, <1>6, <1>7, <2>1 DEF PointerInv
<1>9. AsleepInv' /\ WakeInv'
  <2>1. io = "wait" /\ signal = 0
    BY <1>2 DEF WakeInv, AsleepInv
  <2>2. pipe'.c # Null
    BY <1>6, <1>7, NullAssumption
  <2> QED BY <1>3, <2>1, <2>2 DEF AsleepInv, WakeInv
<1>10. LoopInv'
  BY <1>6 DEF LoopInv, TypeOK, Thread
<1> QED BY <1>4, <1>5, <1>8, <1>9, <1>10

LEMMA SendNotifyKeeps ==
  ASSUME IInv, NEW t \in Thread, SendNotify(t)
  PROVE  IInv'
<1> USE DEF IInv, SendNotify
<1>1. holder = t
  BY DEF LockInv
<1>2. ~Unpublished /\ ~FoundAsleep /\ OwesSignal
  BY SendingNow
<1>3. ~Unpublished' /\ ~FoundAsleep' /\ ~OwesSignal'
  BY <1>1, SendingNext DEF SendPc
<1>4. TypeOK'
  BY DEF TypeOK, SendPc
<1>5. LockInv' /\ CountInv'
  <2>1. CountInv'
    BY CountStep
  <2> QED BY <1>1, <2>1, LockStep DEF SendPc
<1>6. PointerInv'
  BY <1>2, <1>3 DEF PointerInv
<1>7. AsleepInv' /\ WakeInv'
  BY <1>2, <1>3 DEF AsleepInv, WakeInv
<1>8. LoopInv'
  BY DEF LoopInv, TypeOK, Thread
<1> QED BY <1>4, <1>5, <1>6, <1>7, <1>8

-----------------------------------------------------------------------------
(* One lemma per step of the io thread.                                    *)

\* The io thread leaves the posters and the lock alone.
LEMMA PostersUnchanged ==
  ASSUME IInv, UNCHANGED <<holder, pc, posts>>
  PROVE  /\ LockInv' /\ CountInv'
         /\ Unpublished' <=> Unpublished
         /\ FoundAsleep' <=> FoundAsleep
         /\ OwesSignal' <=> OwesSignal
BY DEF IInv, LockInv, CountInv, Unpublished, FoundAsleep, OwesSignal

LEMMA RecvSignalKeeps ==
  ASSUME IInv, RecvSignal
  PROVE  IInv'
<1> USE DEF IInv, RecvSignal
<1>1. signal = 1 /\ signal' = 0
  <2>1. PICK n \in 1 .. signal : signal' = signal - n
    OBVIOUS
  <2> QED BY <2>1 DEF WakeInv
<1>2. TypeOK'
  BY <1>1 DEF TypeOK, IoPc
<1>3. PointerInv'
  BY PostersUnchanged DEF PointerInv
<1>4. pipe.c # Null /\ ~OwesSignal /\ ~FoundAsleep
  BY <1>1 DEF AsleepInv, WakeInv
<1>5. AsleepInv' /\ WakeInv'
  BY <1>1, <1>4, PostersUnchanged DEF AsleepInv, WakeInv
<1>6. LoopInv'
  BY DEF LoopInv
<1> QED BY <1>2, <1>3, <1>5, <1>6, PostersUnchanged

LEMMA HandleDoneKeeps ==
  ASSUME IInv, HandleDone
  PROVE  IInv'
<1> USE DEF IInv, HandleDone
<1>1. TypeOK'
  BY DEF TypeOK, IoPc
<1>2. PointerInv'
  BY PostersUnchanged DEF PointerInv
<1>3. pipe.c # Null /\ ~OwesSignal /\ ~FoundAsleep /\ signal = 0
  BY DEF AsleepInv, WakeInv
<1>4. AsleepInv' /\ WakeInv'
  BY <1>3, PostersUnchanged DEF AsleepInv, WakeInv
<1>5. LoopInv'
  BY DEF LoopInv
<1> QED BY <1>1, <1>2, <1>4, <1>5, PostersUnchanged

LEMMA TakeHandleKeeps ==
  ASSUME IInv, TakeHandle
  PROVE  IInv'
<1> USE DEF IInv, TakeHandle
<1>1. /\ pipe.r \in Nat /\ pipe.front \in Nat /\ pipe.w \in Nat
      /\ pipe.front < pipe.r /\ pipe.r <= pipe.w /\ pipe.w <= Len(posted)
  BY DEF PointerInv, LoopInv, TypeOK, PipeType, Position
<1>2. /\ pipe'.front = pipe.front + 1 /\ pipe'.r = pipe.r /\ pipe'.c = pipe.c
      /\ pipe'.back = pipe.back /\ pipe'.f = pipe.f /\ pipe'.w = pipe.w
  BY PopFields DEF TypeOK
<1>3. posted[pipe.front + 1] \in Handle
  BY <1>1 DEF TypeOK
<1>4. TypeOK'
  BY <1>3, PopFields DEF TypeOK, IoPc
<1>5. PointerInv'
  <2>1. pipe'.front <= pipe'.r
    BY <1>1, <1>2
  <2> QED BY <1>2, <2>1, PostersUnchanged DEF PointerInv
<1>6. pipe.c # Null /\ ~OwesSignal /\ ~FoundAsleep /\ signal = 0
  BY DEF AsleepInv, WakeInv
<1>7. AsleepInv' /\ WakeInv'
  BY <1>2, <1>6, PostersUnchanged DEF AsleepInv, WakeInv
<1>8. LoopInv'
  BY <1>3, HandleAssumption DEF LoopInv
<1> QED BY <1>4, <1>5, <1>7, <1>8, PostersUnchanged

LEMMA CheckPipeKeeps ==
  ASSUME IInv, CheckPipe
  PROVE  IInv'
<1> USE DEF IInv, CheckPipe
<1> DEFINE q == CheckRead(pipe)
<1>1. /\ pipe.r \in Nat /\ pipe.front \in Nat /\ pipe.w \in Nat
      /\ pipe.front <= pipe.r /\ pipe.r <= pipe.w /\ pipe \in PipeType
      /\ pipe.c = pipe.w
  BY DEF PointerInv, AsleepInv, TypeOK, PipeType, Position
<1>2. /\ q \in PipeType /\ q.front = pipe.front
      /\ q.back = pipe.back /\ q.f = pipe.f /\ q.w = pipe.w
  BY <1>1, CheckReadFields
<1>3. /\ q.r \in Nat /\ q.front <= q.r /\ q.r <= q.w
      /\ \/ q.c = Null /\ q.r = q.front /\ q.front = q.w
         \/ q.c = q.w /\ q.front < q.r
  <2>1. CASE Readable(pipe)
    BY <1>1, <2>1, CheckReadFields DEF Readable
  <2>2. CASE ~Readable(pipe) /\ pipe.c = pipe.front
    BY <1>1, <1>2, <2>2, CheckReadFields
  <2>3. CASE ~Readable(pipe) /\ pipe.c # pipe.front
    BY <1>1, <1>2, <2>3, CheckReadFields DEF Readable
  <2> QED BY <2>1, <2>2, <2>3
<1>4. pipe' = q /\ (Readable(q) <=> q.front < q.r)
  BY <1>2, <1>3, NullAssumption DEF Readable, PipeType, Position
<1> HIDE DEF q
<1>5. io' = IF q.front < q.r THEN "take" ELSE "wait"
  BY <1>4
<1>6. TypeOK'
  BY <1>2, <1>4, <1>5 DEF TypeOK, IoPc
<1>7. PointerInv'
  <2>1. q.c \in {Null, q.w} /\ q.r # Null
    BY <1>3, NullAssumption
  <2> QED BY <1>2, <1>3, <1>4, <2>1, PostersUnchanged DEF PointerInv
<1>8. ~OwesSignal /\ ~FoundAsleep /\ signal = 0
  BY <1>1, NullAssumption DEF AsleepInv, WakeInv
<1>9. q.c = Null <=> ~(q.front < q.r)
  BY <1>2, <1>3, NullAssumption DEF PipeType, Position
<1>10. AsleepInv' /\ WakeInv'
  BY <1>3, <1>4, <1>5, <1>8, <1>9, PostersUnchanged DEF AsleepInv, WakeInv
<1>11. LoopInv'
  BY <1>4, <1>5 DEF LoopInv
<1> QED BY <1>6, <1>7, <1>10, <1>11, PostersUnchanged

-----------------------------------------------------------------------------
(* The invariants.                                                         *)

\* IInv is inductive: every step of every thread preserves it.
THEOREM NextKeepsIInv == IInv /\ [Next]_vars => IInv'
<1> SUFFICES ASSUME IInv, [Next]_vars PROVE IInv'
  OBVIOUS
<1>1. ASSUME NEW t \in Thread, Send(t) PROVE IInv'
  BY <1>1, SendLockKeeps, SendWriteKeeps, SendFlushKeeps,
     SendFlushAsleepKeeps, SendWakeKeeps, SendNotifyKeeps DEF Send
<1>2. CASE Io
  BY <1>2, RecvSignalKeeps, CheckPipeKeeps, TakeHandleKeeps, HandleDoneKeeps
  DEF Io
<1>3. CASE UNCHANGED vars
  BY <1>3 DEF vars, IInv, TypeOK, LockInv, CountInv, PointerInv, AsleepInv,
     WakeInv, LoopInv, Unpublished, FoundAsleep, OwesSignal
<1> QED BY <1>1, <1>2, <1>3 DEF Next

\* The inductive invariant holds in every reachable state.
THEOREM Invariance == Spec => []IInv
BY InitIInv, NextKeepsIInv, PTL DEF Spec

\* Every variable of the message box keeps its type.
THEOREM TypeCorrect == Spec => []TypeOK
<1>1. IInv => TypeOK
  BY DEF IInv
<1> QED BY <1>1, Invariance, PTL

\* No lost wake-up, for any number of posters: flush and check_read agree on
\* which of them saw the other last, so that a sleeping io thread with no
\* byte on its way has taken every published handle.
THEOREM WakeUpNotLost == Spec => []NoLostWakeup
<1>1. IInv => NoLostWakeup
  BY DEF IInv, AsleepInv, WakeInv, NoLostWakeup, Asleep
<1> QED BY <1>1, Invariance, PTL

\* The signal socket never holds two bytes, for any number of posters.
THEOREM AtMostOneSignal == Spec => []OneSignal
<1>1. IInv => OneSignal
  BY DEF IInv, WakeInv, OneSignal
<1> QED BY <1>1, Invariance, PTL

\* ypipe::read moves only out of slots that write has completed.
THEOREM OnlyCompletedSlots == Spec => []ReadsCompletedSlots
<1>1. IInv => ReadsCompletedSlots
  BY DEF IInv, TypeOK, PipeType, Position, PointerInv, LoopInv, ReadsCompletedSlots
<1> QED BY <1>1, Invariance, PTL

\* Both together, for any number of senders: the signal socket never holds two
\* bytes, and every slot that ypipe::read moves out of was completed.
THEOREM SlotsAndSignalRight == Spec => []SlotsAndSignal
BY AtMostOneSignal, OnlyCompletedSlots, PTL DEF SlotsAndSignal

-----------------------------------------------------------------------------
(* Refinement of the abstract mailbox.                                     *)

\* The front position is within the handles posted.
LEMMA FrontInRange ==
  ASSUME IInv
  PROVE  /\ posted \in Seq(Handle) /\ Len(posted) \in Nat
         /\ pipe.front \in Nat /\ pipe.front <= Len(posted)
BY DEF IInv, TypeOK, PipeType, Position, PointerInv

\* The initial message box is the empty mailbox.
LEMMA InitRefines == Init => MB!Init
<1> SUFFICES ASSUME Init PROVE MB!Init
  OBVIOUS
<1>1. pipe.front = 0 /\ posted = <<>>
  BY InitPipe DEF Init
<1>2. Waiting = <<>>
  BY <1>1, SubSeqEmpty DEF Waiting
<1> QED BY <1>2 DEF Init, MB!Init

\* Every step of the message box is a step of the mailbox or leaves it alone:
\* writing a slot posts, popping one takes, and the rest is invisible.
LEMMA NextRefines == IInv /\ [Next]_vars => [MB!Next]_MB!vars
<1> SUFFICES ASSUME IInv, [Next]_vars PROVE [MB!Next]_MB!vars
  OBVIOUS
<1>1. ASSUME NEW t \in Thread, SendWrite(t) PROVE MB!Next
  <2>1. <<t, posts[t]>> \in Handle
    <3>1. posts[t] \in 0 .. MaxPosts /\ posts[t] # 0
      BY <1>1 DEF IInv, TypeOK, CountInv, SendWrite
    <3> QED BY <3>1, ThreadAssumption DEF Handle
  <2>2. pipe'.front = pipe.front
    BY <1>1, WriteFields DEF SendWrite, IInv, TypeOK
  <2>3. Waiting' = Append(Waiting, <<t, posts[t]>>)
    BY <1>1, <2>1, <2>2, FrontInRange, WaitingAppend DEF Waiting, SendWrite
  <2>4. MB!Post(<<t, posts[t]>>)
    BY <1>1, <2>3 DEF SendWrite, MB!Post
  <2> QED BY <2>1, <2>4 DEF MB!Next
<1>2. CASE TakeHandle
  <2>1. pipe.front < Len(posted) /\ running = NoHandle
    BY <1>2 DEF TakeHandle, IInv, TypeOK, PipeType, Position, PointerInv, LoopInv
  <2>2. pipe'.front = pipe.front + 1
    BY <1>2, PopFields DEF TakeHandle, IInv, TypeOK
  <2>3. /\ Waiting # <<>> /\ Head(Waiting) = posted[pipe.front + 1]
        /\ Tail(Waiting) = SubSeq(posted, pipe.front + 2, Len(posted))
    BY <2>1, FrontInRange, WaitingTail DEF Waiting
  <2>4. pipe'.front + 1 = pipe.front + 2
    BY <2>2, FrontInRange
  <2>5. Waiting' = Tail(Waiting)
    BY <1>2, <2>3, <2>4 DEF TakeHandle, Waiting
  <2> QED BY <1>2, <2>1, <2>3, <2>5 DEF TakeHandle, MB!Next, MB!Take
<1>3. CASE HandleDone
  <2>1. running # NoHandle
    BY <1>3 DEF HandleDone, IInv, LoopInv
  <2> QED BY <1>3, <2>1 DEF HandleDone, Waiting, MB!Next, MB!Finish
<1>4. ASSUME pipe'.front = pipe.front, UNCHANGED <<posted, running>>
      PROVE  UNCHANGED MB!vars
  BY <1>4 DEF Waiting, MB!vars
<1>5. ASSUME NEW t \in Thread, Send(t), ~SendWrite(t) PROVE UNCHANGED MB!vars
  BY <1>4, <1>5, PublishFields
  DEF Send, SendLock, SendFlush, SendFlushAsleep, SendWake, SendNotify,
      IInv, TypeOK
<1>6. CASE RecvSignal \/ CheckPipe
  BY <1>4, <1>6, CheckReadFields DEF RecvSignal, CheckPipe, IInv, TypeOK
<1>7. CASE UNCHANGED vars
  BY <1>4, <1>7 DEF vars
<1> QED BY <1>1, <1>2, <1>3, <1>5, <1>6, <1>7 DEF Next, Io

\* The message box implements the mailbox: handles run one at a time, each
\* once, in the order in which they entered the pipe.
THEOREM Refinement == Spec => ImplementsMailbox
BY InitRefines, NextRefines, Invariance, PTL DEF Spec, ImplementsMailbox, MB!SafeSpec

=============================================================================
