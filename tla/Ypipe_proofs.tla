---------------------------- MODULE Ypipe_proofs ----------------------------
(***************************************************************************)
(* What the operations of ypipe return, field by field.  The proofs about  *)
(* the message box and about the actor engine rest on it.                  *)
(***************************************************************************)
EXTENDS Ypipe, Sequences, SequenceTheorems, TLAPS

\* write and flush leave the reader's fields alone, check_read and pop the
\* writer's.
LEMMA WriteFields ==
  ASSUME NEW p \in PipeType
  PROVE  /\ Write(p) \in PipeType
         /\ Write(p).back = p.back + 1 /\ Write(p).f = p.back + 1
         /\ Write(p).front = p.front /\ Write(p).r = p.r
         /\ Write(p).w = p.w /\ Write(p).c = p.c
<1> DEFINE q == [p EXCEPT !.back = p.back + 1]
           n == p.back + 1
<1>1. n \in Nat
  BY DEF PipeType, Position
<1>2. Write(p) = [q EXCEPT !.f = n]
  BY DEF Write
<1>3. q \in PipeType /\ q = [p EXCEPT !.back = n]
  BY <1>1 DEF PipeType, Position
<1>4. /\ q.back = n /\ q.f = p.f /\ q.front = p.front /\ q.r = p.r
      /\ q.w = p.w /\ q.c = p.c
  BY <1>1 DEF PipeType, Position
<1> HIDE DEF q, n
<1>5. /\ Write(p) \in PipeType
      /\ Write(p).back = q.back /\ Write(p).f = n
      /\ Write(p).front = q.front /\ Write(p).r = q.r
      /\ Write(p).w = q.w /\ Write(p).c = q.c
  BY <1>1, <1>2, <1>3 DEF PipeType, Position
<1> QED BY <1>4, <1>5 DEF n

LEMMA PublishFields ==
  ASSUME NEW p \in PipeType
  PROVE  /\ Publish(p) \in PipeType
         /\ Publish(p).c = p.f /\ Publish(p).w = p.f
         /\ Publish(p).front = p.front /\ Publish(p).r = p.r
         /\ Publish(p).back = p.back /\ Publish(p).f = p.f
BY DEF PipeType, Position, Publish

LEMMA PopFields ==
  ASSUME NEW p \in PipeType
  PROVE  /\ Pop(p) \in PipeType
         /\ Pop(p).front = p.front + 1 /\ Pop(p).r = p.r /\ Pop(p).c = p.c
         /\ Pop(p).back = p.back /\ Pop(p).f = p.f /\ Pop(p).w = p.w
BY DEF PipeType, Position, Pop

LEMMA CheckReadFields ==
  ASSUME NEW p \in PipeType
  PROVE  /\ CheckRead(p) \in PipeType
         /\ CheckRead(p).front = p.front /\ CheckRead(p).back = p.back
         /\ CheckRead(p).f = p.f /\ CheckRead(p).w = p.w
         /\ Readable(p) => CheckRead(p) = p
         /\ ~Readable(p) /\ p.c = p.front =>
              CheckRead(p).c = Null /\ CheckRead(p).r = p.front
         /\ ~Readable(p) /\ p.c # p.front =>
              CheckRead(p).c = p.c /\ CheckRead(p).r = p.c
<1>1. CASE Readable(p)
  BY <1>1 DEF PipeType, CheckRead
<1>2. CASE ~Readable(p) /\ p.c = p.front
  BY <1>2 DEF PipeType, CheckRead
<1>3. CASE ~Readable(p) /\ p.c # p.front
  BY <1>3 DEF PipeType, CheckRead
<1> QED BY <1>1, <1>2, <1>3

\* The initial pipe: the reader is asleep at slot 0.
LEMMA InitPipe ==
  CheckRead(NewPipe) =
    [front |-> 0, back |-> 0, w |-> 0, f |-> 0, r |-> 0, c |-> Null]
BY NullAssumption DEF CheckRead, NewPipe, Readable

\* s holds what has been written; what waits is the part beyond the front, n.
\* Writing a slot appends to what waits.
LEMMA WaitingAppend ==
  ASSUME NEW S, NEW s \in Seq(S), NEW h \in S,
         NEW n \in Nat, n <= Len(s)
  PROVE  SubSeq(Append(s, h), n + 1, Len(Append(s, h)))
           = Append(SubSeq(s, n + 1, Len(s)), h)
<1> DEFINE a == SubSeq(Append(s, h), n + 1, Len(Append(s, h)))
           b == Append(SubSeq(s, n + 1, Len(s)), h)
<1>1. Append(s, h) \in Seq(S) /\ Len(Append(s, h)) = Len(s) + 1
  OBVIOUS
<1>2. \A i \in 1 .. Len(s) + 1 :
        Append(s, h)[i] = IF i = Len(s) + 1 THEN h ELSE s[i]
  OBVIOUS
<1>3. /\ a \in Seq(S) /\ Len(a) = Len(s) + 1 - n
      /\ \A i \in 1 .. Len(s) + 1 - n : a[i] = Append(s, h)[n + i]
  OBVIOUS
<1>4. /\ b \in Seq(S) /\ Len(b) = Len(s) - n + 1
      /\ \A i \in 1 .. Len(s) - n + 1 :
           b[i] = IF i = Len(s) - n + 1 THEN h ELSE s[n + i]
  OBVIOUS
<1> HIDE DEF a, b
<1>5. ASSUME NEW i \in 1 .. Len(a) PROVE a[i] = b[i]
  <2>1. /\ i \in 1 .. Len(s) + 1 - n /\ i \in 1 .. Len(s) - n + 1
        /\ n + i \in 1 .. Len(s) + 1
        /\ n + i = Len(s) + 1 <=> i = Len(s) - n + 1
    BY <1>3
  <2> QED BY <1>2, <1>3, <1>4, <2>1
<1>6. a = b
  BY <1>3, <1>4, <1>5, SeqEqual
<1> QED BY <1>6 DEF a, b

\* Popping the front slot takes the head of what waits.
LEMMA WaitingTail ==
  ASSUME NEW S, NEW s \in Seq(S), NEW n \in Nat, n < Len(s)
  PROVE  /\ SubSeq(s, n + 1, Len(s)) # <<>>
         /\ Head(SubSeq(s, n + 1, Len(s))) = s[n + 1]
         /\ Tail(SubSeq(s, n + 1, Len(s))) = SubSeq(s, n + 2, Len(s))
<1>1. /\ SubSeq(s, n + 1, Len(s)) \in Seq(S)
      /\ Len(SubSeq(s, n + 1, Len(s))) = Len(s) - n
  OBVIOUS
<1>2. SubSeq(s, n + 1, Len(s)) # <<>>
  <2>1. Len(SubSeq(s, n + 1, Len(s))) # 0
    BY <1>1
  <2>2. Len(<<>>) = 0
    BY EmptySeq
  <2> QED BY <2>1, <2>2, Zenon
<1>3. n + 1 \in 1 .. Len(s) /\ Len(s) \in n + 1 .. Len(s) /\ n + 1 + 1 = n + 2
  OBVIOUS
<1> QED BY <1>2, <1>3, HeadTailOfSubSeq

=============================================================================
