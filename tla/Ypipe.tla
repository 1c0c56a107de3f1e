------------------------------- MODULE Ypipe -------------------------------
(***************************************************************************)
(* xutil::ypipe, the lock-free single-writer single-reader pipe under      *)
(* every xnet message box and every xactor mailbox.                        *)
(*                                                                         *)
(* A slot of the underlying yqueue is named by its position, the number of *)
(* slots pushed before it, so that the pointers w_, r_, f_ and c_ of the   *)
(* code are positions or Null (nullptr).  The operators below are the      *)
(* member functions, cut at their accesses to the shared atomic c_: the    *)
(* writer owns back, w and f, the reader owns front and r, and c is the    *)
(* only field that both touch.                                             *)
(***************************************************************************)
EXTENDS Naturals

CONSTANT Null            \* nullptr: the reader has gone to sleep

ASSUME NullAssumption == Null \notin Nat

Position == Nat

PipeType ==
  [front : Position,     \* slot queue_.front() refers to
   back  : Position,     \* slot queue_.back() refers to
   w     : Position,     \* w_: end of what the writer has published
   f     : Position,     \* f_: end of what the writer has completed
   r     : Position \cup {Null},   \* r_: end of what the reader may read
   c     : Position \cup {Null}]   \* c_: the shared pointer

\* The constructor: one slot is pushed and every pointer refers to it.
NewPipe == [front |-> 0, back |-> 0, w |-> 0, f |-> 0, r |-> 0, c |-> 0]

\* write(value, complete_ = true): fill the back slot and push the next one.
Write(p) == [p EXCEPT !.back = p.back + 1, !.f = p.back + 1]

\* flush, first half: does the reader still own its end (the CAS succeeds)?
ReaderAwake(p) == p.c = p.w

\* flush after a successful CAS, or after the plain store that follows a
\* failed one: both leave c_ and w_ at f_.
Publish(p) == [p EXCEPT !.c = p.f, !.w = p.f]

\* The two conditions of check_read under which there is an item to read.
Readable(p) == p.r # Null /\ p.front # p.r

\* Mutant: the CAS of check_read leaves c_ where it was, so that flush goes on
\* believing the reader awake.
CheckReadStaysAwake(p) ==
  IF Readable(p) THEN p ELSE [p EXCEPT !.r = p.c]

\* check_read: with nothing left of the last prefetch, the CAS on c_ either
\* puts the reader to sleep (c_ was the front) or fetches the writer's end.
\* The value check_read returns is Readable of the result.
CheckRead(p) ==
  IF Readable(p) THEN p
  ELSE IF p.c = p.front
       THEN [p EXCEPT !.c = Null, !.r = p.front]
       ELSE [p EXCEPT !.r = p.c]

\* Mutant: the front slot is read but not popped.
PopNothing(p) == p

\* read, second half: move the front slot out and pop it.
Pop(p) == [p EXCEPT !.front = p.front + 1]

=============================================================================
