-------------------------------- MODULE Logger --------------------------------
(***************************************************************************)
(* xlog: the arguments of a log line are kept as bytes in an item, the     *)
(* item goes into a queue, and one thread writes it out as text.           *)
(*                                                                         *)
(* That thread waits for the file to be opened and holds the mutex of      *)
(* open_log from then on, so that whoever still wants to open it waits     *)
(* until the logger is destroyed.                                          *)
(***************************************************************************)
EXTENDS Integers, Sequences, FiniteSets, SequencesExt

CONSTANTS Users,         \* threads that log
          Items,         \* what they log: sequences of arguments
          StackBuf,      \* sizeof(stack_buf_)
          MaxItems       \* bound: items logged

\* A number, a literal, or a string of a length.
Argument == [type : {"num", "lit"}] \cup [type : {"str"}, len : Nat]

\* The buffer has room for a pointer.
ASSUME LoggerAssumption ==
  StackBuf \in Nat /\ StackBuf >= 8 /\ MaxItems \in Nat /\ Items \subseteq Seq(Argument)

VARIABLES user,          \* where each thread is, and with which item
          logger,        \* where the logger thread is
          mtx_,          \* "free", a user, or "logger"
          is_open_,
          notifiedCv,    \* the logger has been notified
          stop_,
          items_,        \* the queue
          opened,        \* history: how often the file was opened
          pushed,        \* history: the items pushed
          written        \* history: what is in the file: [item, text]

logVars_ == <<user, logger, mtx_, is_open_, notifiedCv, stop_, items_, opened,
              pushed, written>>

-----------------------------------------------------------------------------
(* The bytes of an item.  An argument is a number, a string or a literal,  *)
(* which is kept as a pointer.                                             *)

\* The index of a type in supported_type, two bytes in the buffer.
TypeIndex(arg) == CASE arg.type = "str" -> 2 [] arg.type = "num" -> 8
                    [] arg.type = "lit" -> 12

\* 1 as an int32_t; a pointer, of which each byte is its own.
NumBytes == <<1, 0, 0, 0>>
PtrBytes == [i \in 1 .. 8 |-> 200 + i]

\* copy_str copies the terminating zero as well.
ArgBytes(arg) == CASE arg.type = "num" -> NumBytes
                   [] arg.type = "lit" -> PtrBytes
                   [] arg.type = "str" -> [i \in 1 .. arg.len |-> 97] \o <<0>>

\* check_buffer doubles the buffer, once.
Grown(size) == 2 * size

Store(b, bytes) ==
  LET size == IF Len(b.buf) + Len(bytes) > b.size THEN Grown(b.size) ELSE b.size
  IN  [buf |-> b.buf \o bytes, size |-> size,
       over |-> b.over \/ Len(b.buf) + Len(bytes) > size]

Stored(item) ==
  FoldLeft(LAMBDA b, arg : Store(Store(b, <<TypeIndex(arg), 0>>), ArgBytes(arg)),
           [buf |-> <<>>, size |-> StackBuf, over |-> FALSE], item)

Num == [type |-> "num"]
Lit == [type |-> "lit"]
Str_(n) == [type |-> "str", len |-> n]

\* pos += sizeof(type).
SizeofType == 2

\* operator>>: the text of the bytes, of which those behind the end may be
\* anything, here behind.  After a string pos stands on its zero.
ReadOut(buf, behind) ==
  LET Byte_(p) == IF p < Len(buf) THEN buf[p + 1] ELSE behind
      Bytes(p, n) == [i \in 1 .. n |-> Byte_(p + i - 1)]
      Strlen(p) == LET zeros == {n \in 0 .. Len(buf) : Byte_(p + n) = 0}
                   IN  IF zeros = {} THEN Len(buf)
                       ELSE CHOOSE n \in zeros : \A m \in zeros : n <= m
      Text_[p \in 0 .. 2 * Len(buf) + 12] ==
        LET type == Byte_(p) + 256 * Byte_(p + 1)
            q == p + SizeofType
        IN  CASE p >= Len(buf) -> <<>>
              [] p < Len(buf) /\ type = 0 -> <<[type |-> "char"]>> \o Text_[q + 1]
              [] p < Len(buf) /\ type = 2 -> <<Str_(Strlen(q))>> \o Text_[q + Strlen(q)]
              [] p < Len(buf) /\ type = 8 ->
                   <<IF Bytes(q, 4) = NumBytes THEN Num ELSE [type |-> "other"]>> \o Text_[q + 4]
              [] p < Len(buf) /\ type = 12 ->
                   IF Bytes(q, 8) = PtrBytes THEN <<Lit>> \o Text_[q + 8]
                   ELSE <<[type |-> "undefined"]>>
              [] OTHER -> Text_[q]
  IN  Text_[0]

LoggerTypeOK ==
  /\ user \in [Users -> [at : {"idle", "opening", "pushing"}, item : Items \cup {<<>>}]]
  /\ logger \in {"start", "waiting", "writing", "done"}
  /\ mtx_ \in {"free", "logger"}
  /\ is_open_ \in BOOLEAN /\ notifiedCv \in BOOLEAN /\ stop_ \in BOOLEAN
  /\ items_ \in Seq(Items) /\ pushed \in Seq(Items)
  /\ opened \in Nat

IdleUser == [at |-> "idle", item |-> <<>>]

LoggerInit ==
  /\ user = [u \in Users |-> IdleUser]
  /\ logger = "start" /\ mtx_ = "free"
  /\ is_open_ = FALSE /\ notifiedCv = FALSE /\ stop_ = FALSE
  /\ items_ = <<>> /\ opened = 0 /\ pushed = <<>> /\ written = <<>>

-----------------------------------------------------------------------------
(* Users.                                                                  *)

Started_ == Len(pushed) + Cardinality({u \in Users : user[u].item # <<>>})

\* operator<=: a thread that finds the file not open goes to open it.
Log(u) ==
  /\ user[u].at = "idle" /\ ~stop_ /\ Started_ < MaxItems
  /\ \E i \in Items :
       user' = [user EXCEPT ![u] = [at |-> IF is_open_ THEN "pushing" ELSE "opening",
                                    item |-> i]]
  /\ UNCHANGED <<logger, mtx_, is_open_, notifiedCv, stop_, items_, opened, pushed, written>>

\* set_file opens it, whatever it finds.
SetFile(u) ==
  /\ user[u].at = "idle" /\ ~stop_
  /\ user' = [user EXCEPT ![u].at = "opening"]
  /\ UNCHANGED <<logger, mtx_, is_open_, notifiedCv, stop_, items_, opened, pushed, written>>

\* Whether open_log opens the file.
Opens == ~is_open_

\* open_log, once the mutex is free.  The file may not open.
OpenLog(u) ==
  /\ user[u].at = "opening" /\ mtx_ = "free"
  /\ user' = [user EXCEPT ![u] = IF @.item = <<>> THEN IdleUser ELSE [@ EXCEPT !.at = "pushing"]]
  /\ \/ Opens /\ is_open_' = TRUE /\ opened' = opened + 1
     \/ UNCHANGED <<is_open_, opened>>
  /\ notifiedCv' = (notifiedCv \/ (Opens /\ logger = "waiting"))
  /\ UNCHANGED <<logger, mtx_, stop_, items_, pushed, written>>

Push(u) ==
  /\ user[u].at = "pushing"
  /\ items_' = Append(items_, user[u].item)
  /\ pushed' = Append(pushed, user[u].item)
  /\ user' = [user EXCEPT ![u] = IdleUser]
  /\ UNCHANGED <<logger, mtx_, is_open_, notifiedCv, stop_, opened, written>>

\* ~xlog, at the end of the process.
Destroy == /\ ~stop_ /\ stop_' = TRUE
           /\ UNCHANGED <<user, logger, mtx_, is_open_, notifiedCv, items_, opened,
                          pushed, written>>

-----------------------------------------------------------------------------
(* write_log.                                                              *)

\* The mutex is taken, and kept if the file is open.
Wait_ ==
  /\ \/ logger = "start"
     \/ logger = "waiting" /\ notifiedCv
  /\ mtx_ = "free"
  /\ notifiedCv' = FALSE
  /\ IF is_open_ THEN logger' = "writing" /\ mtx_' = "logger"
                 ELSE logger' = "waiting" /\ UNCHANGED mtx_
  /\ UNCHANGED <<user, is_open_, stop_, items_, opened, pushed, written>>

\* Mutant: the last item is taken.
TakenLast == Len(items_)

\* try_pop takes the first item of the queue.
TakenAt == 1

WriteOne ==
  /\ logger = "writing" /\ ~stop_ /\ items_ # <<>>
  /\ items_' = RemoveAt(items_, TakenAt)
  /\ LET item == items_[TakenAt]
     IN  \E behind \in {0, 1} :
           written' = Append(written, [item |-> item,
                                       text |-> ReadOut(Stored(item).buf, behind)])
  /\ UNCHANGED <<user, logger, mtx_, is_open_, notifiedCv, stop_, opened, pushed>>

\* What is still in the queue is dropped.
EndLog == /\ logger = "writing" /\ stop_
          /\ logger' = "done" /\ mtx_' = "free"
          /\ UNCHANGED <<user, is_open_, notifiedCv, stop_, items_, opened, pushed, written>>

LoggerNext ==
  \/ \E u \in Users : Log(u) \/ SetFile(u) \/ OpenLog(u) \/ Push(u)
  \/ Destroy \/ Wait_ \/ WriteOne \/ EndLog

LoggerSpec == LoggerInit /\ [][LoggerNext]_logVars_

-----------------------------------------------------------------------------
(* Properties.                                                             *)

\* The file has the items in the order in which they were pushed, whichever
\* threads pushed them, none missing between two others.
WrittenInOrder ==
  [i \in 1 .. Len(written) |-> written[i].item] = SubSeq(pushed, 1, Len(written))

\* The file is opened, and so truncated, once, however many threads find it
\* not open at once.
OpenedOnce == opened <= 1

\* An item without a string before its end reads as it was logged; behind a
\* string at its end one character more may be written.
TextAsLogged ==
  \A i \in 1 .. Len(written) :
    LET item == written[i].item
        text == written[i].text
    IN  (~Stored(item).over /\ \A j \in 1 .. Len(item) - 1 : item[j].type # "str") =>
          \/ text = item
          \/ item # <<>> /\ Last(item).type = "str" /\ text = Append(item, [type |-> "char"])

\* Bytes are written behind the buffer only for a string that is longer than
\* the buffer was.
OverflowsOnlyLong ==
  \A i \in 1 .. Len(pushed) :
    Stored(pushed[i]).over =>
      \E j \in 1 .. Len(pushed[i]) : /\ pushed[i][j].type = "str"
                                     /\ pushed[i][j].len >= StackBuf

\* The file is opened once and holds the lines as they were logged.
LoggerSafe ==
  LoggerTypeOK /\ WrittenInOrder /\ OpenedOnce /\ TextAsLogged /\ OverflowsOnlyLong

=============================================================================
