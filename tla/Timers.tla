------------------------------- MODULE Timers -------------------------------
(***************************************************************************)
(* The timers of the framework and the three loops that run them:          *)
(*   "proactor"  timer_manager inside proactor_impl::run, on one thread;   *)
(*   "thread"    xutil::timer, which calls back with its mutex held;       *)
(*   "raft"      xraft::detail::timer, which takes a timer off, gives back *)
(*               its mutex and then calls back.                            *)
(*                                                                         *)
(* A loop sleeps until the first timer is due, so whoever sets an earlier  *)
(* one has to wake it, and a cancelled timer must not be called unless it  *)
(* had already been taken off.                                             *)
(***************************************************************************)
EXTENDS Naturals, Sequences, SequencesExt

CONSTANTS Delays,        \* the time-outs users ask for
          MaxTimers,     \* bound: timers set
          MaxTime        \* bound: ticks of the clock

ASSUME TimersAssumption ==
  /\ MaxTimers \in Nat /\ MaxTime \in Nat /\ Delays \subseteq Nat \ {0}

VARIABLES kind,          \* which of the loops
          pass,          \* where it is, and the timer it has taken off
          clock,
          pending,       \* the multimap: timers in the order of due times
          next_id,
          sleep,         \* while it waits: [until, notified]
          is_stop,
          canceled,      \* history: identifiers cancelled, in time ...
          inHand,        \* ... and those the loop had already taken off
          ended,         \* history: timers that asked for no repetition
          calledLate     \* history: timers called after they were cancelled

timerVars == <<kind, pass, clock, pending, next_id, sleep, is_stop, canceled,
               inHand, ended, calledLate>>

\* Later than any time: 1000 ms, or 500 ms in "raft".
Never == MaxTime + 1

Ids == 1 .. MaxTimers

TimerTypeOK ==
  /\ kind \in {"proactor", "thread", "raft"}
  /\ pass \in [at : {"test", "lock", "scan", "taken", "callback", "wait",
                     "events", "done"},
              id : 0 .. MaxTimers, timeout : Delays \cup {0}]
  /\ clock \in 0 .. MaxTime
  /\ pending \in Seq([id : Ids, due : Nat, timeout : Delays])
  /\ next_id \in 0 .. MaxTimers
  /\ sleep \in [until : Nat, notified : BOOLEAN]
  /\ is_stop \in BOOLEAN
  /\ canceled \subseteq Ids /\ inHand \subseteq Ids /\ ended \subseteq Ids
  /\ calledLate \subseteq Ids

TimerInit ==
  /\ kind \in {"proactor", "thread", "raft"}
  /\ pass = [at |-> IF kind = "thread" THEN "lock" ELSE "test",
             id |-> 0, timeout |-> 0]
  /\ clock = 0 /\ pending = <<>> /\ next_id = 0
  /\ sleep = [until |-> 0, notified |-> FALSE]
  /\ is_stop = FALSE
  /\ canceled = {} /\ inHand = {} /\ ended = {} /\ calledLate = {}

-----------------------------------------------------------------------------
(* The multimap.                                                           *)

\* upper_bound: the place of the first timer due later than due.
UpperBound(due) ==
  CHOOSE k \in 1 .. Len(pending) + 1 :
    /\ \A i \in 1 .. k - 1 : pending[i].due <= due
    /\ k <= Len(pending) => pending[k].due > due

\* insert: behind the timers due at the same time.
Insert(t) == InsertAt(pending, UpperBound(t.due), t)

\* cancel_timer, cancel.
Cancel(id) ==
  IF \E i \in 1 .. Len(pending) : pending[i].id = id
  THEN RemoveAt(pending, CHOOSE i \in 1 .. Len(pending) : pending[i].id = id)
  ELSE pending

-----------------------------------------------------------------------------
(* Users.                                                                  *)

\* A callback may use the timers of a proactor or of raft, and so may other
\* code of the proactor's thread.  Other threads wait for the mutex.  (A
\* callback of xutil::timer that sets a timer locks its own mutex again; the
\* framework has none.)
MaySet == \/ kind = "proactor" /\ pass.at \in {"callback", "events"}
          \/ kind = "thread" /\ pass.at \in {"test", "lock", "wait"}
          \/ kind = "raft" /\ pass.at \in {"test", "lock", "taken", "callback", "wait"}

\* xutil::timer::cancel_timer takes no lock: callbacks use it too.
MayCancel == MaySet \/ (kind = "thread" /\ pass.at = "callback")

\* Mutant: only the first timer wakes the loop.
WakesIfFirst == pending = <<>>

\* Whether set_timer calls notify_one.
Wakes == TRUE

Notify(yes) == sleep' = [sleep EXCEPT !.notified = @ \/ (yes /\ pass.at = "wait")]

SetTimer ==
  /\ MaySet /\ next_id < MaxTimers
  /\ next_id' = next_id + 1
  /\ \E d \in Delays :
       pending' = Insert([id |-> next_id', due |-> clock + d, timeout |-> d])
  /\ Notify(kind # "proactor" /\ Wakes)
  /\ UNCHANGED <<kind, pass, clock, is_stop, canceled, inHand, ended, calledLate>>

\* A timer that is being called, or is about to be, is not found.
CancelTimer ==
  /\ MayCancel
  /\ \E id \in (1 .. next_id) \ (canceled \cup inHand \cup ended) :
       /\ pending' = Cancel(id)
       /\ IF pass.id = id THEN inHand' = inHand \cup {id} /\ UNCHANGED canceled
                          ELSE canceled' = canceled \cup {id} /\ UNCHANGED inHand
       /\ Notify(kind = "raft" /\ pending' # pending)
  /\ UNCHANGED <<kind, pass, clock, next_id, is_stop, ended, calledLate>>

\* stop sets a flag and notifies, without the mutex; a proactor is not woken.
StopTimers ==
  /\ ~is_stop /\ is_stop' = TRUE
  /\ Notify(kind # "proactor")
  /\ UNCHANGED <<kind, pass, clock, pending, next_id, canceled, inHand, ended, calledLate>>

-----------------------------------------------------------------------------
(* The loops.                                                              *)

Rest == UNCHANGED <<kind, clock, next_id, is_stop, canceled, inHand, ended>>

To(at) == pass' = [at |-> at, id |-> 0, timeout |-> 0]

Test == /\ pass.at = "test"
        /\ To(IF is_stop THEN "done" ELSE "lock")
        /\ Rest /\ UNCHANGED <<pending, sleep, calledLate>>

Lock == /\ pass.at = "lock" /\ To("scan")
        /\ Rest /\ UNCHANGED <<pending, sleep, calledLate>>

\* The time is read anew after each callback.
IsDue == pending # <<>> /\ Head(pending).due <= clock

\* The first timer is due: it is taken off.
TakeOff ==
  /\ pass.at = "scan" /\ IsDue
  /\ pending' = Tail(pending)
  /\ pass' = [at |-> IF kind = "raft" THEN "taken" ELSE "callback",
              id |-> Head(pending).id, timeout |-> Head(pending).timeout]
  /\ calledLate' = calledLate \cup ({Head(pending).id} \cap canceled)
  /\ Rest /\ UNCHANGED sleep

\* raft: the mutex has been given back; the callback begins.
Begin ==
  /\ pass.at = "taken" /\ pass' = [pass EXCEPT !.at = "callback"]
  /\ Rest /\ UNCHANGED <<pending, sleep, calledLate>>

\* The callback returns: TRUE asks for a repetition.
Returns ==
  /\ pass.at = "callback"
  /\ UNCHANGED <<kind, clock, next_id, is_stop, canceled, inHand, sleep, calledLate>>
  /\ To(IF kind = "raft" THEN "test" ELSE "scan")
  /\ \/ ended' = ended \cup {pass.id} /\ UNCHANGED pending
     \/ /\ kind # "raft" /\ UNCHANGED ended
        /\ pending' = Insert([id |-> pass.id, due |-> clock + pass.timeout,
                               timeout |-> pass.timeout])

\* Nothing is due.
GoToSleep ==
  /\ pass.at = "scan" /\ ~IsDue
  /\ To("wait")
  /\ sleep' = [until |-> IF pending = <<>> THEN Never ELSE Head(pending).due, notified |-> FALSE]
  /\ Rest /\ UNCHANGED <<pending, calledLate>>

\* It wakes: in time, notified, or for an event, which epoll_wait reports.
Wake ==
  /\ pass.at = "wait"
  /\ \/ (clock >= sleep.until \/ sleep.notified) /\ To("test")
     \/ kind = "proactor" /\ To("events")
  /\ Rest /\ UNCHANGED <<pending, sleep, calledLate>>

EventsDone == /\ pass.at = "events" /\ To("test")
              /\ Rest /\ UNCHANGED <<pending, sleep, calledLate>>

\* The loop itself takes no time: only callbacks and waiting do.
Tick == /\ clock < MaxTime /\ pass.at # "scan"
        /\ clock' = clock + 1
        /\ UNCHANGED <<kind, pass, pending, next_id, sleep, is_stop, canceled,
                       inHand, ended, calledLate>>

TimerNext == \/ SetTimer \/ CancelTimer \/ StopTimers
             \/ Test \/ Lock \/ TakeOff \/ Begin \/ Returns \/ GoToSleep
             \/ Wake \/ EventsDone \/ Tick

TimerSpec == TimerInit /\ [][TimerNext]_timerVars

-----------------------------------------------------------------------------
(* Properties.                                                             *)

\* The loop never sleeps past a timer: whoever sets one that is due before
\* the loop wakes has woken it, between whichever two steps of the loop.
NoOversleep ==
  pass.at = "wait" /\ ~sleep.notified =>
    \A i \in 1 .. Len(pending) : sleep.until <= pending[i].due

\* A timer that was cancelled is not called any more, unless the loop had
\* taken it off when it was cancelled.
CanceledSilent == calledLate = {}

\* A timer is kept until it has been called and wants no more, or is
\* cancelled: two of them due at one time do not push each other out.
NoneLost ==
  \A id \in (1 .. next_id) \ (ended \cup canceled) :
    pass.id = id \/ \E i \in 1 .. Len(pending) : pending[i].id = id

\* The loops wake for every timer, keep every timer and call no other.
TimersSafe == TimerTypeOK /\ NoOversleep /\ CanceledSilent /\ NoneLost

=============================================================================
