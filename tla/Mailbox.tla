------------------------------ MODULE Mailbox ------------------------------
(***************************************************************************)
(* What a message box promises the threads that post to it: the posted     *)
(* handles wait in one queue, a single consumer takes them one at a time   *)
(* in the order they were posted, runs each one to completion before the   *)
(* next, and never leaves a handle waiting for ever.                       *)
(***************************************************************************)
EXTENDS Sequences

CONSTANTS Handle,        \* the handles that may be posted
          NoHandle       \* no handle is running

VARIABLES queue,         \* posted and not yet taken, oldest first
          running        \* the handle the consumer is running

vars == <<queue, running>>

Init == queue = <<>> /\ running = NoHandle

Post(h) == queue' = Append(queue, h) /\ UNCHANGED running

Take == /\ running = NoHandle
        /\ queue # <<>>
        /\ running' = Head(queue)
        /\ queue' = Tail(queue)

Finish == running # NoHandle /\ running' = NoHandle /\ UNCHANGED queue

Next == (\E h \in Handle : Post(h)) \/ Take \/ Finish

SafeSpec == Init /\ [][Next]_vars

\* The consumer never sleeps on a non-empty queue for ever.
Spec == SafeSpec /\ WF_vars(Take) /\ WF_vars(Finish)

=============================================================================
