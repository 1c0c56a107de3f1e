----------------------------- MODULE ActorModel -----------------------------
(***************************************************************************)
(* What xactor promises the author of an actor: each actor handles one     *)
(* message at a time, in the order its mailbox received them; a closed     *)
(* actor receives nothing more, and what its mailbox still holds may never *)
(* be handled.                                                             *)
(***************************************************************************)
EXTENDS Sequences

CONSTANTS Actor,         \* the actor objects that may be spawned
          Message,       \* what is sent to them
          NoMessage      \* the actor is handling nothing

VARIABLES live,          \* actors that receive messages
          mailbox,       \* received and not yet handled, oldest first
          handling       \* the message each actor is handling

vars == <<live, mailbox, handling>>

Init ==
  /\ live = {}
  /\ mailbox = [o \in Actor |-> <<>>]
  /\ handling = [o \in Actor |-> NoMessage]

Spawn(o) ==
  /\ o \notin live
  /\ mailbox[o] = <<>> /\ handling[o] = NoMessage
  /\ live' = live \cup {o}
  /\ UNCHANGED <<mailbox, handling>>

Receive(o, m) ==
  /\ o \in live
  /\ mailbox' = [mailbox EXCEPT ![o] = Append(@, m)]
  /\ UNCHANGED <<live, handling>>

Handle(o) ==
  /\ handling[o] = NoMessage
  /\ mailbox[o] # <<>>
  /\ handling' = [handling EXCEPT ![o] = Head(mailbox[o])]
  /\ mailbox' = [mailbox EXCEPT ![o] = Tail(@)]
  /\ UNCHANGED live

Finish(o) ==
  /\ handling[o] # NoMessage
  /\ handling' = [handling EXCEPT ![o] = NoMessage]
  /\ UNCHANGED <<live, mailbox>>

Close(o) ==
  /\ live' = live \ {o}
  /\ UNCHANGED <<mailbox, handling>>

Next == \E o \in Actor :
  \/ Spawn(o) \/ Handle(o) \/ Finish(o) \/ Close(o)
  \/ \E m \in Message : Receive(o, m)

Spec == Init /\ [][Next]_vars

=============================================================================
