---------------------------- MODULE TotalOrder ------------------------------
(***************************************************************************)
(* What a replicated log promises: one sequence of entries that only       *)
(* grows, delivered to every node in that order, each entry once.          *)
(***************************************************************************)
EXTENDS Naturals, Sequences

CONSTANTS Node, Entry

VARIABLES log,         \* the entries, in the order all agree on
          delivered    \* what each node has been given, in order

TypeOK == /\ log \in Seq(Entry)
          /\ delivered \in [Node -> Seq(Entry)]

vars == <<log, delivered>>

Init == /\ log = <<>>
        /\ delivered = [n \in Node |-> <<>>]

Extend(e) == /\ log' = Append(log, e)
             /\ UNCHANGED delivered

Deliver(n) ==
  LET k == Len(delivered[n]) + 1
  IN  /\ k <= Len(log)
      /\ delivered' = [delivered EXCEPT ![n] = Append(@, log[k])]
      /\ UNCHANGED log

Next == \/ \E e \in Entry : Extend(e)
        \/ \E n \in Node : Deliver(n)

Spec == Init /\ [][Next]_vars

=============================================================================
