---------------------------- MODULE BoundedFifo ----------------------------
(***************************************************************************)
(* What a user of BlockQueue may rely on: a sequence of at most Capacity   *)
(* items.  An item is put at one of the ends, taken from the front, and    *)
(* lost only when the queue is cleared or closed; closing is final.        *)
(***************************************************************************)
EXTENDS Naturals, Sequences

CONSTANTS Item, Capacity

VARIABLES items, closed

Init == items = <<>> /\ closed = FALSE

Put(x) ==
  /\ Len(items) < Capacity
  /\ items' \in {Append(items, x), <<x>> \o items}
  /\ UNCHANGED closed

Take ==
  /\ items # <<>>
  /\ items' = Tail(items)
  /\ UNCHANGED closed

Drop ==
  /\ items' = <<>>
  /\ closed' \in {closed, TRUE}

Next == Take \/ Drop \/ \E x \in Item : Put(x)

Spec == Init /\ [][Next]_<<items, closed>>
=============================================================================
