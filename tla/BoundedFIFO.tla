---------------------------- MODULE BoundedFIFO ----------------------------
(***************************************************************************)
(* What the library's single-producer single-consumer queues promise: a    *)
(* bounded first-in first-out queue of the items 1, 2, ... in push order.  *)
(***************************************************************************)
EXTENDS Integers, Sequences

CONSTANTS Capacity, MaxPush

VARIABLES q,      \* items in the queue, oldest first
          out,    \* items taken, oldest first
          live    \* the queue still has an owner

vars == <<q, out, live>>

Init == q = <<>> /\ out = <<>> /\ live = TRUE

Push ==
  /\ live /\ Len(q) < Capacity /\ Len(out) + Len(q) < MaxPush
  /\ q' = Append(q, Len(out) + Len(q) + 1)
  /\ UNCHANGED <<out, live>>

Pop ==
  /\ live /\ q # <<>>
  /\ q' = Tail(q)
  /\ out' = Append(out, Head(q))
  /\ UNCHANGED live

Discard ==
  /\ live /\ live' = FALSE
  /\ q' = <<>>
  /\ UNCHANGED out

Next == Push \/ Pop \/ Discard

Spec == Init /\ [][Next]_vars
=============================================================================
