----------------------------- MODULE RingIndex -----------------------------
(***************************************************************************)
(* Index arithmetic of the power-of-two rings in xsl/sync/spsc.h and       *)
(* xsl/coro/channel/spsc.h: indices live in 0..Mask, Mask + 1 slots, and   *)
(* the successor of an index is (i + 1) & Mask.                            *)
(***************************************************************************)
EXTENDS Integers

CONSTANT Mask   \* _size_mask of a Snapshot, the number of slots less one

ASSUME MaskAssumption == Mask \in Nat

Slot == 0 .. Mask

(***************************************************************************)
(* (i + 1) & _size_mask for i in Slot.  Since _size_mask + 1 is a power of *)
(* two, masking is reduction modulo it.      *)
(***************************************************************************)
Succ(i) == (i + 1) % (Mask + 1)

(***************************************************************************)
(* How many Succ steps lead from a to b, and the indices passed on the way *)
(* (a included, b excluded).                                               *)
(***************************************************************************)
Dist(a, b) == IF a <= b THEN b - a ELSE b - a + Mask + 1

Span(a, b) == {i \in Slot : Dist(a, i) < Dist(a, b)}

(***************************************************************************)
(* What an atomic load of an index may return to a thread that last saw    *)
(* `seen' while the index is now `now': coherence rules out anything older *)
(* than `seen', acquire/release alone does not force the newest value.     *)
(***************************************************************************)
Visible(seen, now) == {i \in Slot : Dist(seen, i) <= Dist(seen, now)}
=============================================================================
