-------------------------- MODULE SPSCQueueProofs --------------------------
(***************************************************************************)
(* Safety of the lock-free queue for every ring size and every number of   *)
(* pushes.  The inductive invariant says that the four indices lie in the  *)
(* order headSeen, head, tailSeen, tail on one turn of the ring (Order),   *)
(* and which item lives in which slot (Contents).                          *)
(***************************************************************************)
EXTENDS SPSCQueue, TLAPS

-----------------------------------------------------------------------------
(* The index arithmetic of the ring, for every ring size. *)

\* Masking an incremented index wraps it around exactly at the last slot.
LEMMA SuccLemma ==
  ASSUME NEW i \in Slot
  PROVE  /\ Succ(i) \in Slot
         /\ Succ(i) = IF i = Mask THEN 0 ELSE i + 1
<1>1. CASE i = Mask
  BY <1>1, MaskAssumption DEF Slot, Succ
<1>2. CASE i # Mask
  <2>1. i + 1 \in 0 .. Mask
    BY <1>2, MaskAssumption DEF Slot
  <2>2. (i + 1) % (Mask + 1) = i + 1
    BY <2>1, MaskAssumption
  <2> QED BY <1>2, <2>1, <2>2 DEF Slot, Succ
<1> QED BY <1>1, <1>2

\* An index lies on the turn from a that ends at b.
LEMMA DistLemma ==
  ASSUME NEW a \in Slot, NEW b \in Slot
  PROVE  /\ Dist(a, b) \in Nat
         /\ Dist(a, b) <= Mask
         /\ Dist(a, b) = 0 <=> a = b
         /\ Dist(a, b) = Mask <=> Succ(b) = a
BY SuccLemma, MaskAssumption DEF Slot, Dist

\* A turn splits at any index it passes.
LEMMA TurnSplit ==
  ASSUME NEW a \in Slot, NEW b \in Slot, NEW c \in Slot,
         Dist(a, b) <= Dist(a, c)
  PROVE  Dist(b, c) = Dist(a, c) - Dist(a, b)
BY MaskAssumption DEF Slot, Dist

\* Two turns that fit into the ring join into one.
LEMMA TurnJoin ==
  ASSUME NEW a \in Slot, NEW b \in Slot, NEW c \in Slot,
         Dist(a, b) + Dist(b, c) <= Mask
  PROVE  Dist(a, c) = Dist(a, b) + Dist(b, c)
BY MaskAssumption DEF Slot, Dist

\* Publishing at the end of a turn that is not full lengthens it by one.
LEMMA TurnGrows ==
  ASSUME NEW a \in Slot, NEW b \in Slot, Dist(a, b) < Mask
  PROVE  Dist(a, Succ(b)) = Dist(a, b) + 1
BY SuccLemma, MaskAssumption DEF Slot, Dist

\* Leaving its first slot shortens a turn by one; that slot is now the last.
LEMMA TurnShrinks ==
  ASSUME NEW a \in Slot, NEW b \in Slot
  PROVE  Dist(Succ(a), b) = IF a = b THEN Mask ELSE Dist(a, b) - 1
BY SuccLemma, MaskAssumption DEF Slot, Dist

-----------------------------------------------------------------------------
(***************************************************************************)
(* One turn of the ring: the snapshots trail the indices they copy, and    *)
(* the pcs record the comparisons already made.                            *)
(***************************************************************************)
Order ==
  /\ Dist(headSeen, head) + Dist(head, tailSeen) + Dist(tailSeen, tail)
       = Dist(headSeen, tail)
  /\ ppc # "idle" => Dist(headSeen, tail) < Mask
  /\ cpc = "publish" => head # tailSeen
  /\ cpc \in {"move", "destroy"} => Succ(slot) = head
  /\ "tx" \notin owners => ppc = "idle"
  /\ "rx" \notin owners => cpc = "idle"

\* The number of items pop has taken: all pushed ones but those in the ring.
Popped == pushed - Dist(head, tail)

(***************************************************************************)
(* Which item lives where, while somebody owns the storage.                *)
(***************************************************************************)
Contents ==
  /\ ppc # "idle" => pushed < MaxPush
  /\ Len(received) = IF cpc = "move" THEN Popped - 1 ELSE Popped
  /\ cpc = "destroy" => received # <<>>
  /\ owners # {} =>
       \A s \in Slot : buffer[s] =
         IF Dist(head, s) < Dist(head, tail) THEN Popped + Dist(head, s) + 1
         ELSE IF s = slot /\ cpc \in {"move", "destroy"} THEN Popped
         ELSE IF s = tail /\ ppc = "publish" THEN pushed + 1
         ELSE Free
  /\ owners = {} => \A s \in Slot : buffer[s] = Free

IInv == TypeOK /\ Order /\ Contents /\ Fifo

-----------------------------------------------------------------------------
\* The indices and the distances between them are numbers.
LEMMA IndexTypes ==
  ASSUME TypeOK
  PROVE  /\ head \in Slot /\ tail \in Slot /\ slot \in Slot
         /\ headSeen \in Slot /\ tailSeen \in Slot
         /\ Dist(head, tail) \in Nat /\ Dist(head, tail) <= Mask
         /\ Dist(headSeen, head) \in Nat /\ Dist(headSeen, tail) \in Nat
         /\ Dist(head, tailSeen) \in Nat /\ Dist(tailSeen, tail) \in Nat
         /\ Dist(headSeen, tail) <= Mask
         /\ pushed \in Nat /\ Len(received) \in Nat
         /\ Popped \in Int
<1>1. pushed \in Nat /\ Len(received) \in Nat
  BY MaxPushAssumption DEF TypeOK
<1>2. Dist(head, tail) \in Nat
  BY DistLemma DEF TypeOK
<1> QED BY <1>1, <1>2, DistLemma DEF TypeOK, Popped

\* The consumer's turn from head to tail is part of the producer's.
LEMMA HeadTail ==
  ASSUME TypeOK, Order
  PROVE  /\ Dist(headSeen, tail) = Dist(headSeen, head) + Dist(head, tail)
         /\ Dist(head, tail) = Dist(head, tailSeen) + Dist(tailSeen, tail)
<1>1. Dist(head, tail) = Dist(headSeen, tail) - Dist(headSeen, head)
  BY IndexTypes, TurnSplit DEF Order
<1> QED BY <1>1, IndexTypes DEF Order

LEMMA InitIInv == Init => IInv
BY MaskAssumption, MaxPushAssumption
   DEF Init, IInv, TypeOK, Order, Contents, Popped, Fifo, Slot, Dist, Item, Free

LEMMA PushCheckIInv == IInv /\ PushCheck => IInv'
<1> SUFFICES ASSUME IInv, PushCheck PROVE IInv'
  OBVIOUS
<1> USE MaskAssumption, MaxPushAssumption
<1>1. headSeen' \in Slot /\ Dist(headSeen, headSeen') <= Dist(headSeen, head)
  BY DistLemma DEF IInv, TypeOK, PushCheck, Visible, Slot, Dist
<1>2. TypeOK'
  BY <1>1 DEF IInv, TypeOK, PushCheck
<1>3. Order'
  <2>1. Succ(tail) # headSeen' <=> Dist(headSeen', tail) # Mask
    BY <1>1, DistLemma DEF IInv, TypeOK
  <2>2. ppc' # "idle" => Dist(headSeen', tail) < Mask
    BY <1>1, <2>1, DistLemma DEF IInv, TypeOK, PushCheck
  <2>3. Dist(headSeen', head) + Dist(head, tailSeen) + Dist(tailSeen, tail)
          = Dist(headSeen', tail)
    <3>1. Dist(headSeen, headSeen') \in Nat
      BY <1>1, IndexTypes, DistLemma DEF IInv
    <3>2. Dist(headSeen', head) = Dist(headSeen, head) - Dist(headSeen, headSeen')
      BY <1>1, IndexTypes, TurnSplit DEF IInv
    <3>3. Dist(headSeen', tail) = Dist(headSeen, tail) - Dist(headSeen, headSeen')
      BY <1>1, <3>1, HeadTail, IndexTypes, TurnSplit DEF IInv
    <3> QED BY <3>1, <3>2, <3>3, IndexTypes DEF IInv, Order
  <2> QED BY <2>2, <2>3 DEF IInv, Order, PushCheck, Dist, Succ
<1>4. Contents'
  BY DEF IInv, TypeOK, Contents, PushCheck, Popped, Dist, Slot
<1>5. Fifo'
  BY DEF IInv, Fifo, PushCheck
<1> QED BY <1>2, <1>3, <1>4, <1>5 DEF IInv

LEMMA PushConstructIInv == IInv /\ PushConstruct => IInv'
<1> SUFFICES ASSUME IInv, PushConstruct PROVE IInv'
  OBVIOUS
<1> USE MaskAssumption, MaxPushAssumption
<1>1. pushed + 1 \in Item
  BY DEF IInv, TypeOK, Contents, PushConstruct, Item
<1>2. TypeOK'
  BY <1>1 DEF IInv, TypeOK, PushConstruct
<1>3. Order'
  BY DEF IInv, Order, PushConstruct, Dist, Succ
<1>4. Contents'
  <2>1. Dist(head, tail) <= Dist(headSeen, tail)
    BY HeadTail, IndexTypes DEF IInv
  <2>2. ~ (tail = slot /\ cpc \in {"move", "destroy"})
    BY <2>1, DistLemma DEF IInv, TypeOK, Order, PushConstruct
  <2>3. owners # {}
    BY DEF IInv, Order, PushConstruct
  <2>4. Popped' = Popped
    BY DEF PushConstruct, Popped, Dist
  <2>5. ~ (Dist(head, tail) < Dist(head, tail))
    BY IndexTypes DEF IInv
  <2>6. ASSUME NEW s \in Slot
        PROVE  buffer'[s] = IF s = tail THEN pushed + 1 ELSE buffer[s]
    BY DEF IInv, TypeOK, PushConstruct
  <2> QED BY <2>2, <2>3, <2>4, <2>5, <2>6 DEF IInv, Contents, PushConstruct, Dist
<1>5. Fifo'
  BY DEF IInv, Fifo, PushConstruct
<1> QED BY <1>2, <1>3, <1>4, <1>5 DEF IInv

LEMMA PushPublishIInv == IInv /\ PushPublish => IInv'
<1> SUFFICES ASSUME IInv, PushPublish PROVE IInv'
  OBVIOUS
<1> USE MaskAssumption, MaxPushAssumption
<1>1. tail' \in Slot /\ tail' = IF tail = Mask THEN 0 ELSE tail + 1
  BY SuccLemma DEF IInv, TypeOK, PushPublish
<1>2. TypeOK'
  BY <1>1 DEF IInv, TypeOK, PushPublish, Contents
<1>3. Dist(headSeen, tail) < Mask /\ Dist(head, tail) < Mask
  BY DistLemma DEF IInv, TypeOK, Order, PushPublish, Dist, Slot
<1>4. Dist(head, tail') = Dist(head, tail) + 1
  BY <1>1, <1>3 DEF IInv, TypeOK, Dist, Slot
<1>5. Order'
  <2>1. Dist(headSeen, tail') = Dist(headSeen, tail) + 1
    BY <1>1, <1>3 DEF IInv, TypeOK, Dist, Slot
  <2>2. Dist(tailSeen, tail') = Dist(tailSeen, tail) + 1
    BY <1>1, <1>3 DEF IInv, TypeOK, Order, Dist, Slot
  <2>3. Dist(headSeen, head) + Dist(head, tailSeen) + Dist(tailSeen, tail')
          = Dist(headSeen, tail')
    BY <2>1, <2>2, DistLemma DEF IInv, TypeOK, Order, Slot, Dist
  <2> QED BY <2>3 DEF IInv, Order, PushPublish, Dist, Succ
<1>6. Contents'
  <2>1. Popped' = Popped
    BY <1>4, DistLemma DEF IInv, TypeOK, PushPublish, Popped, Dist, Slot
  <2>2. owners # {}
    BY DEF IInv, Order, PushPublish
  <2>3. ASSUME NEW s \in Slot
        PROVE  buffer[s] =
          IF Dist(head, s) < Dist(head, tail') THEN Popped + Dist(head, s) + 1
          ELSE IF s = slot /\ cpc \in {"move", "destroy"} THEN Popped
          ELSE Free
    <3>1. Dist(head, s) = Dist(head, tail) <=> s = tail
      BY DEF IInv, TypeOK, Dist, Slot
    <3>2. tail = slot => cpc \notin {"move", "destroy"}
      BY <1>3, DistLemma DEF IInv, TypeOK, Order
    <3>3. Dist(head, s) \in Int /\ Dist(head, tail) \in Int /\ pushed \in Int
      BY DistLemma DEF IInv, TypeOK
    <3> QED BY <1>4, <2>2, <3>1, <3>2, <3>3 DEF IInv, Contents, PushPublish, Popped
  <2> QED BY <2>1, <2>2, <2>3 DEF IInv, Contents, PushPublish, Dist
<1>7. Fifo'
  BY DEF IInv, Fifo, PushPublish
<1> QED BY <1>2, <1>5, <1>6, <1>7 DEF IInv

LEMMA PopCheckIInv == IInv /\ PopCheck => IInv'
<1> SUFFICES ASSUME IInv, PopCheck PROVE IInv'
  OBVIOUS
<1> USE MaskAssumption, MaxPushAssumption
<1>1. tailSeen' \in Slot /\ Dist(tailSeen, tailSeen') <= Dist(tailSeen, tail)
  BY DistLemma DEF IInv, TypeOK, PopCheck, Visible, Slot, Dist
<1>2. TypeOK'
  BY <1>1 DEF IInv, TypeOK, PopCheck
<1>3. Order'
  <2>0. Dist(tailSeen, tailSeen') \in Nat
    BY <1>1, IndexTypes, DistLemma DEF IInv
  <2>1. Dist(head, tailSeen') = Dist(head, tailSeen) + Dist(tailSeen, tailSeen')
    <3>1. Dist(head, tailSeen) + Dist(tailSeen, tailSeen') <= Mask
      BY <1>1, <2>0, HeadTail, IndexTypes DEF IInv
    <3> QED BY <1>1, <3>1, IndexTypes, TurnJoin DEF IInv
  <2>2. Dist(tailSeen', tail) = Dist(tailSeen, tail) - Dist(tailSeen, tailSeen')
    BY <1>1, IndexTypes, TurnSplit DEF IInv
  <2>3. Dist(headSeen, head) + Dist(head, tailSeen') + Dist(tailSeen', tail)
          = Dist(headSeen, tail)
    BY <2>0, <2>1, <2>2, IndexTypes DEF IInv, Order
  <2> QED BY <2>3 DEF IInv, Order, PopCheck, Dist, Succ
<1>4. Contents'
  BY DEF IInv, TypeOK, Contents, PopCheck, Popped, Dist, Slot
<1>5. Fifo'
  BY DEF IInv, Fifo, PopCheck
<1> QED BY <1>2, <1>3, <1>4, <1>5 DEF IInv

LEMMA PopPublishIInv == IInv /\ PopPublish => IInv'
<1> SUFFICES ASSUME IInv, PopPublish PROVE IInv'
  OBVIOUS
<1> USE MaskAssumption, MaxPushAssumption
<1>1. head' \in Slot /\ head' = (IF head = Mask THEN 0 ELSE head + 1)
      /\ slot' = head
  BY SuccLemma DEF IInv, TypeOK, PopPublish
<1>2. TypeOK'
  BY <1>1 DEF IInv, TypeOK, PopPublish
<1>3. Dist(head, tailSeen) > 0 /\ Dist(head, tail) > 0
  BY DistLemma DEF IInv, TypeOK, Order, PopPublish, Dist, Slot
<1>4. Dist(head', tail) = Dist(head, tail) - 1
  BY <1>1, <1>3 DEF IInv, TypeOK, Dist, Slot
<1>5. Order'
  <2>1. Dist(head', tailSeen) = Dist(head, tailSeen) - 1
    BY <1>1, <1>3 DEF IInv, TypeOK, Dist, Slot
  <2>2. Dist(headSeen, head') = Dist(headSeen, head) + 1
    BY <1>1, <1>3 DEF IInv, TypeOK, Order, Dist, Slot
  <2>3. Dist(headSeen, head') + Dist(head', tailSeen) + Dist(tailSeen, tail)
          = Dist(headSeen, tail)
    BY <2>1, <2>2, IndexTypes DEF IInv, Order
  <2> QED BY <2>3 DEF IInv, Order, PopPublish, Dist, Succ
<1>6. Contents'
  <2>1. Popped' = Popped + 1
    BY <1>4, DistLemma DEF IInv, TypeOK, PopPublish, Popped, Dist, Slot
  <2>2. owners # {}
    BY DEF IInv, Order, PopPublish
  <2>3. Popped \in Int
    BY IndexTypes DEF IInv
  <2>4. ASSUME NEW s \in Slot
        PROVE  buffer[s] =
          IF Dist(head', s) < Dist(head', tail)
            THEN Popped + 1 + Dist(head', s) + 1
          ELSE IF s = head THEN Popped + 1
          ELSE IF s = tail /\ ppc = "publish" THEN pushed + 1
          ELSE Free
    <3>1. CASE s = head
      <4>1. Dist(head, s) = 0 /\ Dist(head', s) = Mask
        BY <1>1, <3>1 DEF IInv, TypeOK, Dist, Slot
      <4>2. ~ (Dist(head', s) < Dist(head', tail))
        BY <1>1, <1>4, <4>1, IndexTypes DEF IInv
      <4> QED BY <1>3, <2>2, <2>3, <3>1, <4>1, <4>2 DEF IInv, Contents
    <3>2. CASE s # head
      <4>1. Dist(head', s) = Dist(head, s) - 1
        BY <1>1, <3>2 DEF IInv, TypeOK, Dist, Slot
      <4>2. Dist(head, s) \in Int /\ Dist(head, tail) \in Int
        BY DistLemma DEF IInv, TypeOK
      <4>3. cpc \notin {"move", "destroy"}
        BY DEF PopPublish
      <4> QED BY <1>4, <2>2, <2>3, <3>2, <4>1, <4>2, <4>3 DEF IInv, Contents
    <3> QED BY <3>1, <3>2
  <2> QED BY <1>1, <2>1, <2>2, <2>3, <2>4 DEF IInv, Contents, PopPublish, Dist
<1>7. Fifo'
  BY DEF IInv, Fifo, PopPublish
<1> QED BY <1>2, <1>5, <1>6, <1>7 DEF IInv

LEMMA PopMoveIInv == IInv /\ PopMove => IInv'
<1> SUFFICES ASSUME IInv, PopMove PROVE IInv'
  OBVIOUS
<1> USE MaskAssumption, MaxPushAssumption
<1>1. owners # {}
  BY DEF IInv, Order, PopMove
<1>2. Dist(head, slot) = Mask
  BY DistLemma DEF IInv, TypeOK, Order, PopMove
<1>3. buffer[slot] = Popped /\ Popped = Len(received) + 1 /\ Popped \in Item
  <2>1. ~ (Dist(head, slot) < Dist(head, tail))
    BY <1>2, IndexTypes DEF IInv
  <2>2. buffer[slot] = Popped
    BY <1>1, <2>1 DEF IInv, TypeOK, Contents, PopMove
  <2>3. Popped \in Int /\ Len(received) \in Nat
    BY IndexTypes DEF IInv
  <2>4. Popped = Len(received) + 1
    BY <2>3 DEF IInv, Contents, PopMove
  <2>5. Popped <= pushed /\ pushed <= MaxPush
    BY IndexTypes DEF IInv, TypeOK, Popped
  <2> QED BY <2>2, <2>3, <2>4, <2>5, IndexTypes DEF IInv, Item
<1>4. TypeOK'
  BY <1>3 DEF IInv, TypeOK, PopMove
<1>5. Order'
  BY DEF IInv, Order, PopMove, Dist, Succ
<1>6. Len(received') = Len(received) + 1
  BY DEF IInv, TypeOK, PopMove
<1>7. Contents'
  <2>1. Popped' = Popped
    BY DEF PopMove, Popped, Dist
  <2> QED BY <1>3, <1>6, <2>1 DEF IInv, TypeOK, Contents, PopMove, Dist
<1>8. Fifo'
  BY <1>3, <1>6 DEF IInv, TypeOK, Fifo, PopMove
<1> QED BY <1>4, <1>5, <1>7, <1>8 DEF IInv

LEMMA PopDestroyIInv == IInv /\ PopDestroy => IInv'
<1> SUFFICES ASSUME IInv, PopDestroy PROVE IInv'
  OBVIOUS
<1> USE MaskAssumption, MaxPushAssumption
<1>1. TypeOK'
  BY DEF IInv, TypeOK, PopDestroy
<1>2. Order'
  BY DEF IInv, Order, PopDestroy, Dist, Succ
<1>3. Contents'
  <2>1. Dist(head, slot) = Mask
    BY DistLemma DEF IInv, TypeOK, Order, PopDestroy
  <2>2. ~ (Dist(head, slot) < Dist(head, tail))
    BY <2>1, IndexTypes DEF IInv
  <2>3. slot = tail => ppc # "publish"
    BY <2>1, DistLemma DEF IInv, TypeOK, Order, Dist, Slot
  <2>4. owners # {}
    BY DEF IInv, Order, PopDestroy
  <2> QED BY <2>2, <2>3, <2>4 DEF IInv, TypeOK, Contents, PopDestroy, Popped, Dist
<1>4. Fifo'
  BY DEF IInv, Fifo, PopDestroy
<1> QED BY <1>1, <1>2, <1>3, <1>4 DEF IInv

LEMMA DropIInv == IInv /\ (DropTx \/ DropRx) => IInv'
<1> SUFFICES ASSUME IInv, DropTx \/ DropRx PROVE IInv'
  OBVIOUS
<1> USE MaskAssumption, MaxPushAssumption
<1>1. TypeOK'
  BY DEF IInv, TypeOK, DropTx, DropRx, DropHandle, StorageDestroyed
<1>2. Order'
  BY DEF IInv, Order, DropTx, DropRx, DropHandle, Dist, Succ
<1>3. Contents'
  <2>1. owners # {}
    BY DEF DropTx, DropRx, DropHandle
  <2>2. CASE owners' # {}
    BY <2>1, <2>2 DEF IInv, Contents, DropTx, DropRx, DropHandle, Popped, Dist
  <2>3. CASE owners' = {}
    <3>1. ppc = "idle" /\ cpc = "idle"
      BY <2>3 DEF IInv, TypeOK, Order, DropTx, DropRx, DropHandle
    <3>2. buffer' = StorageDestroyed
      BY <2>3 DEF DropTx, DropRx, DropHandle
    <3>3. \A s \in Slot : buffer'[s] = Free
      BY <2>1, <3>1, <3>2 DEF IInv, Contents, StorageDestroyed, Span
    <3> QED BY <2>3, <3>1, <3>3 DEF IInv, Contents, DropTx, DropRx, DropHandle, Popped, Dist
  <2> QED BY <2>2, <2>3
<1>4. Fifo'
  BY DEF IInv, Fifo, DropTx, DropRx, DropHandle
<1> QED BY <1>1, <1>2, <1>3, <1>4 DEF IInv

-----------------------------------------------------------------------------
(***************************************************************************)
(* The invariant holds in every reachable state.                           *)
(***************************************************************************)
THEOREM Invariance == Spec => []IInv
<1>1. IInv /\ [Next]_vars => IInv'
  <2> SUFFICES ASSUME IInv, [Next]_vars PROVE IInv'
    OBVIOUS
  <2>1. CASE Next
    BY <2>1, PushCheckIInv, PushConstructIInv, PushPublishIInv, PopCheckIInv,
       PopPublishIInv, PopMoveIInv, PopDestroyIInv, DropIInv
       DEF Next, Producer, Consumer
  <2>2. CASE UNCHANGED vars
    BY <2>2 DEF vars, IInv, TypeOK, Order, Contents, Popped, Fifo, Dist, Succ
  <2> QED BY <2>1, <2>2
<1> QED BY <1>1, InitIInv, PTL DEF Spec

(***************************************************************************)
(* The variables keep their types, whatever the ring size.                 *)
(***************************************************************************)
THEOREM TypeCorrect == Spec => []TypeOK
BY Invariance, PTL DEF IInv

(***************************************************************************)
(* push and pop never work on one slot at the same time (spsc.h 94, 129),  *)
(* although pop publishes the slot as free before it empties it.           *)
(***************************************************************************)
THEOREM SlotExclusionHolds == Spec => []SlotExclusion
<1>1. IInv => SlotExclusion
  <2> SUFFICES ASSUME IInv, ppc = "construct", cpc \in {"move", "destroy"},
                      slot = tail
               PROVE  FALSE
    BY DEF SlotExclusion
  <2>1. Dist(head, tail) <= Dist(headSeen, tail)
    BY HeadTail, IndexTypes DEF IInv
  <2> QED BY <2>1, DistLemma, MaskAssumption DEF IInv, TypeOK, Order
<1> QED BY <1>1, Invariance, PTL

(***************************************************************************)
(* pop hands out the items in the order push took them.                    *)
(***************************************************************************)
THEOREM FifoHolds == Spec => []Fifo
BY Invariance, PTL DEF IInv

(***************************************************************************)
(* Objects are constructed into empty slots only, destroyed once, and none *)
(* survives ~Storage.                                                      *)
(***************************************************************************)
THEOREM LifetimesHold == Spec => []Lifetimes
<1>1. IInv => Lifetimes
  <2> SUFFICES ASSUME IInv PROVE Lifetimes
    OBVIOUS
  <2>1. CASE owners = {}
    BY <2>1 DEF IInv, Contents, Lifetimes
  <2>2. CASE owners # {}
    <3>1. ASSUME NEW s \in Slot
          PROVE  buffer[s] # Free <=>
                   \/ Dist(head, s) < Dist(head, tail)
                   \/ s = slot /\ cpc \in {"move", "destroy"}
                   \/ s = tail /\ ppc = "publish"
      <4>1. Popped \in Int /\ pushed \in Nat /\ Dist(head, s) \in Nat
              /\ Dist(head, tail) \in Nat /\ Len(received) \in Nat
        BY IndexTypes, DistLemma DEF IInv
      <4>2. Popped >= 0 /\ (cpc = "move" => Popped >= 1)
        BY <4>1 DEF IInv, Contents
      <4>3. cpc = "destroy" => Popped >= 1
        BY <4>1 DEF IInv, TypeOK, Contents
      <4> QED BY <2>2, <4>1, <4>2, <4>3 DEF IInv, Contents, Free
    <3> QED BY <2>2, <3>1 DEF Lifetimes, Span, IInv, TypeOK
  <2> QED BY <2>1, <2>2
<1> QED BY <1>1, Invariance, PTL

-----------------------------------------------------------------------------
(* Refinement of the bounded FIFO.                                         *)

\* The n items after item k, oldest first.
Items(k, n) == [i \in 1 .. n |-> k + i]

\* What putting an item behind a run of items and taking its first one do.
LEMMA ItemsLemma ==
  ASSUME NEW k \in Int, NEW n \in Nat
  PROVE  /\ Items(k, n) \in Seq(Int) /\ Len(Items(k, n)) = n
         /\ Append(Items(k, n), k + n + 1) = Items(k, n + 1)
         /\ n > 0 => /\ Head(Items(k, n)) = k + 1
                     /\ Tail(Items(k, n)) = Items(k + 1, n - 1)
<1>1. Items(k, n) \in Seq(Int) /\ Len(Items(k, n)) = n
  BY DEF Items
<1>2. Append(Items(k, n), k + n + 1) = Items(k, n + 1)
  BY DEF Items
<1>3. ASSUME n > 0
      PROVE  Head(Items(k, n)) = k + 1 /\ Tail(Items(k, n)) = Items(k + 1, n - 1)
  <2>1. Items(k, n) # <<>> /\ \A i \in 1 .. n : Items(k, n)[i] = k + i
    BY <1>1, <1>3 DEF Items
  <2>2. Head(Items(k, n)) = k + 1
    BY <1>1, <1>3, <2>1
  <2>3. /\ Tail(Items(k, n)) \in Seq(Int) /\ Len(Tail(Items(k, n))) = n - 1
        /\ \A i \in 1 .. n - 1 : Tail(Items(k, n))[i] = Items(k, n)[i + 1]
    BY <1>1, <2>1
  <2>4. \A i \in 1 .. n - 1 : Tail(Items(k, n))[i] = k + 1 + i
    BY <1>3, <2>1, <2>3
  <2>5. ASSUME NEW s \in Seq(Int), Len(s) = n - 1, \A i \in 1 .. n - 1 : s[i] = k + 1 + i
        PROVE  s = Items(k + 1, n - 1)
    BY <2>5 DEF Items
  <2> QED BY <2>2, <2>3, <2>4, <2>5
<1> QED BY <1>1, <1>2, <1>3

AbstractQ == IF owners = {} THEN <<>>
             ELSE [i \in 1 .. Dist(head, tail) |-> buffer[(head + i - 1) % (Mask + 1)]]
AbstractOut == IF cpc = "move" THEN Append(received, buffer[slot]) ELSE received

\* The i-th slot behind head.
LEMMA Behind ==
  ASSUME NEW h \in Slot, NEW i \in 1 .. Mask + 1
  PROVE  /\ (h + i - 1) % (Mask + 1) \in Slot
         /\ Dist(h, (h + i - 1) % (Mask + 1)) = i - 1
<1>1. CASE h + i - 1 <= Mask
  <2>1. (h + i - 1) % (Mask + 1) = h + i - 1
    BY <1>1, MaskAssumption DEF Slot
  <2> QED BY <1>1, <2>1, MaskAssumption DEF Slot, Dist
<1>2. CASE h + i - 1 > Mask
  <2>1. (h + i - 1) % (Mask + 1) = h + i - 1 - (Mask + 1)
    BY <1>2, MaskAssumption DEF Slot
  <2> QED BY <1>2, <2>1, MaskAssumption DEF Slot, Dist
<1> QED BY <1>1, <1>2, MaskAssumption DEF Slot

\* The ring holds the items after the popped ones, in order.
Matches ==
  /\ AbstractQ = Items(Popped, Dist(head, tail))
  /\ Popped \in Int /\ Dist(head, tail) \in Nat /\ Popped + Dist(head, tail) = pushed
  /\ Len(AbstractOut) = Popped

LEMMA AbstractNow == IInv /\ owners # {} => Matches
<1> SUFFICES ASSUME IInv, owners # {} PROVE Matches
  OBVIOUS
<1>1. /\ head \in Slot /\ tail \in Slot /\ Dist(head, tail) \in Nat /\ Dist(head, tail) <= Mask
      /\ Popped \in Int /\ pushed \in Nat /\ Popped + Dist(head, tail) = pushed
  BY IndexTypes DEF IInv, Popped
<1>2. ASSUME NEW i \in 1 .. Dist(head, tail)
      PROVE  buffer[(head + i - 1) % (Mask + 1)] = Popped + i
  <2>1. /\ (head + i - 1) % (Mask + 1) \in Slot
        /\ Dist(head, (head + i - 1) % (Mask + 1)) = i - 1
    BY <1>1, Behind, MaskAssumption
  <2> QED BY <1>1, <2>1 DEF IInv, Contents
<1>3. AbstractQ = Items(Popped, Dist(head, tail))
  BY <1>2 DEF AbstractQ, Items
<1>4. Len(AbstractOut) = Popped
  <2>1. CASE cpc = "move"
    <3>1. ~ (Dist(head, slot) < Dist(head, tail)) /\ slot \in Slot
      BY <1>1, <2>1, DistLemma, MaskAssumption DEF IInv, TypeOK, Order
    <3>2. buffer[slot] = Popped
      BY <2>1, <3>1 DEF IInv, Contents
    <3>3. Len(received) = Popped - 1 /\ received \in Seq(Item)
      BY <2>1 DEF IInv, TypeOK, Contents
    <3>4. Len(Append(received, buffer[slot])) = Len(received) + 1
      BY <3>3
    <3> QED BY <1>1, <2>1, <3>3, <3>4 DEF AbstractOut
  <2>2. CASE cpc # "move"
    BY <2>2 DEF AbstractOut, IInv, Contents
  <2> QED BY <2>1, <2>2
<1> QED BY <1>1, <1>3, <1>4 DEF Matches

LEMMA AbstractNext == (IInv /\ owners # {} => Matches)'
BY AbstractNow, PTL

\* A step that leaves the indices and the counts alone leaves the queue alone.
LEMMA SameQueue ==
  ASSUME IInv, IInv', owners # {}, owners' # {},
         UNCHANGED <<head, tail, pushed>>, AbstractOut' = AbstractOut
  PROVE  UNCHANGED Queue!vars
<1>1. AbstractQ' = AbstractQ
  BY AbstractNow, AbstractNext DEF Matches, Popped, Items, Dist
<1> QED BY <1>1 DEF Queue!vars, AbstractQ, AbstractOut

\* Every step of the queue is a step of the FIFO or leaves it unchanged.
LEMMA Simulation ==
  ASSUME IInv, IInv', Next
  PROVE  [Queue!Next]_(Queue!vars)
<1>0. owners # {}
  BY DEF IInv, Order, Next, Producer, Consumer, PushCheck, PushConstruct, PushPublish,
         PopCheck, PopPublish, PopMove, PopDestroy, DropTx, DropRx, DropHandle
<1>1. CASE PushCheck \/ PushConstruct \/ PopCheck
  <2>1. AbstractOut' = AbstractOut
    <3>1. PushConstruct /\ cpc = "move" => slot # tail
      <4>1. Dist(head, tail) <= Dist(headSeen, tail)
        BY HeadTail, IndexTypes DEF IInv
      <4> QED BY <4>1, DistLemma, MaskAssumption DEF IInv, TypeOK, Order, PushConstruct
    <3> QED BY <1>1, <3>1 DEF AbstractOut, IInv, TypeOK, PushCheck, PushConstruct, PopCheck
  <2> QED BY <1>0, <1>1, <2>1, SameQueue DEF PushCheck, PushConstruct, PopCheck
<1>2. CASE PopMove \/ PopDestroy
  <2>1. AbstractOut' = AbstractOut
    BY <1>2 DEF AbstractOut, PopMove, PopDestroy
  <2> QED BY <1>0, <1>2, <2>1, SameQueue DEF PopMove, PopDestroy
<1>3. CASE PushPublish
  <2>0. Matches /\ Matches'
    BY <1>0, <1>3, AbstractNow, AbstractNext DEF PushPublish
  <2>1. Dist(head, tail) < Mask /\ pushed < MaxPush
    <3>1. Dist(head, tail) <= Dist(headSeen, tail) /\ Dist(headSeen, tail) < Mask
      BY <1>3, HeadTail, IndexTypes DEF IInv, Order, PushPublish
    <3> QED BY <1>3, <3>1, IndexTypes, MaskAssumption DEF IInv, Contents, PushPublish
  <2>2. Dist(head, tail)' = Dist(head, tail) + 1
    BY <1>3, <2>1, IndexTypes, TurnGrows DEF IInv, PushPublish, Dist
  <2>3. Popped' = Popped
    BY <1>3, <2>0, <2>2 DEF Popped, Matches, PushPublish
  <2>4. AbstractQ' = Append(AbstractQ, Popped + Dist(head, tail) + 1)
    BY <2>0, <2>2, <2>3, ItemsLemma DEF Matches, Items
  <2>5. Len(AbstractQ) = Dist(head, tail) /\ Len(AbstractOut) = Popped
    BY <2>0, ItemsLemma DEF Matches
  <2>6. AbstractOut' = AbstractOut /\ owners' = owners
    BY <1>3 DEF AbstractOut, PushPublish
  <2>7. Len(AbstractOut) + Len(AbstractQ) < MaxPush
    BY <2>0, <2>1, <2>5 DEF Matches
  <2>8. Queue!Push
    BY <1>0, <2>1, <2>4, <2>5, <2>6, <2>7 DEF Queue!Push, AbstractQ, AbstractOut
  <2> QED BY <2>8 DEF Queue!Next
<1>4. CASE PopPublish
  <2>0. Matches /\ Matches'
    BY <1>0, <1>4, AbstractNow, AbstractNext DEF PopPublish
  <2>1. head # tail /\ Dist(head, tail) > 0
    <3>1. Dist(head, tailSeen) > 0 /\ Dist(head, tail) = Dist(head, tailSeen) + Dist(tailSeen, tail)
      BY <1>4, HeadTail, IndexTypes, DistLemma DEF IInv, Order, PopPublish
    <3>2. Dist(head, tail) > 0
      BY <3>1, IndexTypes DEF IInv
    <3> QED BY <3>2, IndexTypes, DistLemma DEF IInv
  <2>2. Dist(head, tail)' = Dist(head, tail) - 1
    BY <1>4, <2>1, IndexTypes, TurnShrinks DEF IInv, PopPublish, Dist
  <2>3. Popped' = Popped + 1
    BY <1>4, <2>0, <2>2 DEF Popped, Matches, PopPublish
  <2>4. AbstractQ' = Tail(AbstractQ) /\ Head(AbstractQ) = Popped + 1 /\ AbstractQ # <<>>
    <3>1. AbstractQ = Items(Popped, Dist(head, tail)) /\ Popped \in Int /\ Dist(head, tail) \in Nat
      BY <2>0 DEF Matches
    <3>2. AbstractQ' = Items(Popped + 1, Dist(head, tail) - 1)
      BY <2>0, <2>2, <2>3 DEF Matches, Items
    <3>3. Len(AbstractQ) = Dist(head, tail) /\ Head(AbstractQ) = Popped + 1 /\ AbstractQ' = Tail(AbstractQ)
      BY <2>1, <3>1, <3>2, ItemsLemma
    <3> QED BY <2>1, <3>1, <3>3
  <2>5. buffer[head] = Popped + 1
    <3>1. Dist(head, head) = 0 /\ head \in Slot /\ Popped \in Int
      BY <2>0, IndexTypes, DistLemma DEF IInv, Matches
    <3> QED BY <1>0, <2>1, <3>1 DEF IInv, Contents
  <2>6. AbstractOut' = Append(AbstractOut, Head(AbstractQ)) /\ owners' = owners
    BY <1>4, <2>4, <2>5 DEF AbstractOut, PopPublish
  <2>7. Queue!Pop
    BY <1>0, <2>4, <2>6 DEF Queue!Pop, AbstractQ, AbstractOut
  <2> QED BY <2>7 DEF Queue!Next
<1>5. CASE DropTx \/ DropRx
  <2>1. CASE owners' # {}
    <3>1. AbstractOut' = AbstractOut
      BY <1>5, <2>1 DEF AbstractOut, DropTx, DropRx, DropHandle
    <3> QED BY <1>0, <1>5, <2>1, <3>1, SameQueue DEF DropTx, DropRx, DropHandle
  <2>2. CASE owners' = {}
    <3>1. cpc = "idle" /\ cpc' = "idle" /\ received' = received
      BY <1>5, <2>2 DEF IInv, TypeOK, Order, DropTx, DropRx, DropHandle
    <3>2. Queue!Discard
      BY <1>0, <2>2, <3>1 DEF Queue!Discard
    <3> QED BY <3>2 DEF Queue!Next
  <2> QED BY <2>1, <2>2
<1> QED BY <1>1, <1>2, <1>3, <1>4, <1>5 DEF Next, Producer, Consumer

(***************************************************************************)
(* The lock-free ring, with its stale snapshots and its head published     *)
(* before the item is moved out, is a bounded first-in first-out queue of  *)
(* Mask items: what a caller of push and pop can observe is what the       *)
(* abstract queue allows, until the last handle is dropped.                *)
(***************************************************************************)
THEOREM FIFORefinement == Spec => ImplementsFIFO
<1>1. Init => Queue!Init
  BY MaskAssumption DEF Init, Queue!Init, Dist
<1>2. IInv /\ IInv' /\ [Next]_vars => [Queue!Next]_(Queue!vars)
  <2>1. UNCHANGED vars => UNCHANGED Queue!vars
    BY DEF vars, Queue!vars, Dist
  <2> QED BY <2>1, Simulation
<1> QED BY <1>1, <1>2, Invariance, PTL DEF Spec, ImplementsFIFO, Queue!Spec
=============================================================================
