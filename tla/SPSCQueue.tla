----------------------------- MODULE SPSCQueue -----------------------------
(***************************************************************************)
(* xsl::sync::spsc<T> (include/xsl/sync/spsc.h): a bounded lock-free queue *)
(* between one producer thread (push) and one consumer thread (pop), each  *)
(* with a private snapshot of the other side's index.                      *)
(*                                                                         *)
(* One action per atomic access.  pop publishes the new head BEFORE it     *)
(* moves the item out of the slot, so what keeps the producer out of that  *)
(* slot is only the slot the ring leaves unused.                           *)
(*                                                                         *)
(* Items are numbered in push order: the queue never inspects them.        *)
(***************************************************************************)
EXTENDS RingIndex, Sequences

CONSTANT MaxPush      \* bound: how many items the producer offers

ASSUME MaxPushAssumption == MaxPush \in Nat

Free == 0             \* a slot that holds no live object
Item == 1 .. MaxPush

VARIABLES
  head,       \* _head._ctl: index of the oldest item
  tail,       \* _tail._ctl: index of the next free slot
  tailSeen,   \* _head._local: the consumer's snapshot of tail
  headSeen,   \* _tail._local: the producer's snapshot of head
  buffer,     \* the object living in each slot, or Free
  ppc,        \* where the producer is in push
  cpc,        \* where the consumer is in pop
  slot,       \* pop's local `head': the slot it takes the item from
  pushed,     \* number of successful pushes
  received,   \* items handed to the consumer, oldest first
  owners      \* live shared_ptr<Storage> handles, subset of {"tx", "rx"}

vars == <<head, tail, tailSeen, headSeen, buffer, ppc, cpc, slot, pushed,
          received, owners>>

TypeOK ==
  /\ head \in Slot /\ tail \in Slot
  /\ tailSeen \in Slot /\ headSeen \in Slot
  /\ buffer \in [Slot -> Item \cup {Free}]
  /\ ppc \in {"idle", "construct", "publish"}
  /\ cpc \in {"idle", "publish", "move", "destroy"}
  /\ slot \in Slot
  /\ pushed \in 0 .. MaxPush
  /\ received \in Seq(Item)
  /\ owners \subseteq {"tx", "rx"}

Init ==
  /\ head = 0 /\ tail = 0 /\ tailSeen = 0 /\ headSeen = 0
  /\ buffer = [s \in Slot |-> Free]
  /\ ppc = "idle" /\ cpc = "idle"
  /\ slot = 0 /\ pushed = 0
  /\ received = <<>>
  /\ owners = {"tx", "rx"}

-----------------------------------------------------------------------------
(* Producer: TxTraits::push.                                               *)

(* Mutant: the refreshed snapshot is not compared again.                   *)
PushCheckNoRecheck ==
  /\ ppc = "idle" /\ "tx" \in owners /\ pushed < MaxPush
  /\ IF Succ(tail) # headSeen
       THEN headSeen' = headSeen
       ELSE headSeen' \in Visible(headSeen, head)
  /\ ppc' = "construct"
  /\ UNCHANGED <<head, tail, tailSeen, buffer, cpc, slot, pushed, received,
                 owners>>

(***************************************************************************)
(* The full test: the snapshot is consulted first and refreshed from       *)
(* head only when it says full; push returns false if it still does.       *)
(***************************************************************************)
PushCheck ==
  /\ ppc = "idle" /\ "tx" \in owners /\ pushed < MaxPush
  /\ IF Succ(tail) # headSeen
       THEN headSeen' = headSeen
       ELSE headSeen' \in Visible(headSeen, head)
  /\ ppc' = IF Succ(tail) # headSeen' THEN "construct" ELSE "idle"
  /\ UNCHANGED <<head, tail, tailSeen, buffer, cpc, slot, pushed, received,
                 owners>>

PushConstruct ==
  /\ ppc = "construct"
  /\ buffer' = [buffer EXCEPT ![tail] = pushed + 1]
  /\ ppc' = "publish"
  /\ UNCHANGED <<head, tail, tailSeen, headSeen, cpc, slot, pushed, received,
                 owners>>

PushPublish ==
  /\ ppc = "publish"
  /\ tail' = Succ(tail)
  /\ pushed' = pushed + 1
  /\ ppc' = "idle"
  /\ UNCHANGED <<head, tailSeen, headSeen, buffer, cpc, slot, received,
                 owners>>

-----------------------------------------------------------------------------
(* Consumer: RxTraits::pop.                                                *)

(* Mutant: the snapshot of tail is never refreshed.                        *)
PopCheckStale ==
  /\ cpc = "idle" /\ "rx" \in owners
  /\ cpc' = IF head # tailSeen THEN "publish" ELSE "idle"
  /\ UNCHANGED <<head, tail, tailSeen, headSeen, buffer, ppc, slot, pushed,
                 received, owners>>

PopCheck ==
  /\ cpc = "idle" /\ "rx" \in owners
  /\ IF head # tailSeen
       THEN tailSeen' = tailSeen
       ELSE tailSeen' \in Visible(tailSeen, tail)
  /\ cpc' = IF head # tailSeen' THEN "publish" ELSE "idle"
  /\ UNCHANGED <<head, tail, headSeen, buffer, ppc, slot, pushed, received,
                 owners>>

(* Mutant: pop forgets to advance head.                                    *)
PopPublishNoAdvance ==
  /\ cpc = "publish"
  /\ slot' = head
  /\ cpc' = "move"
  /\ UNCHANGED <<head, tail, tailSeen, headSeen, buffer, ppc, pushed, received,
                 owners>>

PopPublish ==
  /\ cpc = "publish"
  /\ slot' = head
  /\ head' = Succ(head)
  /\ cpc' = "move"
  /\ UNCHANGED <<tail, tailSeen, headSeen, buffer, ppc, pushed, received,
                 owners>>

PopMove ==
  /\ cpc = "move"
  /\ received' = Append(received, buffer[slot])
  /\ cpc' = "destroy"
  /\ UNCHANGED <<head, tail, tailSeen, headSeen, buffer, ppc, slot, pushed,
                 owners>>

PopDestroy ==
  /\ cpc = "destroy"
  /\ buffer' = [buffer EXCEPT ![slot] = Free]
  /\ cpc' = "idle"
  /\ UNCHANGED <<head, tail, tailSeen, headSeen, ppc, slot, pushed, received,
                 owners>>

-----------------------------------------------------------------------------
(* Lifetime: the storage dies with its last handle.                        *)

(* Mutant: the destructor loop starts one past head.                       *)
StorageDestroyedOffByOne ==
  [s \in Slot |-> IF s \in Span(Succ(head), tail) THEN Free ELSE buffer[s]]

(***************************************************************************)
(* ~Storage destroys the objects between head and tail; it runs inside the *)
(* drop of the last handle.                                                *)
(***************************************************************************)
StorageDestroyed == [s \in Slot |-> IF s \in Span(head, tail) THEN Free
                                                              ELSE buffer[s]]

DropHandle(side, pc) ==
  /\ side \in owners /\ pc = "idle"
  /\ owners' = owners \ {side}
  /\ buffer' = IF owners' = {} THEN StorageDestroyed ELSE buffer
  /\ UNCHANGED <<head, tail, tailSeen, headSeen, ppc, cpc, slot, pushed,
                 received>>

DropTx == DropHandle("tx", ppc)
DropRx == DropHandle("rx", cpc)

-----------------------------------------------------------------------------
Producer == PushCheck \/ PushConstruct \/ PushPublish
Consumer == PopCheck \/ PopPublish \/ PopMove \/ PopDestroy

Next == Producer \/ Consumer \/ DropTx \/ DropRx

Spec == Init /\ [][Next]_vars

(***************************************************************************)
(* A consumer that keeps polling, each store becoming visible to it within *)
(* finite time.  Nothing is assumed of the producer.                       *)
(***************************************************************************)
Fairness == WF_vars(Consumer)

FairSpec == Spec /\ Fairness

-----------------------------------------------------------------------------
(* Properties.                                                             *)

(***************************************************************************)
(* push never constructs into the slot pop is still moving from or         *)
(* destroying, although pop has already published that slot as free        *)
(* (spsc.h 126-130): the two threads never touch one slot at once.         *)
(***************************************************************************)
SlotExclusion ==
  ~ (ppc = "construct" /\ cpc \in {"move", "destroy"} /\ slot = tail)

(***************************************************************************)
(* The consumer receives the items in push order, none lost, none twice.   *)
(***************************************************************************)
Fifo == \A i \in 1 .. Len(received) : received[i] = i

(***************************************************************************)
(* Object lifetimes: the live objects are exactly those between head and   *)
(* tail, the one pop has taken and the one push has just constructed; so   *)
(* no object is constructed over a live one, none is destroyed twice, and  *)
(* when the storage is gone ~Storage has left none behind.                 *)
(***************************************************************************)
Lifetimes ==
  {s \in Slot : buffer[s] # Free} =
    IF owners = {} THEN {}
    ELSE Span(head, tail)
           \cup {s \in {slot} : cpc \in {"move", "destroy"}}
           \cup {s \in {tail} : ppc = "publish"}

(***************************************************************************)
(* Every pushed item is eventually received by a consumer that keeps       *)
(* polling and keeps its handle: a stale snapshot never hides it for good. *)
(***************************************************************************)
Delivered ==
  \A n \in Item : pushed >= n ~> (Len(received) >= n \/ "rx" \notin owners)

(***************************************************************************)
(* The queue implements a bounded FIFO of Mask items: an item enters when  *)
(* tail is published and leaves when head is.                              *)
(***************************************************************************)
Queue == INSTANCE BoundedFIFO WITH
           Capacity <- Mask,
           q <- IF owners = {} THEN <<>>
                ELSE [i \in 1 .. Dist(head, tail) |->
                        buffer[(head + i - 1) % (Mask + 1)]],
           out <- IF cpc = "move" THEN Append(received, buffer[slot])
                                  ELSE received,
           live <- owners # {}

ImplementsFIFO == Queue!Spec
=============================================================================
