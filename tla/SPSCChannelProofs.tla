------------------------- MODULE SPSCChannelProofs -------------------------
(***************************************************************************)
(* Safety of the channel for every ring size, any number of items, any     *)
(* workers and both executors.                                             *)
(*                                                                         *)
(* Two arguments meet in the invariant.  The right to run the consumer is  *)
(* a token: it is with the thread that runs the coroutine, in _callback,   *)
(* with the push or close that has exchanged it out, or in the pool's      *)
(* queue, in one of them at most (Token).  Whoever has it finds the ring   *)
(* as in SPSCQueue: head and tail lie on the turn the producer knows of    *)
(* (Order), with one item per slot between them (Contents).  Nothing is    *)
(* said of tailSeen: a retraction may set it back, and await_resume        *)
(* compares head with tail itself.                                         *)
(***************************************************************************)
EXTENDS SPSCChannel, TLAPS

-----------------------------------------------------------------------------
(* The index arithmetic of the ring, for every ring size. *)

\* Masking an incremented index wraps it around exactly at the last slot.
LEMMA SuccLemma ==
  ASSUME NEW i \in Slot
  PROVE  /\ Succ(i) \in Slot
         /\ Succ(i) = IF i = Mask THEN 0 ELSE i + 1
<1>1. CASE i = Mask
  BY <1>1, MaskAssumption DEF Slot, Succ
<1>2. CASE i # Mask
  <2>1. i + 1 \in 0 .. Mask
    BY <1>2, MaskAssumption DEF Slot
  <2>2. (i + 1) % (Mask + 1) = i + 1
    BY <2>1, MaskAssumption
  <2> QED BY <1>2, <2>1, <2>2 DEF Slot, Succ
<1> QED BY <1>1, <1>2

\* An index lies on the turn from a that ends at b.
LEMMA DistLemma ==
  ASSUME NEW a \in Slot, NEW b \in Slot
  PROVE  /\ Dist(a, b) \in Nat
         /\ Dist(a, b) <= Mask
         /\ Dist(a, b) = 0 <=> a = b
         /\ Dist(a, b) = Mask <=> Succ(b) = a
BY SuccLemma, MaskAssumption DEF Slot, Dist

\* A turn splits at any index it passes.
LEMMA TurnSplit ==
  ASSUME NEW a \in Slot, NEW b \in Slot, NEW c \in Slot,
         Dist(a, b) <= Dist(a, c)
  PROVE  Dist(b, c) = Dist(a, c) - Dist(a, b)
BY MaskAssumption DEF Slot, Dist

\* Different indices are at different distances from a.
LEMMA DistInjective ==
  ASSUME NEW a \in Slot, NEW b \in Slot, NEW c \in Slot
  PROVE  Dist(a, b) = Dist(a, c) <=> b = c
BY MaskAssumption DEF Slot, Dist

\* Publishing at the end of a turn that is not full lengthens it by one.
LEMMA TurnGrows ==
  ASSUME NEW a \in Slot, NEW b \in Slot, Dist(a, b) < Mask
  PROVE  Dist(a, Succ(b)) = Dist(a, b) + 1
BY SuccLemma, MaskAssumption DEF Slot, Dist

\* Leaving its first slot shortens a turn by one; that slot is now the last.
LEMMA TurnShrinks ==
  ASSUME NEW a \in Slot, NEW b \in Slot
  PROVE  Dist(Succ(a), b) = IF a = b THEN Mask ELSE Dist(a, b) - 1
BY SuccLemma, MaskAssumption DEF Slot, Dist

-----------------------------------------------------------------------------
Pushing == ppc \in {"check", "construct", "publish"}

\* push or close has taken the callback and not yet resumed the coroutine.
Owns == ppc \in {"local", "dispatch"}

Parked == \A t \in Thread : ~ Running(t)

Token ==
  /\ SingleRunner
  /\ callback => Parked /\ ~ Owns /\ executor.queue = <<>>
  /\ Owns => Parked /\ executor.queue = <<>>
  /\ executor.queue # <<>> => Parked
  /\ Len(executor.queue) <= 1
  /\ ended # "no" => Parked /\ ~ callback /\ ~ Owns /\ executor.queue = <<>>

Advancing == \E t \in Thread : run[t] = "advance"
Taking == \E t \in Thread : run[t] \in {"move", "advance"}

Order ==
  /\ Dist(headSeen, head) + Dist(head, tail) = Dist(headSeen, tail)
  /\ ppc \in {"construct", "publish"} => Dist(headSeen, tail) < Mask
  /\ Taking => head # tail

\* The number of items that have left the ring.
Taken == pushed - Dist(head, tail)

Contents ==
  /\ Pushing => pushed < MaxPush /\ ~ closed
  /\ Len(received) = IF Advancing THEN Taken + 1 ELSE Taken
  /\ \A s \in Slot : buffer[s] =
       IF s = head /\ Advancing THEN Free
       ELSE IF Dist(head, s) < Dist(head, tail) THEN Taken + Dist(head, s) + 1
       ELSE IF s = tail /\ ppc = "publish" THEN pushed + 1
       ELSE Free
  /\ ended = "closed" => closed /\ head = tail

RInv == Order /\ Contents /\ Fifo

IInv == TypeOK /\ Token /\ RInv

-----------------------------------------------------------------------------
(* What the steps have in common.                                          *)

\* The numbers of the ring.
LEMMA RingTypes ==
  ASSUME TypeOK
  PROVE  /\ head \in Slot /\ tail \in Slot /\ headSeen \in Slot
         /\ Dist(head, tail) \in Nat /\ Dist(head, tail) <= Mask
         /\ Dist(headSeen, head) \in Nat /\ Dist(headSeen, tail) \in Nat
         /\ Dist(headSeen, tail) <= Mask
         /\ pushed \in Nat /\ pushed <= MaxPush /\ Len(received) \in Nat
         /\ Taken \in Int
         /\ MaxPush \in Nat
<1>1. pushed \in Nat /\ Len(received) \in Nat /\ pushed <= MaxPush
  BY ChannelAssumption DEF TypeOK
<1>2. Dist(head, tail) \in Nat
  BY DistLemma DEF TypeOK
<1> QED BY <1>1, <1>2, DistLemma, ChannelAssumption DEF TypeOK, Taken

\* A step that leaves ring and history alone and neither begins nor ends the
\* taking of an item keeps what is known of the ring.
LEMMA RingStays ==
  ASSUME RInv,
         UNCHANGED <<head, tail, headSeen, buffer, pushed, received>>,
         Taking' => Taking, Advancing' <=> Advancing,
         Pushing' => Pushing, ppc' = "publish" <=> ppc = "publish",
         ppc' = "construct" => ppc = "construct",
         closed' => closed \/ ~ Pushing', closed => closed',
         ended' = ended \/ ended' # "closed"
  PROVE  RInv'
<1>1. Order'
  BY DEF RInv, Order, Dist, Pushing
<1>2. Contents'
  BY DEF RInv, Contents, Taken, Dist
<1>3. Fifo'
  BY DEF RInv, Fifo
<1> QED BY <1>1, <1>2, <1>3 DEF RInv

\* Where the threads are after a step of the coroutine on t.
LEMMA Moved ==
  ASSUME TypeOK, NEW t \in Thread, NEW where, Go(t, where)
  PROVE  /\ \A u \in Thread : run'[u] = IF u = t THEN where ELSE run[u]
         /\ \A u \in Thread : u # t => (Running(u)' <=> Running(u))
         /\ Running(t)' <=> where \in Body
BY DEF TypeOK, Go, Running

\* A step of the runner that keeps the token.
LEMMA TokenKept ==
  ASSUME TypeOK, Token, NEW t \in Thread, NEW where \in Body,
         Running(t), Go(t, where),
         UNCHANGED <<callback, ppc, executor, ended>>
  PROVE  Token'
<1>1. \A u \in Thread : Running(u)' <=> Running(u)
  BY Moved
<1> QED BY <1>1 DEF Token, SingleRunner, Parked, Owns

\* A step on t outside the coroutine proper.
LEMMA TokenElsewhere ==
  ASSUME TypeOK, Token, NEW t \in Thread, NEW where,
         where \notin Body, Go(t, where),
         callback' => callback,
         UNCHANGED <<ppc, executor, ended>>
  PROVE  Token'
<1>1. \A u \in Thread : Running(u)' => Running(u)
  BY Moved
<1> QED BY <1>1 DEF Token, SingleRunner, Parked, Owns

-----------------------------------------------------------------------------
LEMMA InitIInv == Init => IInv
<1> SUFFICES ASSUME Init PROVE IInv
  OBVIOUS
<1> USE ChannelAssumption, MaskAssumption
<1>1. PICK k \in Executors :
       /\ executor = [kind |-> k, queue |-> IF k = "pool" THEN <<"ready">>
                                                        ELSE <<>>]
       /\ run = [t \in Thread |-> IF t = Starter /\ k = "noop" THEN "ready"
                                                              ELSE "off"]
  BY DEF Init
<1>2. <<>> \in Seq({"ready", "resume"}) /\ <<"ready">> \in Seq({"ready", "resume"})
  OBVIOUS
<1>3. executor.queue \in Seq({"ready", "resume"}) /\ Len(executor.queue) <= 1
      /\ executor.queue \in {<<>>, <<"ready">>}
      /\ (executor.queue # <<>> => k = "pool")
  <2>1. CASE k = "pool"
    BY <1>1, <1>2, <2>1
  <2>2. CASE k # "pool"
    BY <1>1, <1>2, <2>2
  <2> QED BY <2>1, <2>2
<1>4. TypeOK
  <2>1. executor \in [kind : Executors, queue : Seq({"ready", "resume"})]
    BY <1>1, <1>2
  <2>2. run \in [Thread -> Body \cup Tail2 \cup {"off"}]
    BY <1>1 DEF Body
  <2>3. received \in Seq(Item \cup {Free})
    BY DEF Init
  <2> QED BY <2>1, <2>2, <2>3 DEF Init, TypeOK, Slot, NoLocals
<1>5. \A t \in Thread : Running(t) => t = Starter /\ k = "noop"
  BY <1>1 DEF Running, Body
<1>6. Token
  BY <1>3, <1>5 DEF Init, Token, SingleRunner, Parked, Owns
<1>7. RInv
  <2>1. \A t \in Thread : run[t] \notin {"move", "advance"}
    BY <1>1
  <2>2. Dist(0, 0) = 0 /\ \A s \in Slot : Dist(0, s) = s
    BY DEF Dist, Slot
  <2> QED BY <2>1, <2>2 DEF Init, RInv, Order, Contents, Fifo, Taken, Taking, Advancing,
                            Pushing, Slot
<1> QED BY <1>4, <1>6, <1>7 DEF IInv

-----------------------------------------------------------------------------
(* The coroutine.                                                          *)

\* Steps that only decide where the coroutine goes on.
LEMMA DecideIInv ==
  ASSUME IInv, NEW t \in Thread,
         Ready(t) \/ IsClosed(t) \/ ResumeItem(t)
  PROVE  IInv'
<1>1. PICK where \in Body \ {"advance"} : Go(t, where)
  BY DEF Ready, IsClosed, ResumeItem, Body
<1>2. Running(t) /\ run[t] \notin {"move", "advance"}
  BY DEF Ready, IsClosed, ResumeItem, Running, Body
<1>3. /\ UNCHANGED <<head, tail, headSeen, buffer, callback, closed, ppc,
                     pushed, reg, received, ended, executor>>
      /\ tailSeen' \in Slot
  BY DEF Ready, IsClosed, ResumeItem, ring, Visible, IInv, TypeOK
<1>4. TypeOK'
  BY <1>1, <1>3 DEF Go, IInv, TypeOK
<1>5. Token'
  BY <1>1, <1>2, <1>3, TokenKept DEF IInv
<1>6. \A u \in Thread : u # t => ~ Running(u)
  BY <1>2 DEF IInv, Token, SingleRunner
<1>7. ~ Advancing /\ ~ Taking
  BY <1>2, <1>6 DEF Advancing, Taking, Running, Body
<1>8. /\ \A u \in Thread : run'[u] # "advance"
      /\ \A u \in Thread : run'[u] = "move" => u = t /\ where = "move"
  BY <1>1, <1>6, Moved DEF IInv, Running, Body
<1>9. where = "move" => head # tail
  BY <1>1, <1>2, Moved DEF IInv, TypeOK, Ready, IsClosed, ResumeItem, Go
<1>10. RInv'
  <2>1. Order'
    BY <1>3, <1>8, <1>9 DEF IInv, RInv, Order, Taking, Dist
  <2>2. Advancing' <=> Advancing
    BY <1>7, <1>8 DEF Advancing
  <2>3. Contents'
    BY <1>3, <2>2 DEF IInv, RInv, Contents, Taken, Dist, Pushing
  <2>4. Fifo'
    BY <1>3 DEF IInv, RInv, Fifo
  <2> QED BY <2>1, <2>3, <2>4 DEF RInv
<1> QED BY <1>4, <1>5, <1>10 DEF IInv

\* Register hands the token to _callback.
LEMMA RegisterIInv ==
  ASSUME IInv, NEW t \in Thread, Register(t)
  PROVE  IInv'
<1>1. Running(t) /\ Go(t, "loadHead") /\ "loadHead" \notin Body
  BY DEF Register, Running, Body
<1>2. TypeOK'
  BY DEF Register, Go, IInv, TypeOK, Tail2, ring
<1>3. Parked'
  BY <1>1, Moved DEF IInv, Token, SingleRunner, Parked
<1>4. Token'
  BY <1>1, <1>3 DEF Register, IInv, Token, SingleRunner, Parked, Owns
<1>5. RInv'
  <2>1. \A u \in Thread : run'[u] \in {"move", "advance"} => run'[u] = run[u]
    BY <1>1, Moved DEF IInv
  <2>2. \A u \in Thread : run[u] = "advance" => u # t
    BY DEF Register
  <2>3. (Taking' => Taking) /\ (Advancing' <=> Advancing)
    BY <1>1, <2>1, <2>2, Moved DEF IInv, Taking, Advancing
  <2> QED BY <2>3, RingStays DEF IInv, Register, ring, Pushing
<1> QED BY <1>2, <1>4, <1>5 DEF IInv

\* await_suspend after the registration: it touches neither ring nor frame.
LEMMA LoadIInv ==
  ASSUME IInv, NEW t \in Thread,
         LoadHead(t) \/ LoadTail(t) \/ LoadClosed(t)
  PROVE  IInv'
<1>1. PICK where \in Tail2 \cup {"off"} : Go(t, where)
  BY DEF LoadHead, LoadTail, LoadClosed, Tail2
<1>2. UNCHANGED <<ring, callback, closed, ppc, pushed, received, ended, executor>>
  BY DEF LoadHead, LoadTail, LoadClosed
<1>3. reg' \in [Thread -> [head : Slot, tail : Slot]]
  <2>1. NoLocals \in [head : Slot, tail : Slot]
    BY MaskAssumption DEF NoLocals, Slot
  <2> QED BY <2>1 DEF LoadHead, LoadTail, LoadClosed, IInv, TypeOK
<1>4. TypeOK'
  BY <1>1, <1>2, <1>3 DEF Go, IInv, TypeOK, ring
<1>5. where \notin Body
  BY DEF Body, Tail2
<1>6. Token'
  BY <1>1, <1>2, <1>5, TokenElsewhere DEF IInv
<1>7. run[t] \notin Body
  BY DEF LoadHead, LoadTail, LoadClosed, Body
<1>8. (Taking' => Taking) /\ (Advancing' <=> Advancing)
  BY <1>1, <1>5, <1>7, Moved DEF IInv, Taking, Advancing, Body
<1>9. RInv'
  BY <1>2, <1>8, RingStays DEF IInv, ring, Pushing
<1> QED BY <1>4, <1>6, <1>9 DEF IInv

\* The retraction takes the token out of _callback, if it is there.
LEMMA ReclaimIInv ==
  ASSUME IInv, NEW t \in Thread, Reclaim(t)
  PROVE  IInv'
<1>1. Go(t, IF callback THEN "resume" ELSE "off")
  BY DEF Reclaim
<1>2. TypeOK'
  <2>1. NoLocals \in [head : Slot, tail : Slot]
    BY MaskAssumption DEF NoLocals, Slot
  <2>2. reg'\in [Thread -> [head : Slot, tail : Slot]] /\ tailSeen' \in Slot
    BY <2>1 DEF Reclaim, IInv, TypeOK
  <2> QED BY <2>2 DEF Reclaim, Go, IInv, TypeOK, Body
<1>3. Token'
  <2>1. CASE callback
    <3>1. Parked /\ ~ Owns /\ executor.queue = <<>> /\ ended = "no"
      BY <2>1 DEF IInv, Token
    <3>2. \A u \in Thread : Running(u)' => u = t
      BY <2>1, <1>1, <3>1, Moved DEF IInv, Parked
    <3> QED BY <3>1, <3>2 DEF Reclaim, Token, SingleRunner, Parked, Owns
  <2>2. CASE ~ callback
    BY <1>1, <2>2, TokenElsewhere DEF Reclaim, IInv, Body
  <2> QED BY <2>1, <2>2
<1>4. (Taking' => Taking) /\ (Advancing' <=> Advancing)
  <2>1. run[t] = "reclaim"
    BY DEF Reclaim
  <2> QED BY <1>1, <2>1, Moved DEF IInv, Taking, Advancing
<1>5. RInv'
  BY <1>4, RingStays DEF IInv, Reclaim, Pushing
<1> QED BY <1>2, <1>3, <1>5 DEF IInv

\* The loop ends: the token is given up for good.
LEMMA ResumeEmptyIInv ==
  ASSUME IInv, NEW t \in Thread, ResumeEmpty(t)
  PROVE  IInv'
<1>1. Running(t) /\ Go(t, "off") /\ "off" \notin Body
  BY DEF ResumeEmpty, Running, Body
<1>2. TypeOK'
  BY DEF ResumeEmpty, Go, IInv, TypeOK, ring
<1>3. Parked' /\ ~ callback /\ ~ Owns /\ executor.queue = <<>>
  BY <1>1, Moved DEF IInv, Token, SingleRunner, Parked
<1>4. Token'
  BY <1>3 DEF ResumeEmpty, IInv, Token, SingleRunner, Parked, Owns
<1>5. ~ Taking /\ ~ Advancing
  BY <1>1 DEF IInv, Token, SingleRunner, Running, Body, Taking, Advancing,
              ResumeEmpty
<1>6. ~ Taking' /\ ~ Advancing'
  BY <1>3 DEF Parked, Running, Body, Taking, Advancing
<1>7. Order' /\ Fifo'
  BY <1>6 DEF ResumeEmpty, ring, IInv, RInv, Order, Fifo, Dist
<1>8. Contents'
  BY <1>5, <1>6 DEF ResumeEmpty, ring, IInv, RInv, Contents, Taken, Dist, Pushing
<1> QED BY <1>2, <1>4, <1>7, <1>8 DEF IInv, RInv

\* The runner takes the oldest item.
LEMMA MoveIInv ==
  ASSUME IInv, NEW t \in Thread, Move(t)
  PROVE  IInv'
<1>1. Running(t) /\ Go(t, "advance") /\ "advance" \in Body
  BY DEF Move, Running, Body
<1>2. ~ Advancing /\ Taking
  <2>1. \A u \in Thread : run[u] = "advance" => u = t
    BY <1>1 DEF IInv, Token, SingleRunner, Running, Body
  <2> QED BY <2>1 DEF Move, Advancing, Taking
<1>3. Advancing' /\ Taking'
  BY <1>1, Moved DEF IInv, Advancing, Taking
<1>4. head # tail /\ Dist(head, head) = 0 /\ Dist(head, tail) > 0
  BY <1>2, DistLemma, RingTypes DEF IInv, RInv, Order
<1>5. buffer[head] = Taken + 1 /\ Len(received) = Taken
  <2>1. head \in Slot /\ Taken \in Int
    BY RingTypes DEF IInv
  <2> QED BY <1>2, <1>4, <2>1 DEF IInv, RInv, Contents
<1>6. Taken + 1 \in Item
  BY <1>4, <1>5, RingTypes DEF IInv, Item, Taken
<1>7. TypeOK'
  BY <1>5, <1>6 DEF Move, Go, IInv, TypeOK, Body
<1>8. Token'
  BY <1>1, TokenKept DEF Move, IInv
<1>9. Order'
  BY <1>4 DEF Move, IInv, RInv, Order, Dist
<1>10. Contents'
  <2>1. Len(received') = Len(received) + 1 /\ Taken' = Taken
    BY DEF Move, IInv, TypeOK, Taken, Dist
  <2>2. ASSUME NEW s \in Slot
        PROVE  buffer'[s] = IF s = head THEN Free ELSE buffer[s]
    BY DEF Move, IInv, TypeOK
  <2>3. \A s \in Slot : Dist(head, s)' = Dist(head, s)
    BY DEF Move, Dist
  <2>4. Dist(head, tail)' = Dist(head, tail)
    BY DEF Move, Dist
  <2>5. \A s \in Slot : buffer'[s] =
          IF s = head' /\ Advancing' THEN Free
          ELSE IF Dist(head, s)' < Dist(head, tail)' THEN Taken' + Dist(head, s)' + 1
          ELSE IF s = tail' /\ ppc' = "publish" THEN pushed' + 1
          ELSE Free
    BY <1>2, <1>3, <2>1, <2>2, <2>3, <2>4 DEF Move, IInv, RInv, Contents
  <2>6. (Pushing' => pushed' < MaxPush /\ ~ closed')
        /\ (ended' = "closed" => closed' /\ head' = tail')
    BY DEF Move, IInv, RInv, Contents, Pushing
  <2>7. Len(received') = Taken' + 1
    BY <1>5, <2>1
  <2> QED BY <1>3, <2>5, <2>6, <2>7 DEF Contents
<1>11. Fifo'
  BY <1>5 DEF Move, IInv, RInv, TypeOK, Fifo
<1> QED BY <1>7, <1>8, <1>9, <1>10, <1>11 DEF IInv, RInv

\* Publishing the free slot shortens the turn from head to tail.
LEMMA AdvanceIInv ==
  ASSUME IInv, NEW t \in Thread, Advance(t)
  PROVE  IInv'
<1>1. Running(t) /\ Go(t, "ready") /\ "ready" \in Body
  BY DEF Advance, Running, Body
<1>2. Advancing /\ Taking
  BY DEF Advance, Advancing, Taking
<1>3. ~ Advancing' /\ ~ Taking'
  <2>1. \A u \in Thread : u # t => ~ Running(u)
    BY <1>1 DEF IInv, Token, SingleRunner
  <2>2. \A u \in Thread : run'[u] \notin {"move", "advance"}
    BY <1>1, <2>1, Moved DEF IInv, Running, Body
  <2> QED BY <2>2 DEF Advancing, Taking
<1>4. head # tail /\ Dist(head, tail) > 0
  BY <1>2, DistLemma, RingTypes DEF IInv, RInv, Order
<1>5. head' = Succ(head) /\ head' \in Slot /\ tail' = tail /\ headSeen' = headSeen
  BY SuccLemma DEF Advance, IInv, TypeOK
<1>6. TypeOK'
  BY <1>5 DEF Advance, Go, IInv, TypeOK, Body
<1>7. Token'
  BY <1>1, TokenKept DEF Advance, IInv
<1>8. Dist(Succ(head), tail) = Dist(head, tail) - 1
  BY <1>4, TurnShrinks, RingTypes DEF IInv
<1>9. Order'
  <2>1. Dist(headSeen, head) < Mask
    BY <1>4, RingTypes, MaskAssumption DEF IInv, RInv, Order
  <2>2. Dist(headSeen, Succ(head)) = Dist(headSeen, head) + 1
    BY <2>1, TurnGrows, RingTypes DEF IInv
  <2>3. Dist(headSeen, Succ(head)) + Dist(Succ(head), tail) = Dist(headSeen, tail)
    BY <1>8, <2>2, RingTypes DEF IInv, RInv, Order
  <2>4. Dist(headSeen', head') + Dist(head', tail') = Dist(headSeen', tail')
    BY <1>5, <2>3
  <2>5. ppc' \in {"construct", "publish"} => Dist(headSeen', tail') < Mask
    BY <1>5 DEF Advance, IInv, RInv, Order
  <2> QED BY <1>3, <2>4, <2>5 DEF Order, Dist
<1>10. Contents'
  <2>1. Taken' = Taken + 1
    BY <1>5, <1>8, RingTypes DEF Advance, IInv, Taken, Dist
  <2>2. Len(received') = Taken'
    BY <1>2, <2>1, RingTypes DEF Advance, IInv, RInv, Contents
  <2>3. ASSUME NEW s \in Slot
        PROVE  buffer[s] =
                 IF Dist(Succ(head), s) < Dist(Succ(head), tail)
                   THEN Taken + 1 + Dist(Succ(head), s) + 1
                 ELSE IF s = tail /\ ppc = "publish" THEN pushed + 1
                 ELSE Free
    <3>1. Dist(head, s) \in Nat /\ Dist(head, s) <= Mask /\ head \in Slot
      BY DistLemma, RingTypes DEF IInv
    <3>2. Dist(Succ(head), s) = IF head = s THEN Mask ELSE Dist(head, s) - 1
      BY <3>1, TurnShrinks
    <3>3. CASE s = head
      <4>1. buffer[s] = Free
        BY <1>2, <3>3 DEF IInv, RInv, Contents
      <4> QED BY <1>4, <1>8, <3>2, <3>3, <4>1, RingTypes, MaskAssumption
             DEF IInv
    <3>4. CASE s # head
      <4>1. Taken \in Int /\ Dist(head, tail) \in Nat
        BY RingTypes DEF IInv
      <4> QED BY <1>8, <3>1, <3>2, <3>4, <4>1 DEF IInv, RInv, Contents
    <3> QED BY <3>3, <3>4
  <2>4. \A s \in Slot : buffer'[s] =
          IF s = head' /\ Advancing' THEN Free
          ELSE IF Dist(head', s) < Dist(head', tail') THEN Taken' + Dist(head', s) + 1
          ELSE IF s = tail' /\ ppc' = "publish" THEN pushed' + 1
          ELSE Free
    BY <1>3, <1>5, <2>1, <2>3 DEF Advance
  <2>5. (Pushing' => pushed' < MaxPush /\ ~ closed') /\ ended' # "closed"
    BY <1>1, <1>4 DEF Advance, IInv, RInv, Contents, Pushing
  <2> QED BY <1>3, <2>2, <2>4, <2>5 DEF Contents, Dist
<1>11. Fifo'
  BY DEF Advance, IInv, RInv, Fifo
<1> QED BY <1>6, <1>7, <1>9, <1>10, <1>11 DEF IInv, RInv

LEMMA CoroutineIInv ==
  ASSUME IInv, NEW t \in Thread, Coroutine(t)
  PROVE  IInv'
BY DecideIInv, RegisterIInv, LoadIInv, ReclaimIInv, ResumeEmptyIInv, MoveIInv,
   AdvanceIInv DEF Coroutine

-----------------------------------------------------------------------------
(* push and close.                                                         *)

\* A step of the producer that takes no callback.
LEMMA TokenAside ==
  ASSUME Token, ~ Owns, ~ Owns', UNCHANGED <<callback, run, executor, ended>>
  PROVE  Token'
<1>1. \A u \in Thread : Running(u)' <=> Running(u)
  BY DEF Running
<1> QED BY <1>1 DEF Token, SingleRunner, Parked

LEMMA ThreadsStay ==
  ASSUME run' = run
  PROVE  (Taking' <=> Taking) /\ (Advancing' <=> Advancing)
BY DEF Taking, Advancing

LEMMA BeginPushIInv == IInv /\ BeginPush => IInv'
<1> SUFFICES ASSUME IInv, BeginPush PROVE IInv'
  OBVIOUS
<1>1. TypeOK'
  BY DEF BeginPush, IInv, TypeOK, ring
<1>2. Token'
  BY TokenAside DEF BeginPush, IInv, Owns
<1>3. Order' /\ Fifo'
  BY ThreadsStay DEF BeginPush, ring, IInv, RInv, Order, Fifo, Dist
<1>4. Contents'
  BY ThreadsStay DEF BeginPush, ring, IInv, RInv, Contents, Taken, Dist, Pushing
<1> QED BY <1>1, <1>2, <1>3, <1>4 DEF IInv, RInv

\* The full test: a refreshed snapshot is still on the producer's turn.
LEMMA PushCheckIInv == IInv /\ PushCheck => IInv'
<1> SUFFICES ASSUME IInv, PushCheck PROVE IInv'
  OBVIOUS
<1>1. headSeen' \in Slot /\ Dist(headSeen, headSeen') <= Dist(headSeen, head)
  <2>1. Dist(headSeen, headSeen) = 0 /\ headSeen \in Slot
    BY DistLemma, RingTypes DEF IInv
  <2> QED BY <2>1, RingTypes DEF PushCheck, Visible, IInv
<1>2. TypeOK'
  BY <1>1 DEF PushCheck, IInv, TypeOK
<1>3. Token'
  BY TokenAside DEF PushCheck, IInv, Owns
<1>4. Order'
  <2>1. Dist(headSeen, headSeen') \in Nat
    BY <1>1, DistLemma, RingTypes DEF IInv
  <2>2. Dist(headSeen', head) = Dist(headSeen, head) - Dist(headSeen, headSeen')
    BY <1>1, TurnSplit, RingTypes DEF IInv
  <2>3. Dist(headSeen', tail) = Dist(headSeen, tail) - Dist(headSeen, headSeen')
    <3>1. Dist(headSeen, headSeen') <= Dist(headSeen, tail)
      BY <1>1, <2>1, RingTypes DEF IInv, RInv, Order
    <3> QED BY <1>1, <3>1, TurnSplit, RingTypes DEF IInv
  <2>4. Dist(headSeen', head) + Dist(head, tail) = Dist(headSeen', tail)
    BY <2>1, <2>2, <2>3, RingTypes DEF IInv, RInv, Order
  <2>5. ppc' = "construct" => Dist(headSeen', tail) < Mask
    <3>1. Dist(headSeen', tail) \in Nat /\ Dist(headSeen', tail) <= Mask
          /\ (Dist(headSeen', tail) = Mask <=> Succ(tail) = headSeen')
      BY <1>1, DistLemma, RingTypes DEF IInv
    <3> QED BY <3>1, MaskAssumption DEF PushCheck
  <2> QED BY <2>4, <2>5, ThreadsStay DEF PushCheck, IInv, RInv, Order, Dist
<1>5. Contents'
  BY ThreadsStay DEF PushCheck, IInv, RInv, Contents, Taken, Dist, Pushing
<1>6. Fifo'
  BY DEF PushCheck, IInv, RInv, Fifo
<1> QED BY <1>2, <1>3, <1>4, <1>5, <1>6 DEF IInv, RInv

\* The object is constructed in a slot outside the turn from head to tail.
LEMMA PushConstructIInv == IInv /\ PushConstruct => IInv'
<1> SUFFICES ASSUME IInv, PushConstruct PROVE IInv'
  OBVIOUS
<1>1. pushed + 1 \in Item
  BY RingTypes DEF PushConstruct, IInv, RInv, Contents, Pushing, Item
<1>2. TypeOK'
  BY <1>1 DEF PushConstruct, IInv, TypeOK
<1>3. Token'
  BY TokenAside DEF PushConstruct, IInv, Owns
<1>4. Order' /\ Fifo'
  BY ThreadsStay DEF PushConstruct, IInv, RInv, Order, Fifo, Dist
<1>5. Contents'
  <2>1. ASSUME NEW s \in Slot
        PROVE  buffer'[s] = IF s = tail THEN pushed + 1 ELSE buffer[s]
    BY DEF PushConstruct, IInv, TypeOK
  <2>2. ~ (Dist(head, tail) < Dist(head, tail))
    BY RingTypes DEF IInv
  <2>3. Advancing => head # tail
    BY DEF IInv, RInv, Order, Taking, Advancing
  <2> QED BY <2>1, <2>2, <2>3, ThreadsStay
          DEF PushConstruct, IInv, RInv, Contents, Taken, Dist, Pushing
<1> QED BY <1>2, <1>3, <1>4, <1>5 DEF IInv, RInv

\* Publishing it lengthens the turn from head to tail.
LEMMA PushPublishIInv == IInv /\ PushPublish => IInv'
<1> SUFFICES ASSUME IInv, PushPublish PROVE IInv'
  OBVIOUS
<1> USE MaskAssumption
<1>1. tail' = Succ(tail) /\ tail' \in Slot /\ head' = head /\ headSeen' = headSeen
  BY SuccLemma DEF PushPublish, IInv, TypeOK
<1>2. pushed < MaxPush /\ ~ closed
  BY DEF PushPublish, IInv, RInv, Contents, Pushing
<1>3. TypeOK'
  <2>1. pushed' \in 0 .. MaxPush
    BY <1>2, RingTypes DEF PushPublish, IInv
  <2> QED BY <1>1, <2>1 DEF PushPublish, IInv, TypeOK
<1>4. Token'
  BY TokenAside DEF PushPublish, IInv, Owns
<1>5. Dist(headSeen, tail) < Mask /\ Dist(head, tail) < Mask
  BY RingTypes DEF PushPublish, IInv, RInv, Order
<1>6. /\ Dist(head, Succ(tail)) = Dist(head, tail) + 1
      /\ Dist(headSeen, Succ(tail)) = Dist(headSeen, tail) + 1
  BY <1>5, TurnGrows, RingTypes DEF IInv
<1>7. Order'
  <2>1. Dist(headSeen, head) + Dist(head, Succ(tail)) = Dist(headSeen, Succ(tail))
    BY <1>6, RingTypes DEF IInv, RInv, Order
  <2>2. head # Succ(tail)
    BY <1>5, DistLemma, RingTypes DEF IInv
  <2>3. Dist(headSeen', head') + Dist(head', tail') = Dist(headSeen', tail')
    BY <1>1, <2>1
  <2>4. ppc' \notin {"construct", "publish"} /\ head' # tail'
    BY <1>1, <2>2 DEF PushPublish
  <2> QED BY <2>3, <2>4 DEF Order, Dist
<1>8. Contents'
  <2>1. Taken' = Taken
    BY <1>1, <1>6, RingTypes DEF PushPublish, IInv, Taken, Dist
  <2>2. ASSUME NEW s \in Slot
        PROVE  buffer[s] =
                 IF s = head /\ Advancing THEN Free
                 ELSE IF Dist(head, s) < Dist(head, tail) + 1
                   THEN Taken + Dist(head, s) + 1
                 ELSE Free
    <3>1. Dist(head, s) \in Nat /\ Dist(head, tail) \in Nat /\ pushed \in Nat
      BY DistLemma, RingTypes DEF IInv
    <3>2. Dist(head, s) = Dist(head, tail) <=> s = tail
      BY DistInjective, RingTypes DEF IInv
    <3>3. CASE s = tail
      <4>1. Advancing => head # tail
        BY DEF IInv, RInv, Order, Taking, Advancing
      <4>2. buffer[s] = pushed + 1
        BY <3>1, <3>2, <3>3, <4>1 DEF PushPublish, IInv, RInv, Contents
      <4> QED BY <3>1, <3>2, <3>3, <4>1, <4>2 DEF Taken
    <3>4. CASE s # tail
      <4>1. Dist(head, s) < Dist(head, tail) + 1 <=> Dist(head, s) < Dist(head, tail)
        BY <3>1, <3>2, <3>4
      <4> QED BY <3>4, <4>1 DEF IInv, RInv, Contents
    <3> QED BY <3>3, <3>4
  <2>3. \A s \in Slot : buffer'[s] =
          IF s = head' /\ Advancing' THEN Free
          ELSE IF Dist(head', s) < Dist(head', tail') THEN Taken' + Dist(head', s) + 1
          ELSE IF s = tail' /\ ppc' = "publish" THEN pushed' + 1
          ELSE Free
    BY <1>1, <1>6, <2>1, <2>2, ThreadsStay DEF PushPublish
  <2>4. Len(received') = IF Advancing' THEN Taken' + 1 ELSE Taken'
    BY <2>1, ThreadsStay DEF PushPublish, IInv, RInv, Contents
  <2>5. ~ Pushing' /\ ended' # "closed"
    BY <1>2 DEF PushPublish, Pushing, IInv, RInv, Contents
  <2> QED BY <2>3, <2>4, <2>5 DEF Contents, Dist
<1>9. Fifo'
  BY DEF PushPublish, IInv, RInv, Fifo
<1> QED BY <1>3, <1>4, <1>7, <1>8, <1>9 DEF IInv, RInv

LEMMA CloseIInv == IInv /\ Close => IInv'
<1> SUFFICES ASSUME IInv, Close PROVE IInv'
  OBVIOUS
<1>1. TypeOK'
  BY DEF Close, IInv, TypeOK, ring
<1>2. Token'
  BY TokenAside DEF Close, IInv, Owns
<1>3. RInv'
  BY ThreadsStay, RingStays DEF Close, ring, IInv, Pushing
<1> QED BY <1>1, <1>2, <1>3 DEF IInv

\* push and close take the token out of _callback and hand it on.
LEMMA WakeIInv ==
  IInv /\ (TakeCallback \/ CallbackLocal) => IInv'
<1> SUFFICES ASSUME IInv, TakeCallback \/ CallbackLocal PROVE IInv'
  OBVIOUS
<1>1. TypeOK'
  BY DEF TakeCallback, CallbackLocal, IInv, TypeOK, ring
<1>2. Token'
  <2>1. \A u \in Thread : Running(u)' <=> Running(u)
    BY DEF TakeCallback, CallbackLocal, Running
  <2> QED BY <2>1 DEF TakeCallback, CallbackLocal, IInv, Token, SingleRunner,
                      Parked, Owns
<1>3. RInv'
  <2>1. UNCHANGED <<head, tail, headSeen, buffer, pushed, received, run, closed,
                    ended>>
    BY DEF TakeCallback, CallbackLocal, ring
  <2>2. ~ Pushing /\ ~ Pushing'
    BY DEF TakeCallback, CallbackLocal, Pushing
  <2>3. (Taking' <=> Taking) /\ (Advancing' <=> Advancing)
    BY <2>1, ThreadsStay
  <2> QED BY <2>1, <2>2, <2>3, RingStays DEF IInv, Pushing
<1> QED BY <1>1, <1>2, <1>3 DEF IInv

LEMMA CallbackDispatchIInv == IInv /\ CallbackDispatch => IInv'
<1> SUFFICES ASSUME IInv, CallbackDispatch PROVE IInv'
  OBVIOUS
<1>1. Parked /\ executor.queue = <<>> /\ ~ callback /\ ended = "no" /\ ~ Owns'
  BY DEF CallbackDispatch, IInv, Token, Owns
<1>2. Prod \in Thread
  BY DEF Thread
<1>3. UNCHANGED <<ring, callback, closed, pushed, reg, received, ended>>
      /\ ppc = "dispatch" /\ ppc' = "idle"
  BY DEF CallbackDispatch
<1>4. CASE executor.kind = "noop"
  <2>1. Go(Prod, "resume") /\ executor' = executor
    BY <1>4 DEF CallbackDispatch
  <2>2. TypeOK'
    BY <1>3, <2>1 DEF IInv, TypeOK, Go, Body, ring
  <2>3. \A u \in Thread : Running(u)' => u = Prod
    BY <1>1, <1>2, <2>1, Moved DEF IInv, Parked
  <2>4. Token'
    BY <1>1, <1>3, <2>1, <2>3 DEF Token, SingleRunner, Parked, IInv
  <2>5. \A u \in Thread : run[u] \notin {"move", "advance"}
    BY <1>1 DEF Parked, Running, Body
  <2>6. \A u \in Thread : run'[u] \notin {"move", "advance"}
    BY <1>2, <2>1, <2>5, Moved DEF IInv
  <2>7. RInv'
    BY <1>3, <2>5, <2>6, RingStays DEF IInv, ring, Pushing, Taking, Advancing
  <2> QED BY <2>2, <2>4, <2>7 DEF IInv
<1>5. CASE executor.kind # "noop"
  <2>1. executor' = [executor EXCEPT !.queue = Append(@, "resume")] /\ run' = run
    BY <1>5 DEF CallbackDispatch
  <2>2. executor \in [kind : Executors, queue : Seq({"ready", "resume"})]
    BY DEF IInv, TypeOK
  <2>3. Len(executor'.queue) = 1
        /\ executor' \in [kind : Executors, queue : Seq({"ready", "resume"})]
    <3>1. executor'.queue = Append(<<>>, "resume")
      BY <1>1, <2>1, <2>2
    <3>2. executor'.queue = <<"resume">>
      BY <3>1
    <3>3. <<"resume">> \in Seq({"ready", "resume"}) /\ Len(<<"resume">>) = 1
      OBVIOUS
    <3>4. executor'.queue \in Seq({"ready", "resume"})
      BY <3>2, <3>3
    <3>5. executor' \in [kind : Executors, queue : Seq({"ready", "resume"})]
      BY <2>1, <2>2, <3>4
    <3> QED BY <3>2, <3>3, <3>5
  <2>4. TypeOK'
    BY <1>3, <2>1, <2>3 DEF IInv, TypeOK, ring
  <2>5. \A u \in Thread : ~ Running(u)'
    BY <1>1, <2>1 DEF Running, Parked
  <2>6. Token'
    BY <1>1, <1>3, <2>3, <2>5 DEF Token, SingleRunner, Parked, IInv
  <2>7. RInv'
    BY <1>3, <2>1, ThreadsStay, RingStays DEF IInv, ring, Pushing
  <2> QED BY <2>4, <2>6, <2>7 DEF IInv
<1> QED BY <1>4, <1>5

\* A worker takes the token out of the queue.
LEMMA TakeIInv ==
  ASSUME IInv, NEW w \in Worker, Take(w)
  PROVE  IInv'
<1>1. w \in Thread
  BY DEF Thread
<1>2. Parked /\ ~ callback /\ ~ Owns /\ ended = "no"
  BY DEF Take, IInv, Token
<1>3. executor \in [kind : Executors, queue : Seq({"ready", "resume"})]
  BY DEF IInv, TypeOK
<1>4. Head(executor.queue) \in {"ready", "resume"} /\ executor'.queue = <<>>
      /\ executor' \in [kind : Executors, queue : Seq({"ready", "resume"})]
  <2>1. Len(executor.queue) \in Nat /\ Len(executor.queue) # 0
    BY <1>3 DEF Take
  <2>2. Len(executor.queue) <= 1
    BY DEF IInv, Token
  <2>3. Len(executor.queue) = 1
    <3>1. \A n \in Nat : n # 0 /\ n <= 1 => n = 1
      OBVIOUS
    <3> QED BY <2>1, <2>2, <3>1, Zenon
  <2> QED BY <1>3, <2>3 DEF Take
<1>5. TypeOK'
  BY <1>1, <1>4 DEF Take, Go, IInv, TypeOK, Body, ring
<1>6. \A u \in Thread : Running(u)' => u = w
  BY <1>1, <1>2, Moved DEF Take, IInv, Parked
<1>7. Token'
  <2>1. Len(executor'.queue) <= 1
    BY <1>4
  <2> QED BY <1>2, <1>4, <1>6, <2>1 DEF Take, Token, SingleRunner, Parked, Owns
<1>8. RInv'
  <2>1. \A u \in Thread : run[u] \notin {"move", "advance"}
    BY <1>2 DEF Parked, Running, Body
  <2>2. \A u \in Thread : run'[u] \notin {"move", "advance"}
    BY <1>1, <1>4, <2>1, Moved DEF Take, IInv
  <2> QED BY <2>1, <2>2, RingStays
          DEF Take, IInv, ring, Pushing, Taking, Advancing
<1> QED BY <1>5, <1>7, <1>8 DEF IInv

-----------------------------------------------------------------------------
(***************************************************************************)
(* Token and ring are as described in every reachable state.               *)
(***************************************************************************)
THEOREM Invariance == Spec => []IInv
<1>1. IInv /\ [Next]_vars => IInv'
  <2> SUFFICES ASSUME IInv, [Next]_vars PROVE IInv'
    OBVIOUS
  <2>1. CASE Next
    BY <2>1, CoroutineIInv, BeginPushIInv, PushCheckIInv, PushConstructIInv,
       PushPublishIInv, CloseIInv, WakeIInv, CallbackDispatchIInv, TakeIInv
       DEF Next, InCall
  <2>2. CASE UNCHANGED vars
    <3>1. TypeOK'
      BY <2>2 DEF vars, ring, IInv, TypeOK
    <3>2. Token'
      BY <2>2 DEF vars, IInv, Token, SingleRunner, Parked, Owns, Running
    <3>3. RInv'
      BY <2>2, ThreadsStay, RingStays DEF vars, ring, IInv, Pushing
    <3> QED BY <3>1, <3>2, <3>3 DEF IInv
  <2> QED BY <2>1, <2>2
<1> QED BY <1>1, InitIInv, PTL DEF Spec

(***************************************************************************)
(* The channel is safe whatever its size and its executor: one thread at a *)
(* time in the consumer's frame, items in push order, objects constructed  *)
(* into free slots and taken once, and a loop that ends on a close has     *)
(* drained everything (spsc.h 74-205).                                     *)
(***************************************************************************)
THEOREM SafetyHolds == Spec => []Safety
<1>1. IInv => Safety
  <2> SUFFICES ASSUME IInv PROVE Safety
    OBVIOUS
  <2>1. TypeOK /\ SingleRunner /\ Fifo
    BY DEF IInv, Token, RInv
  <2>2. DrainedAtEnd
    <3> SUFFICES ASSUME ended = "closed" PROVE Len(received) = pushed
      BY DEF DrainedAtEnd
    <3>1. ~ Advancing /\ head = tail
      BY DEF IInv, Token, RInv, Contents, Parked, Running, Body, Advancing
    <3>2. Dist(head, tail) = 0
      BY <3>1, DistLemma, RingTypes DEF IInv
    <3> QED BY <3>1, <3>2, RingTypes DEF IInv, RInv, Contents, Taken
  <2>3. Lifetimes
    <3>1. ASSUME NEW s \in Slot
          PROVE  buffer[s] # Free <=>
                   \/ Dist(head, s) < Dist(head, tail) /\ ~ (s = head /\ Advancing)
                   \/ s = tail /\ ppc = "publish"
      <4>1. Taken \in Int /\ pushed \in Nat /\ Dist(head, s) \in Nat
              /\ Dist(head, tail) \in Nat /\ Len(received) \in Nat
        BY RingTypes, DistLemma DEF IInv
      <4>2. Taken >= 0 \/ Advancing
        BY <4>1 DEF IInv, RInv, Contents
      <4>3. Advancing => Taken >= -1 /\ head # tail
        BY <4>1 DEF IInv, RInv, Contents, Order, Advancing, Taking
      <4>4. s # head => Dist(head, s) > 0
        BY <4>1, DistLemma, RingTypes DEF IInv
      <4> QED BY <4>1, <4>2, <4>3, <4>4 DEF IInv, RInv, Contents, Free
    <3>2. tail \in Slot
      BY RingTypes DEF IInv
    <3> QED BY <3>1, <3>2 DEF Lifetimes, Span, Advancing
  <2> QED BY <2>1, <2>2, <2>3 DEF Safety
<1> QED BY <1>1, Invariance, PTL
=============================================================================
