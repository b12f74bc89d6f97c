---------------------------- MODULE SPSCChannel ----------------------------
(***************************************************************************)
(* xsl::coro::SPSCChannel (include/xsl/coro/channel/spsc.h): a bounded     *)
(* ring whose consumer is a coroutine.  An awaiting consumer leaves a heap *)
(* allocated callback in _callback; push and close exchange it out and     *)
(* invoke it.  One action per atomic access.                               *)
(*                                                                         *)
(* The consumer is `while (auto v = co_await ch) ...'.  As in MPSCSignal   *)
(* it runs where it is resumed: on the pushing thread with NoopExecutor,   *)
(* else on a pool worker; its position is kept per thread.                 *)
(*                                                                         *)
(* await_suspend and push each put a seq_cst fence between their store and *)
(* their load, so these are modelled as sequentially consistent; the       *)
(* acquire loads of await_ready and of push's full test may be stale.      *)
(***************************************************************************)
EXTENDS RingIndex, Sequences

CONSTANTS
  Worker,    \* pool workers
  Executors, \* executors the consumer may have been given: "noop", "pool"
  Prod,      \* the thread that calls push and close
  Starter,   \* the thread that starts the coroutine with NoopExecutor
  MaxPush    \* bound: how many items are offered

ASSUME ChannelAssumption == Prod \notin Worker /\ Starter \notin Worker
                            /\ MaxPush \in Nat
                            /\ Executors \subseteq {"noop", "pool"}

Free == 0
NoLocals == [head |-> 0, tail |-> 0]
Item == 1 .. MaxPush
Thread == Worker \cup {Prod, Starter}

VARIABLES
  head, tail,           \* _head._ctl, _tail._ctl
  tailSeen, headSeen,   \* _head._local (consumer), _tail._local (producer)
  buffer,               \* the object living in each slot, or Free
  callback,             \* _callback holds one
  closed,               \* _closed
  ppc,                  \* where the producer is in push or close
  pushed,               \* number of successful pushes
  run,                  \* run[t]: where the coroutine code on thread t is
  reg,                  \* reg[t]: await_suspend's locals head and tail on t
  received,             \* items the consumer has got
  ended,                \* "no", "closed" or "spurious": why an await was empty
  executor              \* its kind, and the resumptions queued at the pool

ring == <<head, tail, tailSeen, headSeen, buffer>>
vars == <<ring, callback, closed, ppc, pushed, run, reg, received,
          ended, executor>>

\* Coroutine code proper; the rest is await_suspend after the callback has
\* been published, when another thread may already run the coroutine.
Body == {"ready", "isClosed", "register", "resume", "move", "advance"}
Tail2 == {"loadHead", "loadTail", "loadClosed", "reclaim"}
Running(t) == run[t] \in Body

TypeOK ==
  /\ head \in Slot /\ tail \in Slot /\ tailSeen \in Slot /\ headSeen \in Slot
  /\ buffer \in [Slot -> Item \cup {Free}]
  /\ callback \in BOOLEAN
  /\ closed \in BOOLEAN
  /\ ppc \in {"idle", "check", "construct", "publish", "exchange", "local",
              "dispatch"}
  /\ pushed \in 0 .. MaxPush
  /\ run \in [Thread -> Body \cup Tail2 \cup {"off"}]
  /\ reg \in [Thread -> [head : Slot, tail : Slot]]
  /\ received \in Seq(Item \cup {Free})
  /\ ended \in {"no", "closed", "spurious"}
  /\ executor \in [kind : Executors, queue : Seq({"ready", "resume"})]

Init ==
  /\ head = 0 /\ tail = 0 /\ tailSeen = 0 /\ headSeen = 0
  /\ buffer = [s \in Slot |-> Free]
  /\ callback = FALSE /\ closed = FALSE
  /\ ppc = "idle" /\ pushed = 0
  /\ \E k \in Executors :
       /\ executor = [kind |-> k, queue |-> IF k = "pool" THEN <<"ready">>
                                                        ELSE <<>>]
       /\ run = [t \in Thread |-> IF t = Starter /\ k = "noop" THEN "ready"
                                                              ELSE "off"]
  /\ reg = [t \in Thread |-> NoLocals]
  /\ received = <<>> /\ ended = "no"

-----------------------------------------------------------------------------
(* The consumer coroutine, on thread t.                                    *)

Go(t, where) == run' = [run EXCEPT ![t] = where]

\* await_ready: the empty test, on the snapshot first.
Ready(t) ==
  /\ run[t] = "ready"
  /\ IF head # tailSeen
       THEN tailSeen' = tailSeen
       ELSE tailSeen' \in Visible(tailSeen, tail)
  /\ Go(t, IF head # tailSeen' THEN "resume" ELSE "isClosed")
  /\ UNCHANGED <<head, tail, headSeen, buffer, callback, closed, ppc, pushed,
                 reg, received, ended, executor>>

\* await_ready: empty, but ready all the same if the channel is closed.
IsClosed(t) ==
  /\ run[t] = "isClosed"
  /\ Go(t, IF closed THEN "resume" ELSE "register")
  /\ UNCHANGED <<ring, callback, closed, ppc, pushed, reg, received, ended,
                 executor>>

\* await_suspend publishes the callback.
Register(t) ==
  /\ run[t] = "register"
  /\ callback' = TRUE
  /\ Go(t, "loadHead")
  /\ UNCHANGED <<ring, closed, ppc, pushed, reg, received, ended, executor>>

LoadHead(t) ==
  /\ run[t] = "loadHead"
  /\ reg' = [reg EXCEPT ![t].head = head]
  /\ Go(t, "loadTail")
  /\ UNCHANGED <<ring, callback, closed, ppc, pushed, received, ended,
                 executor>>

\* Mutant: the queue is not looked at again after the registration.
LoadTailSkipped(t) ==
  /\ run[t] = "loadTail"
  /\ reg' = [reg EXCEPT ![t].tail = tail]
  /\ Go(t, "off")
  /\ UNCHANGED <<ring, callback, closed, ppc, pushed, received, ended,
                 executor>>

LoadTail(t) ==
  /\ run[t] = "loadTail"
  /\ reg' = [reg EXCEPT ![t].tail = tail]
  /\ Go(t, IF reg[t].head # tail THEN "reclaim" ELSE "loadClosed")
  /\ UNCHANGED <<ring, callback, closed, ppc, pushed, received, ended,
                 executor>>

LoadClosed(t) ==
  /\ run[t] = "loadClosed"
  /\ Go(t, IF closed THEN "reclaim" ELSE "off")
  /\ reg' = IF closed THEN reg ELSE [reg EXCEPT ![t] = NoLocals]
  /\ UNCHANGED <<ring, callback, closed, ppc, pushed, received, ended,
                 executor>>

\* Mutant: the retraction goes on although push already owns the callback.
ReclaimBlind(t) ==
  /\ run[t] = "reclaim"
  /\ callback' = FALSE
  /\ tailSeen' = reg[t].tail
  /\ Go(t, "resume")
  /\ reg' = [reg EXCEPT ![t] = NoLocals]
  /\ UNCHANGED <<head, tail, headSeen, buffer, closed, ppc, pushed, received,
                 ended, executor>>

\* await_suspend takes the callback back, unless push or close has it.
Reclaim(t) ==
  /\ run[t] = "reclaim"
  /\ callback' = FALSE
  /\ tailSeen' = IF callback THEN reg[t].tail ELSE tailSeen
  /\ Go(t, IF callback THEN "resume" ELSE "off")
  /\ reg' = [reg EXCEPT ![t] = NoLocals]
  /\ UNCHANGED <<head, tail, headSeen, buffer, closed, ppc, pushed, received,
                 ended, executor>>

\* await_resume: there is an item to take.
ResumeItem(t) ==
  /\ run[t] = "resume" /\ head # tail
  /\ Go(t, "move")
  /\ UNCHANGED <<ring, callback, closed, ppc, pushed, reg, received, ended,
                 executor>>

\* await_resume: nullopt, because the channel is closed or for no reason; the
\* loop ends.
ResumeEmpty(t) ==
  /\ run[t] = "resume" /\ head = tail
  /\ ended' = IF closed THEN "closed" ELSE "spurious"
  /\ Go(t, "off")
  /\ UNCHANGED <<ring, callback, closed, ppc, pushed, reg, received,
                 executor>>

\* await_resume moves the item out and destroys what is left of it.
Move(t) ==
  /\ run[t] = "move"
  /\ received' = Append(received, buffer[head])
  /\ buffer' = [buffer EXCEPT ![head] = Free]
  /\ Go(t, "advance")
  /\ UNCHANGED <<head, tail, tailSeen, headSeen, callback, closed, ppc,
                 pushed, reg, ended, executor>>

\* await_resume publishes the free slot; the loop comes around.
Advance(t) ==
  /\ run[t] = "advance"
  /\ head' = Succ(head)
  /\ Go(t, "ready")
  /\ UNCHANGED <<tail, tailSeen, headSeen, buffer, callback, closed, ppc,
                 pushed, reg, received, ended, executor>>

Coroutine(t) ==
  \/ Ready(t) \/ IsClosed(t) \/ Register(t) \/ LoadHead(t) \/ LoadTail(t)
  \/ LoadClosed(t) \/ Reclaim(t) \/ ResumeItem(t) \/ ResumeEmpty(t)
  \/ Move(t) \/ Advance(t)

-----------------------------------------------------------------------------
(* push and close.                                                         *)

BeginPush ==
  /\ ppc = "idle" /\ run[Prod] = "off" /\ pushed < MaxPush
  /\ ppc' = IF closed THEN "idle" ELSE "check"
  /\ UNCHANGED <<ring, callback, closed, pushed, run, reg, received, ended,
                 executor>>

PushCheck ==
  /\ ppc = "check"
  /\ IF Succ(tail) # headSeen
       THEN headSeen' = headSeen
       ELSE headSeen' \in Visible(headSeen, head)
  /\ ppc' = IF Succ(tail) # headSeen' THEN "construct" ELSE "idle"
  /\ UNCHANGED <<head, tail, tailSeen, buffer, callback, closed, pushed, run,
                 reg, received, ended, executor>>

PushConstruct ==
  /\ ppc = "construct"
  /\ buffer' = [buffer EXCEPT ![tail] = pushed + 1]
  /\ ppc' = "publish"
  /\ UNCHANGED <<head, tail, tailSeen, headSeen, callback, closed, pushed,
                 run, reg, received, ended, executor>>

PushPublish ==
  /\ ppc = "publish"
  /\ tail' = Succ(tail)
  /\ pushed' = pushed + 1
  /\ ppc' = "exchange"
  /\ UNCHANGED <<head, tailSeen, headSeen, buffer, callback, closed, run, reg,
                 received, ended, executor>>

\* Mutant: a close wakes nobody.
CloseNoWake ==
  /\ ppc = "idle" /\ run[Prod] = "off" /\ ~ closed
  /\ closed' = TRUE
  /\ UNCHANGED <<ring, callback, ppc, pushed, run, reg, received, ended,
                 executor>>

Close ==
  /\ ppc = "idle" /\ run[Prod] = "off" /\ ~ closed
  /\ closed' = TRUE
  /\ ppc' = "exchange"
  /\ UNCHANGED <<ring, callback, pushed, run, reg, received, ended, executor>>

\* push and close end alike: take the callback, if any.
TakeCallback ==
  /\ ppc = "exchange"
  /\ callback' = FALSE
  /\ ppc' = IF callback THEN "local" ELSE "idle"
  /\ UNCHANGED <<ring, closed, pushed, run, reg, received, ended, executor>>

\* The callback first refreshes the consumer's snapshot.
CallbackLocal ==
  /\ ppc = "local"
  /\ tailSeen' = tail
  /\ ppc' = "dispatch"
  /\ UNCHANGED <<head, tail, headSeen, buffer, callback, closed, pushed, run,
                 reg, received, ended, executor>>

\* The callback resumes the coroutine through the executor.
CallbackDispatch ==
  /\ ppc = "dispatch"
  /\ ppc' = "idle"
  /\ IF executor.kind = "noop"
       THEN /\ Go(Prod, "resume")
            /\ UNCHANGED executor
       ELSE /\ executor' = [executor EXCEPT !.queue = Append(@, "resume")]
            /\ UNCHANGED run
  /\ UNCHANGED <<ring, callback, closed, pushed, reg, received, ended>>

InCall == PushCheck \/ PushConstruct \/ PushPublish \/ TakeCallback
          \/ CallbackLocal \/ CallbackDispatch

Take(w) ==
  /\ run[w] = "off" /\ executor.queue # <<>>
  /\ Go(w, Head(executor.queue))
  /\ executor' = [executor EXCEPT !.queue = Tail(@)]
  /\ UNCHANGED <<ring, callback, closed, ppc, pushed, reg, received, ended>>

Next ==
  \/ \E t \in Thread : Coroutine(t)
  \/ BeginPush \/ Close \/ InCall
  \/ \E w \in Worker : Take(w)

Spec == Init /\ [][Next]_vars

\* Threads inside a call or inside the coroutine keep going; nobody has to
\* push or close.
Fairness ==
  /\ \A t \in Thread : WF_vars(Coroutine(t))
  /\ WF_vars(InCall)
  /\ \A w \in Worker : WF_vars(Take(w))

FairSpec == Spec /\ Fairness

-----------------------------------------------------------------------------
(* Properties.                                                             *)

\* Items arrive in push order, none lost and none twice.
Fifo == \A i \in 1 .. Len(received) : received[i] = i

\* The consumer leaves its loop only when it has drained all that was pushed.
DrainedAtEnd == ended = "closed" => Len(received) = pushed

(***************************************************************************)
(* push never constructs over a live object, and await_resume only takes   *)
(* live ones: the live objects are those between head and tail, less the   *)
(* one just moved out, plus the one just constructed.                      *)
(***************************************************************************)
Lifetimes ==
  {s \in Slot : buffer[s] # Free} =
    (Span(head, tail) \ {s \in {head} : \E t \in Thread : run[t] = "advance"})
      \cup {s \in {tail} : ppc = "publish"}

\* One thread at a time executes the consumer's frame.
SingleRunner ==
  \A t, u \in Thread : Running(t) /\ Running(u) => t = u

(***************************************************************************)
(* The safety of the channel: the parts above, and the types.              *)
(***************************************************************************)
Safety == TypeOK /\ SingleRunner /\ Fifo /\ Lifetimes /\ DrainedAtEnd

(***************************************************************************)
(* No wakeup is lost (spsc.h 105-108): every item pushed reaches the       *)
(* consumer, unless an empty await has made it leave.                      *)
(***************************************************************************)
Delivered ==
  \A n \in Item : pushed >= n ~> (Len(received) >= n \/ ended = "spurious")

\* After a close the consumer's loop ends.
CloseEndsConsumer == closed ~> ended # "no"
=============================================================================
