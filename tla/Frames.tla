------------------------------- MODULE Frames -------------------------------
(***************************************************************************)
(* Coroutine frames, their contexts and the threads that execute them      *)
(* (include/xsl/coro/core: task.h, block.h, detach.h, context.h, base.h;   *)
(* wheel/rc.h).  A chain is a root, blocked on by the user or detached,    *)
(* and the tasks it awaits; the frames of a chain share one CoroContext    *)
(* whose reference count is not atomic.                                    *)
(*                                                                         *)
(* A thread has a stack: NoopExecutor::schedule calls the continuation, so *)
(* a resumed or detached frame runs on top of whoever dispatched it.       *)
(* Awaiting a task and finishing one replace the top (symmetric transfer). *)
(***************************************************************************)
EXTENDS Integers, Sequences, FiniteSets

CONSTANTS
  NFrames,      \* bound: coroutine frames of one behaviour
  User,         \* the thread that blocks and detaches
  Poller,       \* the thread that releases signals and cancels
  Worker,       \* threads of the pool, used when the executor is a pool
  MaxSuspend    \* bound: I/O awaits of one behaviour

Thread == {User, Poller} \cup Worker
Frame == 1..NFrames     \* named in the order of their creation
Nobody == 0
Shell == -1
NoCtx == 0

ASSUME FramesAssumption ==
  /\ User # Poller /\ {User, Poller} \cap Worker = {}
  /\ NFrames \in Nat /\ MaxSuspend \in Nat

VARIABLES
  pooled,     \* the executor of the contexts is a pool
  st,         \* state of each frame
  kind,       \* "task" or "detach"
  next,       \* _next: who continues when a task is done
  ctx,        \* the context a frame holds an Rc to, named by its root
  rc,         \* reference count of each context
  stack,      \* stack[th]: frames thread th is executing, innermost last
  queue,      \* the pool's tasks: frames to resume
  notifying,  \* threads inside schedule() between the push and the notify
  block,      \* what block() is doing on the user's thread
  shell,      \* the shell coroutine of block()
  stopped,    \* stop was requested in the cancellation domain
  suspends    \* I/O awaits so far

vars == <<pooled, st, kind, next, ctx, rc, stack, queue, notifying, block,
          shell, stopped, suspends>>

\* Frames as they are before the coroutine is called.
Init ==
  /\ pooled \in BOOLEAN
  /\ st = [f \in Frame |-> "none"]
  /\ kind = [f \in Frame |-> "task"]
  /\ next = [f \in Frame |-> Nobody]
  /\ ctx = [f \in Frame |-> NoCtx]
  /\ rc = [f \in Frame |-> 0]
  /\ stack = [th \in Thread |-> <<>>]
  /\ queue = <<>>
  /\ notifying = {}
  /\ block = "idle" /\ shell = "none"
  /\ stopped = FALSE /\ suspends = 0

TypeOK ==
  /\ pooled \in BOOLEAN /\ stopped \in BOOLEAN
  /\ st \in [Frame -> {"none", "initial", "running", "io", "child", "final",
                       "gone"}]
  /\ kind \in [Frame -> {"task", "detach"}]
  /\ next \in [Frame -> Frame \cup {Nobody, Shell}]
  /\ ctx \in [Frame -> Frame \cup {NoCtx}]
  /\ rc \in [Frame -> Nat]
  /\ stack \in [Thread -> Seq(Frame)] /\ queue \in Seq(Frame)
  /\ notifying \subseteq Thread
  /\ block \in {"idle", "driving", "returned"}
  /\ shell \in {"none", "initial", "final", "gone"}
  /\ suspends \in 0..MaxSuspend

-----------------------------------------------------------------------------
(* Helpers.                                                                *)

Executes(th, f) ==
  stack[th] # <<>> /\ stack[th][Len(stack[th])] = f /\ th \notin notifying

Pop(th) == [stack EXCEPT ![th] = SubSeq(@, 1, Len(@) - 1)]
Replace(th, f) == [stack EXCEPT ![th] = Append(SubSeq(@, 1, Len(@) - 1), f)]

\* The next frame to be created.
New(f) == st[f] = "none" /\ \A h \in 1..(f - 1) : st[h] # "none"

\* A thread that may take up work of its own: it is inside nothing.
Free(th) == stack[th] = <<>> /\ th \notin notifying

\* Mutant: every drop is forgotten.
DropUncounted(c, counts) == counts

\* Rc's copy and destruction.
Copy(c, counts) == [counts EXCEPT ![c] = @ + 1]
Drop(c, counts) == [counts EXCEPT ![c] = @ - 1]

\* A CoroContext of its own: one reference, held by its root.  Executor and
\* stop state are shared between the contexts considered here.
NewContext(c, counts) == [counts EXCEPT ![c] = 1]

\* NoopExecutor: the continuation is called at once.
CallInline(th, f) == [stack EXCEPT ![th] = Append(@, f)]

(***************************************************************************)
(* CoroContext::dispatch with f's resumption: inline it runs on the        *)
(* caller's stack, a pool queues it and notifies after the unlock.         *)
(***************************************************************************)
Dispatch(th, f) ==
  IF pooled
  THEN /\ queue' = Append(queue, f)
       /\ notifying' = notifying \cup {th}
       /\ UNCHANGED stack
  ELSE /\ stack' = CallInline(th, f)
       /\ UNCHANGED <<queue, notifying>>

-----------------------------------------------------------------------------
(* Roots.                                                                  *)

(***************************************************************************)
(* std::move(task).block(): a context if none is attached, the shell as    *)
(* continuation, and the first run inline on the user's thread.            *)
(***************************************************************************)
Block(f) ==
  /\ block = "idle" /\ Free(User) /\ New(f)
  /\ block' = "driving" /\ shell' = "initial"
  /\ st' = [st EXCEPT ![f] = "running"]
  /\ next' = [next EXCEPT ![f] = Shell]
  /\ ctx' = [ctx EXCEPT ![f] = f]
  /\ rc' = NewContext(f, rc)
  /\ stack' = [stack EXCEPT ![User] = <<f>>]
  /\ UNCHANGED <<pooled, kind, queue, notifying, stopped, suspends>>

(***************************************************************************)
(* detach(awaiter, ctx): a Detach frame d that owns the awaiter g and is   *)
(* the root of a new chain in context c, dispatched at once.               *)
(***************************************************************************)
StartDetached(th, d, c) == LET g == d + 1 IN
  /\ New(d) /\ g \in Frame
  /\ st' = [st EXCEPT ![d] = "running", ![g] = "initial"]
  /\ kind' = [kind EXCEPT ![d] = "detach"]
  /\ next' = [next EXCEPT ![g] = d]
  /\ ctx' = [ctx EXCEPT ![d] = c]
  /\ rc' = IF c = d THEN NewContext(c, rc) ELSE Copy(c, rc)
  /\ Dispatch(th, d)
  /\ UNCHANGED <<pooled, block, shell, stopped, suspends>>

Detach(d) ==
  Free(User) /\ block # "driving" /\ StartDetached(User, d, d)

\* Mutant: the child is given the parent's context instead of a new one.
YieldSharing(th, f, d) ==
  Executes(th, f) /\ kind[f] = "task" /\ StartDetached(th, d, ctx[f])

\* co_yield: fan out with new_child_context(), in the same stop domain.
Yield(th, f, d) ==
  Executes(th, f) /\ kind[f] = "task" /\ StartDetached(th, d, d)

-----------------------------------------------------------------------------
(* What a running frame does.                                              *)

(***************************************************************************)
(* co_await of a task g, created by calling its coroutine: g inherits the  *)
(* context, its continuation is f, and it runs on in f's place.  A Detach  *)
(* frame does this as its first and only await, of the awaiter it owns.    *)
(***************************************************************************)
Await(th, f, g) ==
  /\ Executes(th, f) /\ f # g
  /\ IF kind[f] = "detach" THEN st[g] = "initial" /\ next[g] = f
                           ELSE New(g)
  /\ st' = [st EXCEPT ![f] = "child", ![g] = "running"]
  /\ next' = [next EXCEPT ![g] = f]
  /\ ctx' = [ctx EXCEPT ![g] = ctx[f]]
  /\ rc' = Copy(ctx[f], rc)
  /\ stack' = Replace(th, g)
  /\ UNCHANGED <<pooled, kind, queue, notifying, block, shell, stopped,
                 suspends>>

\* co_await of a signal that is not ready; a stopped domain never suspends.
Suspend(th, f) ==
  /\ Executes(th, f) /\ kind[f] = "task"
  /\ ~ stopped /\ suspends < MaxSuspend
  /\ st' = [st EXCEPT ![f] = "io"]
  /\ stack' = Pop(th)
  /\ suspends' = suspends + 1
  /\ UNCHANGED <<pooled, kind, next, ctx, rc, queue, notifying, block, shell,
                 stopped>>

\* The shell of block(), resumed by the end of the root f: an empty body, and
\* the semaphore is released once the shell is suspended.
BlockShell(th, f) ==
  /\ st' = [st EXCEPT ![f] = "final"]
  /\ shell' = "final"
  /\ stack' = Pop(th)
  /\ UNCHANGED rc

(***************************************************************************)
(* The end of a task: final_suspend transfers to the continuation, which   *)
(* takes the result and destroys the Task it awaited at the end of the     *)
(* expression.                                                             *)
(***************************************************************************)
FinishTask(th, f) ==
  /\ Executes(th, f) /\ kind[f] = "task"
  /\ IF next[f] = Shell
     THEN BlockShell(th, f)
     ELSE /\ st' = [st EXCEPT ![f] = "gone", ![next[f]] = "running"]
          /\ stack' = Replace(th, next[f])
          /\ rc' = Drop(ctx[f], rc)
          /\ UNCHANGED shell
  /\ UNCHANGED <<pooled, kind, next, ctx, queue, notifying, block, stopped,
                 suspends>>

\* Mutant: final_suspend suspends, so nobody destroys the frame.
FinishDetachedKept(th, d) ==
  /\ Executes(th, d) /\ kind[d] = "detach" /\ \E g \in Frame : next[g] = d /\ st[g] = "gone"
  /\ st' = [st EXCEPT ![d] = "final"]
  /\ stack' = Pop(th)
  /\ UNCHANGED <<pooled, kind, next, ctx, rc, queue, notifying, block, shell,
                 stopped, suspends>>

\* The end of a Detach frame, which destroys itself (suspend_never).
FinishDetached(th, d) ==
  /\ Executes(th, d) /\ kind[d] = "detach" /\ \E g \in Frame : next[g] = d /\ st[g] = "gone"
  /\ st' = [st EXCEPT ![d] = "gone"]
  /\ rc' = Drop(ctx[d], rc)
  /\ stack' = Pop(th)
  /\ UNCHANGED <<pooled, kind, next, ctx, queue, notifying, block, shell,
                 stopped, suspends>>

-----------------------------------------------------------------------------
(* Other threads.                                                          *)

\* A release, or a stop callback: the promise's resume() dispatches.
Wake(f) ==
  /\ Free(Poller) /\ st[f] = "io"
  /\ st' = [st EXCEPT ![f] = "running"]
  /\ Dispatch(Poller, f)
  /\ UNCHANGED <<pooled, kind, next, ctx, rc, block, shell, stopped, suspends>>

\* cancel() on the domain; the callbacks are Wake steps of this thread.
Cancel ==
  /\ Free(Poller) /\ ~ stopped
  /\ stopped' = TRUE
  /\ UNCHANGED <<pooled, st, kind, next, ctx, rc, stack, queue, notifying,
                 block, shell, suspends>>

\* schedule() notifies and returns to its caller.
NotifyOne(th) ==
  /\ th \in notifying
  /\ notifying' = notifying \ {th}
  /\ UNCHANGED <<pooled, st, kind, next, ctx, rc, stack, queue, block, shell,
                 stopped, suspends>>

WorkerResumes(w) ==
  /\ Free(w) /\ queue # <<>>
  /\ stack' = [stack EXCEPT ![w] = <<Head(queue)>>]
  /\ queue' = Tail(queue)
  /\ UNCHANGED <<pooled, st, kind, next, ctx, rc, notifying, block, shell,
                 stopped, suspends>>

\* Mutant: block() returns when its first run comes back.
BlockReturnsEarly ==
  /\ block = "driving" /\ Free(User)
  /\ block' = "returned" /\ shell' = "gone"
  /\ \E f \in Frame : /\ next[f] = Shell
                      /\ st' = [st EXCEPT ![f] = "gone"]
                      /\ rc' = Drop(ctx[f], rc)
  /\ UNCHANGED <<pooled, kind, next, ctx, stack, queue, notifying, stopped,
                 suspends>>

(***************************************************************************)
(* sem.acquire() in block(): the result is read from the finished task,    *)
(* then task and shell are destroyed with block()'s frame.                 *)
(***************************************************************************)
BlockReturns ==
  /\ block = "driving" /\ Free(User) /\ shell = "final"
  /\ block' = "returned" /\ shell' = "gone"
  /\ \E f \in Frame : /\ next[f] = Shell
                      /\ st' = [st EXCEPT ![f] = "gone"]
                      /\ rc' = Drop(ctx[f], rc)
  /\ UNCHANGED <<pooled, kind, next, ctx, stack, queue, notifying, stopped,
                 suspends>>

-----------------------------------------------------------------------------
Ends(th) == \E f \in Frame : FinishTask(th, f) \/ FinishDetached(th, f)

Runs(th) ==
  \/ \E f, g \in Frame : Await(th, f, g) \/ Yield(th, f, g)
  \/ \E f \in Frame : Suspend(th, f)
  \/ Ends(th)
  \/ NotifyOne(th)

Next ==
  \/ \E f \in Frame : Block(f)
  \/ \E d \in Frame : Detach(d)
  \/ \E f \in Frame : Wake(f)
  \/ Cancel \/ BlockReturns
  \/ \E th \in Thread : Runs(th)
  \/ \E w \in Worker : WorkerResumes(w)

Spec == Init /\ [][Next]_vars

(***************************************************************************)
(* Threads execute what is on their stacks, workers take what is queued,   *)
(* cancel() runs all callbacks.  Nobody is obliged to release a signal,    *)
(* and no task is obliged to suspend or to fan out.                        *)
(***************************************************************************)
Fairness ==
  /\ \A th \in Thread : WF_vars(Runs(th))
  /\ \A w \in Worker : WF_vars(WorkerResumes(w))
  /\ WF_vars(BlockReturns)
  /\ WF_vars(stopped /\ \E f \in Frame : Wake(f))

FairSpec == Spec /\ Fairness

-----------------------------------------------------------------------------
(* Properties.                                                             *)

Live(f) == st[f] \notin {"none", "gone"}

\* Where a frame is being executed: on a stack or about to be, in the queue.
Places(f) ==
  {p \in Thread \X (1..Cardinality(Frame)) :
     p[2] <= Len(stack[p[1]]) /\ stack[p[1]][p[2]] = f}
Queued(f) == {i \in 1..Len(queue) : queue[i] = f}

(***************************************************************************)
(* A frame is resumed by one thread at a time and never after its          *)
(* destruction, and what a task continues with outlives the task           *)
(* (block.h 48-52, detach.h 37-41, task.h 225-233).                        *)
(***************************************************************************)
FramesSound == TypeOK /\ \A f \in Frame :
    /\ st[f] = "running" => Cardinality(Places(f)) + Cardinality(Queued(f)) = 1
    /\ st[f] # "running" => Places(f) = {} /\ Queued(f) = {}
    /\ Live(f) /\ kind[f] = "task" /\ st[f] # "initial" =>
         IF next[f] = Shell THEN shell \in {"initial", "final"}
         ELSE next[f] \in Frame /\ st[next[f]] = "child"

(***************************************************************************)
(* The count of a context is the number of frames that hold it, and no two *)
(* threads execute frames of one chain: Rc is not atomic by design         *)
(* (rc.h 37-62, docs/architecture.md).                                     *)
(***************************************************************************)
Executing(th) == {stack[th][i] : i \in 1..Len(stack[th])}

ContextsSound ==
  /\ \A c \in Frame : rc[c] = Cardinality({f \in Frame : Live(f) /\ ctx[f] = c})
  /\ \A th, u \in Thread : th # u =>
       \A f \in Executing(th), g \in Executing(u) : ctx[f] # ctx[g]

(***************************************************************************)
(* When nothing runs, waits or is queued, every frame that was created is  *)
(* destroyed and every context freed.                                      *)
(***************************************************************************)
NothingLeaks ==
  (/\ \A th \in Thread : Free(th) /\ queue = <<>>
   /\ \A f \in Frame : st[f] # "io"
   /\ shell # "final")
    => \A f \in Frame : st[f] \in {"none", "gone"} /\ rc[f] = 0

(***************************************************************************)
(* A cancelled domain drains: every chain, the fanned-out ones included,   *)
(* ends without another signal, and block() returns (task.h 64-97,         *)
(* context.h 77-89).                                                       *)
(***************************************************************************)
CancelDrains ==
  /\ stopped ~> \A f \in Frame : ~ Live(f)
  /\ stopped /\ block = "driving" ~> block = "returned"
=============================================================================
