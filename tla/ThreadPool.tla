----------------------------- MODULE ThreadPool -----------------------------
(***************************************************************************)
(* ThreadPoolExecutor (include/xsl/coro/core/executor.h and                *)
(* src/coro/core/executor.cpp): a handle to a State shared with its        *)
(* workers.  Destroying the handle signals stop; the State is destroyed by *)
(* whichever thread drops the last reference to it, a worker included.     *)
(*                                                                         *)
(* Each critical section under State::mtx is one action; notifications are *)
(* sent after the unlock and are actions of their own.                     *)
(*                                                                         *)
(* The handle is shared: the user and the coroutines whose context holds a *)
(* shared_ptr<ExecutorBase> own it together (holders), so the last owner   *)
(* may be a task that completes on a worker.                               *)
(***************************************************************************)
EXTENDS Integers, Sequences, FiniteSets

CONSTANTS
  Worker,     \* the pool's threads
  User,       \* the thread that created the pool
  Task,       \* what may be scheduled, each at most once
  Holding     \* tasks that own the executor until they complete

ASSUME PoolAssumption ==
  /\ User \notin Worker
  /\ Holding \subseteq Task
  /\ User \notin Task /\ "none" \notin Task /\ "handle" \notin Worker

\* n > 0 in the constructor: hardware_concurrency() did not return 0.
ASSUME WorkersAssumption == Worker # {}

Thread == Worker \cup {User}
Handle == "handle"
None == "none"

VARIABLES
  queue,      \* State::tasks
  stop,       \* State::stop
  refs,       \* owners of the State: the handle and the workers' closures
  joinable,   \* State::workers that are neither joined nor detached
  gone,       \* ~State has returned
  holders,    \* owners of the handle
  pc,         \* where each thread is
  task,       \* task[w]: what worker w is executing
  scheduled,  \* tasks scheduled so far
  ran         \* ran[t]: how often t has been executed

vars == <<queue, stop, refs, joinable, gone, holders, pc, task, scheduled, ran>>

TypeOK ==
  /\ queue \in Seq(Task)
  /\ stop \in BOOLEAN /\ gone \in BOOLEAN
  /\ refs \subseteq Worker \cup {Handle}
  /\ joinable \subseteq Worker
  /\ holders \subseteq {User} \cup Holding
  /\ pc \in [Thread -> {"idle", "acquire", "waiting", "run", "notify", "stop",
                        "notifyAll", "release", "exit", "destroy", "join",
                        "done"}]
  /\ task \in [Worker -> Task \cup {None}]
  /\ scheduled \subseteq Task
  /\ ran \in [Task -> Nat]

Init ==
  /\ queue = <<>> /\ stop = FALSE /\ gone = FALSE
  /\ refs = Worker \cup {Handle}
  /\ joinable = Worker
  /\ holders = {User}
  /\ pc = [t \in Thread |-> IF t = User THEN "idle" ELSE "acquire"]
  /\ task = [w \in Worker |-> None]
  /\ scheduled = {}
  /\ ran = [t \in Task |-> 0]

Goto(th, where) == pc' = [pc EXCEPT ![th] = where]

Waiting == {w \in Worker : pc[w] = "waiting"}

-----------------------------------------------------------------------------
(* schedule().                                                             *)

\* The user, or a task that holds the executor and is being executed, calls.
MayCall(th) ==
  \/ th = User /\ pc[th] = "idle" /\ User \in holders
  \/ th \in Worker /\ pc[th] = "run" /\ task[th] \in holders

Schedule(th, t) ==
  /\ MayCall(th) /\ t \notin scheduled
  /\ queue' = Append(queue, t)
  /\ scheduled' = scheduled \cup {t}
  /\ holders' = holders \cup ({t} \cap Holding)
  /\ Goto(th, "notify")
  /\ UNCHANGED <<stop, refs, joinable, gone, task, ran>>

\* Mutant: nobody is notified.
NotifyOneMissing(th) ==
  /\ pc[th] = "notify"
  /\ Goto(th, IF th \in Worker THEN "run" ELSE "idle")
  /\ UNCHANGED <<queue, stop, refs, joinable, gone, holders, task, scheduled,
                 ran>>

\* cv.notify_one: wakes one waiting worker, if there is one.
NotifyOne(th) ==
  /\ pc[th] = "notify"
  /\ LET back == [pc EXCEPT ![th] = IF th \in Worker THEN "run" ELSE "idle"]
     IN  IF Waiting = {} THEN pc' = back
         ELSE \E w \in Waiting : pc' = [back EXCEPT ![w] = "acquire"]
  /\ UNCHANGED <<queue, stop, refs, joinable, gone, holders, task, scheduled,
                 ran>>

-----------------------------------------------------------------------------
(* The worker's loop.                                                      *)

\* The predicate is false: wait, releasing the mutex.
Wait(w) ==
  /\ pc[w] = "acquire" /\ ~ stop /\ queue = <<>>
  /\ Goto(w, "waiting")
  /\ UNCHANGED <<queue, stop, refs, joinable, gone, holders, task, scheduled,
                 ran>>

\* cv.wait may return without a notification.
SpuriousWakeup(w) ==
  /\ pc[w] = "waiting"
  /\ Goto(w, "acquire")
  /\ UNCHANGED <<queue, stop, refs, joinable, gone, holders, task, scheduled,
                 ran>>

\* Mutant: the front of the queue is taken and stays there.
TakeTaskNoPop(w) ==
  /\ pc[w] = "acquire" /\ queue # <<>>
  /\ task' = [task EXCEPT ![w] = Head(queue)]
  /\ Goto(w, "run")
  /\ UNCHANGED <<queue, stop, refs, joinable, gone, holders, scheduled, ran>>

TakeTask(w) ==
  /\ pc[w] = "acquire" /\ queue # <<>>
  /\ task' = [task EXCEPT ![w] = Head(queue)]
  /\ queue' = Tail(queue)
  /\ Goto(w, "run")
  /\ UNCHANGED <<stop, refs, joinable, gone, holders, scheduled, ran>>

\* Mutant: a stopping pool abandons what is queued.
LeaveLoopEarly(w) ==
  /\ pc[w] = "acquire" /\ stop
  /\ Goto(w, "exit")
  /\ UNCHANGED <<queue, stop, refs, joinable, gone, holders, task, scheduled,
                 ran>>

LeaveLoop(w) ==
  /\ pc[w] = "acquire" /\ stop /\ queue = <<>>
  /\ Goto(w, "exit")
  /\ UNCHANGED <<queue, stop, refs, joinable, gone, holders, task, scheduled,
                 ran>>

\* task() returns and is destroyed: if it was the last owner of the executor,
\* the handle is destroyed here, on the worker.
FinishTask(w) ==
  /\ pc[w] = "run"
  /\ ran' = [ran EXCEPT ![task[w]] = @ + 1]
  /\ task' = [task EXCEPT ![w] = None]
  /\ holders' = holders \ {task[w]}
  /\ Goto(w, IF holders = {task[w]} THEN "stop" ELSE "acquire")
  /\ UNCHANGED <<queue, stop, refs, joinable, gone, scheduled>>

\* The closure of a worker that left its loop is destroyed.
DropClosure(w) ==
  /\ pc[w] = "exit"
  /\ refs' = refs \ {w}
  /\ Goto(w, IF refs' = {} THEN "destroy" ELSE "done")
  /\ UNCHANGED <<queue, stop, joinable, gone, holders, task, scheduled, ran>>

-----------------------------------------------------------------------------
(* ~ThreadPoolExecutor, on the thread of the last holder.                  *)

UserDrops ==
  /\ pc[User] = "idle" /\ User \in holders
  /\ holders' = holders \ {User}
  /\ Goto(User, IF holders = {User} THEN "stop" ELSE "done")
  /\ UNCHANGED <<queue, stop, refs, joinable, gone, task, scheduled, ran>>

SignalStop(th) ==
  /\ pc[th] = "stop"
  /\ stop' = TRUE
  /\ Goto(th, "notifyAll")
  /\ UNCHANGED <<queue, refs, joinable, gone, holders, task, scheduled, ran>>

\* Mutant: stop wakes only one worker.
NotifyAllButOne(th) ==
  /\ pc[th] = "notifyAll"
  /\ LET on == [pc EXCEPT ![th] = "release"]
     IN  IF Waiting = {} THEN pc' = on
         ELSE \E w \in Waiting : pc' = [on EXCEPT ![w] = "acquire"]
  /\ UNCHANGED <<queue, stop, refs, joinable, gone, holders, task, scheduled,
                 ran>>

NotifyAll(th) ==
  /\ pc[th] = "notifyAll"
  /\ pc' = [t \in Thread |-> IF t = th THEN "release"
                             ELSE IF t \in Waiting THEN "acquire" ELSE pc[t]]
  /\ UNCHANGED <<queue, stop, refs, joinable, gone, holders, task, scheduled,
                 ran>>

\* Mutant: the handle destroys the State instead of dropping a reference.
ReleaseStateAlways(th) ==
  /\ pc[th] = "release"
  /\ refs' = refs \ {Handle}
  /\ Goto(th, "destroy")
  /\ UNCHANGED <<queue, stop, joinable, gone, holders, task, scheduled, ran>>

\* The handle's _state is destroyed.
ReleaseState(th) ==
  /\ pc[th] = "release"
  /\ refs' = refs \ {Handle}
  /\ Goto(th, IF refs' = {} THEN "destroy"
              ELSE IF th \in Worker THEN "acquire" ELSE "done")
  /\ UNCHANGED <<queue, stop, joinable, gone, holders, task, scheduled, ran>>

-----------------------------------------------------------------------------
(* ~State, on the thread that dropped the last reference.                  *)

BeginDestroy(th) ==
  /\ pc[th] = "destroy"
  /\ stop' = TRUE
  /\ pc' = [t \in Thread |-> IF t = th THEN "join"
                             ELSE IF t \in Waiting THEN "acquire" ELSE pc[t]]
  /\ UNCHANGED <<queue, refs, joinable, gone, holders, task, scheduled, ran>>

\* Join a finished worker; the current thread is detached instead.
Join(th, w) ==
  /\ pc[th] = "join" /\ w \in joinable
  /\ w = th \/ pc[w] = "done"
  /\ joinable' = joinable \ {w}
  /\ UNCHANGED <<queue, stop, refs, gone, holders, pc, task, scheduled, ran>>

EndDestroy(th) ==
  /\ pc[th] = "join" /\ joinable = {}
  /\ gone' = TRUE
  /\ Goto(th, "done")
  /\ UNCHANGED <<queue, stop, refs, joinable, holders, task, scheduled, ran>>

-----------------------------------------------------------------------------
Work(w) == Wait(w) \/ TakeTask(w) \/ LeaveLoop(w) \/ FinishTask(w)
           \/ DropClosure(w)

InCall(th) ==
  \/ NotifyOne(th) \/ SignalStop(th) \/ NotifyAll(th) \/ ReleaseState(th)
  \/ BeginDestroy(th) \/ EndDestroy(th) \/ \E w \in Worker : Join(th, w)

Next ==
  \/ \E w \in Worker : Work(w) \/ SpuriousWakeup(w)
  \/ \E th \in Thread : InCall(th) \/ \E t \in Task : Schedule(th, t)
  \/ UserDrops

Spec == Init /\ [][Next]_vars

(***************************************************************************)
(* Workers keep working, tasks return and calls complete.  Nobody has to   *)
(* schedule anything or to drop the handle, and no spurious wakeup helps.  *)
(***************************************************************************)
Fairness ==
  /\ \A w \in Worker : WF_vars(Work(w))
  /\ \A th \in Thread : WF_vars(InCall(th))

FairSpec == Spec /\ Fairness

-----------------------------------------------------------------------------
(* Properties.                                                             *)

Queued == {queue[i] : i \in 1 .. Len(queue)}
Executing == {task[w] : w \in Worker} \ {None}
Executed == {t \in Task : ran[t] > 0}

(***************************************************************************)
(* A scheduled task is in exactly one place: queued once, being executed   *)
(* by one worker, or executed once.  None is lost or executed twice,       *)
(* whoever stops the pool and when.                                        *)
(***************************************************************************)
TaskConservation ==
  /\ scheduled = Queued \cup Executing \cup Executed
  /\ Queued \cap Executing = {} /\ (Queued \cup Executing) \cap Executed = {}
  /\ \A i, j \in 1 .. Len(queue) : queue[i] = queue[j] => i = j
  /\ \A v, w \in Worker : task[v] = task[w] => v = w \/ task[v] = None
  /\ \A t \in Task : ran[t] <= 1

(***************************************************************************)
(* Once ~State runs, no other thread uses the State any more: the workers  *)
(* have left their loops for good and nobody is inside schedule().         *)
(***************************************************************************)
Destroying == gone \/ \E th \in Thread : pc[th] \in {"destroy", "join"}

DestroyedUnused ==
  Destroying =>
    /\ holders = {} /\ refs = {}
    /\ \A th \in Thread : pc[th] \in {"destroy", "join", "done"}
    /\ \A th, u \in Thread : pc[th] # "done" /\ pc[u] # "done" => th = u

\* The State is destroyed only when every scheduled task has been executed.
DrainedBeforeDestroy == Destroying => \A t \in scheduled : ran[t] = 1

\* Every scheduled task is executed: no notification is lost.
EveryTaskRuns == \A t \in Task : t \in scheduled ~> ran[t] = 1

(***************************************************************************)
(* When the last owner has gone, the pool winds up: the workers leave and  *)
(* ~State returns, no thread waiting for itself (executor.h 54-60).        *)
(***************************************************************************)
PoolEnds == holders = {} ~> gone
=============================================================================
