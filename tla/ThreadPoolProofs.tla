-------------------------- MODULE ThreadPoolProofs --------------------------
(***************************************************************************)
(* The State of the pool is destroyed once and unused, and no task is lost *)
(* or executed twice, for any workers and tasks.                           *)
(***************************************************************************)
EXTENDS ThreadPool, TLAPS

Closing == {"stop", "notifyAll", "release"}
Ending == {"destroy", "join"}

(***************************************************************************)
(* Who owns what: a worker's closure owns the State until the worker drops *)
(* it, the handle until ~ThreadPoolExecutor is through; whoever may call   *)
(* schedule() owns the handle.                                             *)
(***************************************************************************)
Ownership ==
  /\ \A w \in Worker : w \in refs <=> pc[w] \notin Ending \cup {"done"}
  /\ holders # {} => Handle \in refs
  /\ \A th \in Thread : pc[th] \in Closing => holders = {} /\ Handle \in refs
  /\ \A th, u \in Thread :
       pc[th] \in Closing /\ pc[u] \in Closing => th = u
  /\ pc[User] \in {"idle", "notify"} => User \in holders
  /\ pc[User] \notin {"acquire", "waiting", "run", "exit"}
  /\ \A w \in Worker : pc[w] = "notify" => task[w] \in holders
  /\ \A w \in Worker : pc[w] # "idle"

\* ~State runs when nobody owns the State, on one thread.
Destruction ==
  /\ \A th \in Thread : pc[th] \in Ending => refs = {}
  /\ gone => refs = {} /\ \A th \in Thread : pc[th] \notin Ending
  /\ \A th, u \in Thread : pc[th] \in Ending /\ pc[u] \in Ending => th = u
  /\ refs = {} => holders = {}

\* A worker executes a task exactly when it is inside one.
Busy == \A w \in Worker : task[w] \in Task <=> pc[w] \in {"run", "notify"}

OInv == TypeOK /\ Ownership /\ Destruction /\ Busy

(***************************************************************************)
(* A worker leaves its loop when the pool is stopping and the queue empty, *)
(* and then nobody can schedule any more.                                  *)
(***************************************************************************)
Left == {"exit", "destroy", "join", "done"}

Drained ==
  /\ stop => holders = {}
  /\ \A w \in Worker : pc[w] \in Left => stop /\ queue = <<>>

IInv == OInv /\ Drained /\ TaskConservation

-----------------------------------------------------------------------------
LEMMA InitIInv == Init => IInv
<1> SUFFICES ASSUME Init PROVE IInv
  OBVIOUS
<1>1. TypeOK
  <2>1. <<>> \in Seq(Task)
    OBVIOUS
  <2> QED BY <2>1, PoolAssumption DEF Init, TypeOK, Thread, Handle, None
<1>2. Ownership
  BY PoolAssumption DEF Init, Ownership, Thread, Closing, Ending
<1>3. Destruction /\ Busy /\ Drained
  BY PoolAssumption DEF Init, Destruction, Busy, Drained, Thread, Ending, Left,
                        Handle, None
<1>4. TaskConservation
  BY DEF Init, TaskConservation, Queued, Executing, Executed
<1> QED BY <1>1, <1>2, <1>3, <1>4 DEF IInv, OInv

\* Steps that move no task keep them where they are.
LEMMA TasksStay ==
  TaskConservation /\ UNCHANGED <<queue, task, scheduled, ran>>
    => TaskConservation'
BY DEF TaskConservation, Queued, Executing, Executed

LEMMA NotifyOneIInv ==
  ASSUME IInv, NEW th \in Thread, NotifyOne(th)
  PROVE  IInv'
<1> USE PoolAssumption
<1> DEFINE back == [pc EXCEPT ![th] = IF th \in Worker THEN "run" ELSE "idle"]
           Stays(v) == pc'[v] = pc[v]
           Wakes(v) == v \in Worker /\ pc[v] = "waiting" /\ pc'[v] = "acquire"
           Returns(v) ==
             /\ pc[v] = "notify"
             /\ pc'[v] = IF v \in Worker THEN "run" ELSE "idle"
<1>1. TypeOK'
  BY DEF NotifyOne, Goto, Thread, IInv, OInv, Waiting, TypeOK
<1>2. ASSUME NEW v \in Thread
      PROVE  Stays(v) \/ Wakes(v) \/ Returns(v)
  <2>1. pc = [t \in Thread |-> pc[t]] /\ pc[th] = "notify"
    BY DEF IInv, OInv, TypeOK, NotifyOne
  <2>2. CASE pc' = back
    BY <2>1, <2>2
  <2>3. CASE \E w \in Waiting : pc' = [back EXCEPT ![w] = "acquire"]
    <3>1. PICK w \in Waiting : pc' = [back EXCEPT ![w] = "acquire"]
      BY <2>3
    <3>2. w \in Worker /\ w \in Thread /\ pc[w] = "waiting"
      BY DEF Waiting, Thread
    <3>3. CASE v = w
      BY <3>1, <3>2, <3>3, <2>1
    <3>4. CASE v # w
      BY <3>1, <3>4, <2>1
    <3> QED BY <3>3, <3>4
  <2> QED BY <2>2, <2>3 DEF NotifyOne
<1>3. UNCHANGED <<queue, stop, refs, gone, holders, task, scheduled, ran>>
  BY DEF NotifyOne
<1>4. /\ Worker \subseteq Thread /\ User \in Thread /\ User \notin Worker
      /\ TypeOK /\ Ownership /\ Destruction /\ Busy /\ Drained
  BY DEF Thread, IInv, OInv
<1> HIDE DEF back
<1>5. ASSUME NEW v \in Thread
      PROVE  /\ pc'[v] \in Closing <=> pc[v] \in Closing
             /\ pc'[v] \in Ending <=> pc[v] \in Ending
             /\ pc'[v] = "done" <=> pc[v] = "done"
             /\ pc'[v] \in Left <=> pc[v] \in Left
             /\ pc'[v] = "notify" => pc[v] = "notify"
  BY <1>2 DEF Closing, Ending, Left
<1>6. Ownership'
  <2>1. /\ \A w \in Worker : w \in refs' <=> pc'[w] \notin Ending \cup {"done"}
        /\ \A w \in Worker : pc'[w] = "notify" => task'[w] \in holders'
    BY <1>3, <1>4, <1>5 DEF Ownership
  <2>2. /\ holders' # {} => Handle \in refs'
        /\ \A v \in Thread :
             pc'[v] \in Closing => holders' = {} /\ Handle \in refs'
        /\ \A v, u \in Thread :
             pc'[v] \in Closing /\ pc'[u] \in Closing => v = u
    BY <1>3, <1>4, <1>5 DEF Ownership
  <2>3. /\ pc'[User] \in {"idle", "notify"} => User \in holders'
        /\ pc'[User] \notin {"acquire", "waiting", "run", "exit"}
    BY <1>2, <1>3, <1>4 DEF Ownership
  <2>4. \A w \in Worker : pc'[w] # "idle"
    BY <1>2, <1>4 DEF Ownership
  <2> QED BY <2>1, <2>2, <2>3, <2>4 DEF Ownership, Handle, Thread
<1>7. Destruction'
  <2>1. /\ \A v \in Thread : pc'[v] \in Ending => refs' = {}
        /\ gone' => refs' = {} /\ \A v \in Thread : pc'[v] \notin Ending
        /\ \A v, u \in Thread :
             pc'[v] \in Ending /\ pc'[u] \in Ending => v = u
        /\ refs' = {} => holders' = {}
    BY <1>3, <1>4, <1>5 DEF Destruction
  <2> QED BY <2>1 DEF Destruction, Thread
<1>8. Busy'
  <2>1. ASSUME NEW w \in Worker
        PROVE  pc'[w] \in {"run", "notify"} <=> pc[w] \in {"run", "notify"}
    BY <1>2, <1>4
  <2> QED BY <2>1, <1>3, <1>4 DEF Busy
<1>9. Drained'
  <2>1. /\ stop' => holders' = {}
        /\ \A w \in Worker : pc'[w] \in Left => stop' /\ queue' = <<>>
    BY <1>3, <1>4, <1>5 DEF Drained
  <2> QED BY <2>1 DEF Drained
<1>10. TaskConservation'
  BY <1>3, TasksStay DEF IInv
<1> QED BY <1>1, <1>6, <1>7, <1>8, <1>9, <1>10 DEF IInv, OInv

LEMMA WaitIInv ==
  ASSUME IInv, NEW w \in Worker, Wait(w)
  PROVE  IInv'
<1> USE PoolAssumption
<1>1. TypeOK'
  BY DEF Wait, Goto, Thread, IInv, OInv, TypeOK
<1>2. Ownership'
  BY DEF Wait, Goto, Thread, IInv, OInv, TypeOK, Ownership, Destruction, Busy,
         Closing, Ending, Handle
<1>3. Destruction'
  BY DEF Wait, Goto, Thread, IInv, OInv, TypeOK, Ownership, Destruction,
         Closing, Ending, Handle
<1>4. Busy'
  BY DEF Wait, Goto, Thread, IInv, OInv, TypeOK, Ownership, Busy, Closing
<1>5. Drained'
  BY DEF Wait, Goto, Thread, IInv, OInv, TypeOK, Ownership, Destruction,
         Drained, Left, Closing, Ending
<1>6. TaskConservation'
  BY TasksStay DEF Wait, IInv
<1> QED BY <1>1, <1>2, <1>3, <1>4, <1>5, <1>6 DEF IInv, OInv

LEMMA SpuriousWakeupIInv ==
  ASSUME IInv, NEW w \in Worker, SpuriousWakeup(w)
  PROVE  IInv'
<1> USE PoolAssumption
<1>1. TypeOK'
  BY DEF SpuriousWakeup, Goto, Thread, IInv, OInv, TypeOK
<1>2. Ownership'
  BY DEF SpuriousWakeup, Goto, Thread, IInv, OInv, TypeOK, Ownership,
         Destruction, Busy, Closing, Ending, Handle
<1>3. Destruction'
  BY DEF SpuriousWakeup, Goto, Thread, IInv, OInv, TypeOK, Ownership,
         Destruction, Closing, Ending, Handle
<1>4. Busy'
  BY DEF SpuriousWakeup, Goto, Thread, IInv, OInv, TypeOK, Ownership, Busy,
         Closing
<1>5. Drained'
  BY DEF SpuriousWakeup, Goto, Thread, IInv, OInv, TypeOK, Ownership,
         Destruction, Drained, Left, Closing, Ending
<1>6. TaskConservation'
  BY TasksStay DEF SpuriousWakeup, IInv
<1> QED BY <1>1, <1>2, <1>3, <1>4, <1>5, <1>6 DEF IInv, OInv

LEMMA LeaveLoopIInv ==
  ASSUME IInv, NEW w \in Worker, LeaveLoop(w)
  PROVE  IInv'
<1> USE PoolAssumption
<1>1. TypeOK'
  BY DEF LeaveLoop, Goto, Thread, IInv, OInv, TypeOK
<1>2. Ownership'
  BY DEF LeaveLoop, Goto, Thread, IInv, OInv, TypeOK, Ownership, Destruction,
         Busy, Closing, Ending, Handle
<1>3. Destruction'
  BY DEF LeaveLoop, Goto, Thread, IInv, OInv, TypeOK, Ownership, Destruction,
         Closing, Ending, Handle
<1>4. Busy'
  BY DEF LeaveLoop, Goto, Thread, IInv, OInv, TypeOK, Ownership, Busy, Closing
<1>5. Drained'
  BY DEF LeaveLoop, Goto, Thread, IInv, OInv, TypeOK, Ownership, Destruction,
         Drained, Left, Closing, Ending
<1>6. TaskConservation'
  BY TasksStay DEF LeaveLoop, IInv
<1> QED BY <1>1, <1>2, <1>3, <1>4, <1>5, <1>6 DEF IInv, OInv

LEMMA DropClosureIInv ==
  ASSUME IInv, NEW w \in Worker, DropClosure(w)
  PROVE  IInv'
<1> USE PoolAssumption
<1>1. TypeOK'
  BY DEF DropClosure, Goto, Thread, IInv, OInv, TypeOK
<1>2. Ownership'
  BY DEF DropClosure, Goto, Thread, IInv, OInv, TypeOK, Ownership, Destruction,
         Busy, Closing, Ending, Handle
<1>3. Destruction'
  BY DEF DropClosure, Goto, Thread, IInv, OInv, TypeOK, Ownership, Destruction,
         Closing, Ending, Handle
<1>4. Busy'
  BY DEF DropClosure, Goto, Thread, IInv, OInv, TypeOK, Ownership, Busy,
         Closing
<1>5. Drained'
  BY DEF DropClosure, Goto, Thread, IInv, OInv, TypeOK, Ownership, Destruction,
         Drained, Left, Closing, Ending
<1>6. TaskConservation'
  BY TasksStay DEF DropClosure, IInv
<1> QED BY <1>1, <1>2, <1>3, <1>4, <1>5, <1>6 DEF IInv, OInv

LEMMA UserDropsIInv ==
  ASSUME IInv, UserDrops
  PROVE  IInv'
<1> USE PoolAssumption
<1>1. TypeOK'
  BY DEF UserDrops, Goto, Thread, IInv, OInv, TypeOK
<1>2. Ownership'
  BY DEF UserDrops, Goto, Thread, IInv, OInv, TypeOK, Ownership, Destruction,
         Busy, Closing, Ending, Handle
<1>3. Destruction'
  BY DEF UserDrops, Goto, Thread, IInv, OInv, TypeOK, Ownership, Destruction,
         Closing, Ending, Handle
<1>4. Busy'
  BY DEF UserDrops, Goto, Thread, IInv, OInv, TypeOK, Ownership, Busy, Closing
<1>5. Drained'
  BY DEF UserDrops, Goto, Thread, IInv, OInv, TypeOK, Ownership, Destruction,
         Drained, Left, Closing, Ending
<1>6. TaskConservation'
  BY TasksStay DEF UserDrops, IInv
<1> QED BY <1>1, <1>2, <1>3, <1>4, <1>5, <1>6 DEF IInv, OInv

LEMMA SignalStopIInv ==
  ASSUME IInv, NEW th \in Thread, SignalStop(th)
  PROVE  IInv'
<1> USE PoolAssumption
<1>1. TypeOK'
  BY DEF SignalStop, Goto, Thread, IInv, OInv, TypeOK
<1>2. Ownership'
  BY DEF SignalStop, Goto, Thread, IInv, OInv, TypeOK, Ownership, Destruction,
         Busy, Closing, Ending, Handle
<1>3. Destruction'
  BY DEF SignalStop, Goto, Thread, IInv, OInv, TypeOK, Ownership, Destruction,
         Closing, Ending, Handle
<1>4. Busy'
  BY DEF SignalStop, Goto, Thread, IInv, OInv, TypeOK, Ownership, Busy, Closing
<1>5. Drained'
  BY DEF SignalStop, Goto, Thread, IInv, OInv, TypeOK, Ownership, Destruction,
         Drained, Left, Closing, Ending
<1>6. TaskConservation'
  BY TasksStay DEF SignalStop, IInv
<1> QED BY <1>1, <1>2, <1>3, <1>4, <1>5, <1>6 DEF IInv, OInv

LEMMA NotifyAllIInv ==
  ASSUME IInv, NEW th \in Thread, NotifyAll(th)
  PROVE  IInv'
<1> USE PoolAssumption
<1>1. TypeOK'
  BY DEF NotifyAll, Goto, Thread, IInv, OInv, Waiting, TypeOK
<1>2. Ownership'
  BY DEF NotifyAll, Goto, Thread, IInv, OInv, Waiting, TypeOK, Ownership,
         Destruction, Busy, Closing, Ending, Handle
<1>3. Destruction'
  BY DEF NotifyAll, Goto, Thread, IInv, OInv, Waiting, TypeOK, Ownership,
         Destruction, Closing, Ending, Handle
<1>4. Busy'
  BY DEF NotifyAll, Goto, Thread, IInv, OInv, Waiting, TypeOK, Ownership, Busy,
         Closing
<1>5. Drained'
  BY DEF NotifyAll, Goto, Thread, IInv, OInv, Waiting, TypeOK, Ownership,
         Destruction, Drained, Left, Closing, Ending
<1>6. TaskConservation'
  BY TasksStay DEF NotifyAll, IInv
<1> QED BY <1>1, <1>2, <1>3, <1>4, <1>5, <1>6 DEF IInv, OInv

LEMMA ReleaseStateIInv ==
  ASSUME IInv, NEW th \in Thread, ReleaseState(th)
  PROVE  IInv'
<1> USE PoolAssumption
<1>1. TypeOK'
  BY DEF ReleaseState, Goto, Thread, IInv, OInv, TypeOK
<1>2. Ownership'
  BY DEF ReleaseState, Goto, Thread, IInv, OInv, TypeOK, Ownership,
         Destruction, Busy, Closing, Ending, Handle
<1>3. Destruction'
  BY DEF ReleaseState, Goto, Thread, IInv, OInv, TypeOK, Ownership,
         Destruction, Closing, Ending, Handle
<1>4. Busy'
  BY DEF ReleaseState, Goto, Thread, IInv, OInv, TypeOK, Ownership, Busy,
         Closing
<1>5. Drained'
  <2>1. th \in Worker => th \in refs \ {Handle}
    BY DEF ReleaseState, IInv, OInv, Ownership, Ending, Handle
  <2> QED
    BY <2>1 DEF ReleaseState, Goto, Thread, IInv, OInv, TypeOK, Drained, Left
<1>6. TaskConservation'
  BY TasksStay DEF ReleaseState, IInv
<1> QED BY <1>1, <1>2, <1>3, <1>4, <1>5, <1>6 DEF IInv, OInv

LEMMA BeginDestroyIInv ==
  ASSUME IInv, NEW th \in Thread, BeginDestroy(th)
  PROVE  IInv'
<1> USE PoolAssumption
<1>1. TypeOK'
  BY DEF BeginDestroy, Goto, Thread, IInv, OInv, Waiting, TypeOK
<1>2. Ownership'
  BY DEF BeginDestroy, Goto, Thread, IInv, OInv, Waiting, TypeOK, Ownership,
         Destruction, Busy, Closing, Ending, Handle
<1>3. Destruction'
  BY DEF BeginDestroy, Goto, Thread, IInv, OInv, Waiting, TypeOK, Ownership,
         Destruction, Closing, Ending, Handle
<1>4. Busy'
  BY DEF BeginDestroy, Goto, Thread, IInv, OInv, Waiting, TypeOK, Ownership,
         Busy, Closing
<1>5. Drained'
  BY DEF BeginDestroy, Goto, Thread, IInv, OInv, Waiting, TypeOK, Ownership,
         Destruction, Drained, Left, Closing, Ending
<1>6. TaskConservation'
  BY TasksStay DEF BeginDestroy, IInv
<1> QED BY <1>1, <1>2, <1>3, <1>4, <1>5, <1>6 DEF IInv, OInv

LEMMA JoinIInv ==
  ASSUME IInv, NEW th \in Thread, NEW w \in Worker, Join(th, w)
  PROVE  IInv'
<1> USE PoolAssumption
<1>1. TypeOK'
  BY DEF Join, Goto, Thread, IInv, OInv, TypeOK
<1>2. Ownership'
  BY DEF Join, Goto, Thread, IInv, OInv, TypeOK, Ownership, Destruction, Busy,
         Closing, Ending, Handle
<1>3. Destruction'
  BY DEF Join, Goto, Thread, IInv, OInv, TypeOK, Ownership, Destruction,
         Closing, Ending, Handle
<1>4. Busy'
  BY DEF Join, Goto, Thread, IInv, OInv, TypeOK, Ownership, Busy, Closing
<1>5. Drained'
  BY DEF Join, Goto, Thread, IInv, OInv, TypeOK, Ownership, Destruction,
         Drained, Left, Closing, Ending
<1>6. TaskConservation'
  BY TasksStay DEF Join, IInv
<1> QED BY <1>1, <1>2, <1>3, <1>4, <1>5, <1>6 DEF IInv, OInv

LEMMA EndDestroyIInv ==
  ASSUME IInv, NEW th \in Thread, EndDestroy(th)
  PROVE  IInv'
<1> USE PoolAssumption
<1>1. TypeOK'
  BY DEF EndDestroy, Goto, Thread, IInv, OInv, TypeOK
<1>2. Ownership'
  BY DEF EndDestroy, Goto, Thread, IInv, OInv, TypeOK, Ownership, Destruction,
         Busy, Closing, Ending, Handle
<1>3. Destruction'
  BY DEF EndDestroy, Goto, Thread, IInv, OInv, TypeOK, Ownership, Destruction,
         Closing, Ending, Handle
<1>4. Busy'
  BY DEF EndDestroy, Goto, Thread, IInv, OInv, TypeOK, Ownership, Busy, Closing
<1>5. Drained'
  BY DEF EndDestroy, Goto, Thread, IInv, OInv, TypeOK, Ownership, Destruction,
         Drained, Left, Closing, Ending
<1>6. TaskConservation'
  BY TasksStay DEF EndDestroy, IInv
<1> QED BY <1>1, <1>2, <1>3, <1>4, <1>5, <1>6 DEF IInv, OInv

-----------------------------------------------------------------------------
(* The three steps that move a task.                                       *)

LEMMA QueuedAppend ==
  ASSUME NEW q \in Seq(Task), NEW t \in Task
  PROVE  LET r == Append(q, t) IN
         /\ {r[i] : i \in 1 .. Len(r)} = {q[i] : i \in 1 .. Len(q)} \cup {t}
         /\ r # <<>>
         /\ r \in Seq(Task)
<1> DEFINE r == Append(q, t)
<1>1. /\ Len(r) = Len(q) + 1 /\ r[Len(q) + 1] = t /\ r \in Seq(Task)
      /\ \A i \in 1 .. Len(q) : r[i] = q[i]
  OBVIOUS
<1>2. Len(q) \in Nat
  OBVIOUS
<1> HIDE DEF r
<1>3. 1 .. Len(r) = (1 .. Len(q)) \cup {Len(q) + 1}
  BY <1>1, <1>2
<1> QED BY <1>1, <1>2, <1>3 DEF r

LEMMA QueuedTail ==
  ASSUME NEW q \in Seq(Task), q # <<>>,
         \A i, j \in 1 .. Len(q) : q[i] = q[j] => i = j
  PROVE  /\ Head(q) \in Task /\ Tail(q) \in Seq(Task)
         /\ {Tail(q)[i] : i \in 1 .. Len(Tail(q))}
              = {q[i] : i \in 1 .. Len(q)} \ {Head(q)}
         /\ Head(q) \in {q[i] : i \in 1 .. Len(q)}
         /\ \A i, j \in 1 .. Len(Tail(q)) : Tail(q)[i] = Tail(q)[j] => i = j
<1>1. /\ Len(q) \in Nat /\ Len(q) >= 1
      /\ Head(q) = q[1] /\ q[1] \in Task /\ Tail(q) \in Seq(Task)
      /\ Len(Tail(q)) = Len(q) - 1
      /\ \A i \in 1 .. Len(q) - 1 : Tail(q)[i] = q[i + 1]
  OBVIOUS
<1> DEFINE r == Tail(q)
<1>2. /\ Len(r) = Len(q) - 1 /\ \A i \in 1 .. Len(q) - 1 : r[i] = q[i + 1]
  BY <1>1
<1> HIDE DEF r
<1>3. \A i, j \in 1 .. Len(r) : r[i] = r[j] => i = j
  BY <1>1, <1>2
<1>4. \A i \in 2 .. Len(q) : q[i] = r[i - 1] /\ i - 1 \in 1 .. Len(r)
  BY <1>1, <1>2
<1>5. \A i \in 1 .. Len(r) : q[i + 1] # q[1] /\ i + 1 \in 1 .. Len(q)
  BY <1>1, <1>2
<1>6. {r[i] : i \in 1 .. Len(r)} = {q[i] : i \in 1 .. Len(q)} \ {q[1]}
  BY <1>1, <1>2, <1>4, <1>5
<1>7. q[1] \in {q[i] : i \in 1 .. Len(q)}
  BY <1>1
<1>8. {r[i] : i \in 1 .. Len(r)} = {q[i] : i \in 1 .. Len(q)} \ {Head(q)}
  BY <1>1, <1>6
<1> QED BY <1>1, <1>3, <1>7, <1>8 DEF r

LEMMA ScheduleIInv ==
  ASSUME IInv, NEW th \in Thread, NEW t \in Task, Schedule(th, t)
  PROVE  IInv'
<1> USE PoolAssumption
<1>1. queue \in Seq(Task) /\ holders # {}
  BY DEF IInv, OInv, TypeOK, Schedule, MayCall
<1>2. TypeOK'
  <2>1. queue' \in Seq(Task)
    BY <1>1 DEF Schedule
  <2> QED BY <2>1 DEF Schedule, Goto, Thread, IInv, OInv, TypeOK
<1>3. Ownership'
  BY <1>1 DEF Schedule, MayCall, Goto, Thread, IInv, OInv, TypeOK, Ownership,
              Closing, Ending
<1>4. Destruction'
  BY <1>1 DEF Schedule, MayCall, Goto, Thread, IInv, OInv, TypeOK, Destruction,
              Ending
<1>5. Busy'
  BY DEF Schedule, MayCall, Goto, Thread, IInv, OInv, TypeOK, Busy
<1>6. Drained'
  <2>1. ~ stop
    BY <1>1 DEF IInv, Drained
  <2> QED
    BY <2>1 DEF Schedule, MayCall, Goto, Thread, IInv, OInv, TypeOK, Drained,
                Left
<1>7. TaskConservation'
  <2>1. Queued' = Queued \cup {t}
    BY <1>1, QueuedAppend DEF Schedule, Queued
  <2>2. Executing' = Executing /\ Executed' = Executed
    BY DEF Schedule, Executing, Executed
  <2>3. t \notin scheduled /\ scheduled' = scheduled \cup {t}
    BY DEF Schedule
  <2>4. t \notin Queued \cup Executing \cup Executed
    BY <2>3 DEF IInv, TaskConservation
  <2>5. \A i, j \in 1 .. Len(queue') : queue'[i] = queue'[j] => i = j
    <3>1. \A i \in 1 .. Len(queue) : queue[i] # t
      BY <2>4 DEF Queued
    <3> QED BY <1>1, <3>1 DEF Schedule, IInv, TaskConservation
  <2> QED
    BY <2>1, <2>2, <2>3, <2>4, <2>5 DEF Schedule, IInv, TaskConservation
<1> QED BY <1>2, <1>3, <1>4, <1>5, <1>6, <1>7 DEF IInv, OInv

LEMMA TakeTaskIInv ==
  ASSUME IInv, NEW w \in Worker, TakeTask(w)
  PROVE  IInv'
<1> USE PoolAssumption
<1>1. /\ queue \in Seq(Task) /\ queue # <<>>
      /\ \A i, j \in 1 .. Len(queue) : queue[i] = queue[j] => i = j
  BY DEF IInv, OInv, TypeOK, TakeTask, TaskConservation
<1>2. Head(queue) \in Task /\ Tail(queue) \in Seq(Task)
  BY <1>1, QueuedTail
<1>3. TypeOK'
  BY <1>2 DEF TakeTask, Goto, Thread, IInv, OInv, TypeOK
<1>4. Ownership'
  BY DEF TakeTask, Goto, Thread, IInv, OInv, TypeOK, Ownership, Closing, Ending
<1>5. Destruction' /\ Drained'
  BY <1>1 DEF TakeTask, Goto, Thread, IInv, OInv, TypeOK, Destruction, Drained,
              Ending, Left
<1>6. Busy'
  BY <1>2 DEF TakeTask, Goto, Thread, IInv, OInv, TypeOK, Busy
<1>7. TaskConservation'
  <2>1. Queued' = Queued \ {Head(queue)} /\ Head(queue) \in Queued
    <3>1. /\ {Tail(queue)[i] : i \in 1 .. Len(Tail(queue))}
               = {queue[i] : i \in 1 .. Len(queue)} \ {Head(queue)}
          /\ Head(queue) \in {queue[i] : i \in 1 .. Len(queue)}
      BY <1>1, QueuedTail, Zenon
    <3>2. queue' = Tail(queue)
      BY DEF TakeTask
    <3> QED BY <3>1, <3>2, Zenon DEF Queued
  <2>2. task[w] \notin Task /\ task[w] = None
    BY DEF TakeTask, IInv, OInv, TypeOK, Busy
  <2>3. Executing' = Executing \cup {Head(queue)}
    <3>1. task' = [v \in Worker |-> IF v = w THEN Head(queue) ELSE task[v]]
      BY DEF TakeTask, IInv, OInv, TypeOK
    <3> QED BY <1>2, <2>2, <3>1 DEF Executing, None
  <2>4. Executed' = Executed /\ scheduled' = scheduled /\ ran' = ran
    BY DEF TakeTask, Executed
  <2>5. \A i, j \in 1 .. Len(queue') : queue'[i] = queue'[j] => i = j
    BY <1>1, QueuedTail DEF TakeTask
  <2>6. \A v, u \in Worker : task'[v] = task'[u] => v = u \/ task'[v] = None
    <3>1. \A v \in Worker : task[v] # Head(queue)
      BY <1>2, <2>1 DEF IInv, TaskConservation, Executing, None
    <3> QED BY <3>1 DEF TakeTask, IInv, OInv, TypeOK, TaskConservation
  <2> QED
    BY <2>1, <2>3, <2>4, <2>5, <2>6 DEF IInv, TaskConservation
<1> QED BY <1>3, <1>4, <1>5, <1>6, <1>7 DEF IInv, OInv

LEMMA FinishTaskIInv ==
  ASSUME IInv, NEW w \in Worker, FinishTask(w)
  PROVE  IInv'
<1> USE PoolAssumption
<1>1. task[w] \in Task /\ pc[w] = "run"
  BY DEF FinishTask, IInv, OInv, Busy
<1>2. \A v \in Worker \ {w} : task[v] # task[w]
  BY <1>1 DEF IInv, TaskConservation, None
<1>3. TypeOK'
  BY <1>1 DEF FinishTask, Goto, Thread, IInv, OInv, TypeOK
<1>4. Ownership'
  BY <1>1, <1>2 DEF FinishTask, Goto, Thread, IInv, OInv, TypeOK, Ownership,
                    Closing, Ending
<1>5. Destruction' /\ Drained'
  BY <1>1 DEF FinishTask, Goto, Thread, IInv, OInv, TypeOK, Destruction,
              Drained, Ending, Left
<1>6. Busy'
  BY <1>1 DEF FinishTask, Goto, Thread, IInv, OInv, TypeOK, Busy, None
<1>7. TaskConservation'
  <2>1. task' = [v \in Worker |-> IF v = w THEN None ELSE task[v]]
    BY DEF FinishTask, IInv, OInv, TypeOK
  <2>2. Executing' = Executing \ {task[w]} /\ task[w] \in Executing
    BY <1>1, <1>2, <2>1 DEF Executing, None
  <2>3. ran' = [t \in Task |-> IF t = task[w] THEN ran[t] + 1 ELSE ran[t]]
    BY <1>1 DEF FinishTask, IInv, OInv, TypeOK
  <2>4. ran[task[w]] = 0 /\ \A t \in Task : ran[t] \in Nat
    BY <1>1, <2>2 DEF IInv, OInv, TypeOK, TaskConservation, Executed
  <2>5. Executed' = Executed \cup {task[w]}
    BY <1>1, <2>3, <2>4 DEF Executed
  <2>6. Queued' = Queued /\ queue' = queue /\ scheduled' = scheduled
    BY DEF FinishTask, Queued
  <2>7. \A t \in Task : ran'[t] <= 1
    BY <2>3, <2>4 DEF IInv, TaskConservation
  <2>8. \A v, u \in Worker : task'[v] = task'[u] => v = u \/ task'[v] = None
    BY <2>1 DEF IInv, TaskConservation
  <2> QED
    BY <2>2, <2>5, <2>6, <2>7, <2>8 DEF IInv, TaskConservation
<1> QED BY <1>3, <1>4, <1>5, <1>6, <1>7 DEF IInv, OInv

-----------------------------------------------------------------------------
\* The inductive invariant holds of the pool.
THEOREM Invariance == Spec => []IInv
<1>1. IInv /\ [Next]_vars => IInv'
  <2> SUFFICES ASSUME IInv, [Next]_vars PROVE IInv'
    OBVIOUS
  <2>1. CASE UNCHANGED vars
    <3>1. TypeOK' /\ Busy' /\ Drained'
      BY <2>1 DEF vars, IInv, OInv, TypeOK, Busy, Drained
    <3>2. Ownership' /\ Destruction'
      BY <2>1 DEF vars, IInv, OInv, Ownership, Destruction
    <3>3. TaskConservation'
      BY <2>1, TasksStay DEF vars, IInv
    <3> QED BY <3>1, <3>2, <3>3 DEF IInv, OInv
  <2>2. CASE \E w \in Worker : Work(w) \/ SpuriousWakeup(w)
    BY <2>2, WaitIInv, TakeTaskIInv, LeaveLoopIInv, FinishTaskIInv,
       DropClosureIInv, SpuriousWakeupIInv DEF Work
  <2>3. CASE \E th \in Thread : InCall(th)
    BY <2>3, NotifyOneIInv, SignalStopIInv, NotifyAllIInv, ReleaseStateIInv,
       BeginDestroyIInv, EndDestroyIInv, JoinIInv DEF InCall
  <2>4. CASE \E th \in Thread : \E t \in Task : Schedule(th, t)
    BY <2>4, ScheduleIInv
  <2>5. CASE UserDrops
    BY <2>5, UserDropsIInv
  <2> QED BY <2>1, <2>2, <2>3, <2>4, <2>5 DEF Next
<1> QED BY <1>1, InitIInv, PTL DEF Spec

(***************************************************************************)
(* No task is lost or executed twice, whoever stops the pool and when, for *)
(* any number of workers and tasks (executor.cpp 57-68, 86-92).            *)
(***************************************************************************)
THEOREM TaskConservationHolds == Spec => []TaskConservation
<1>1. IInv => TaskConservation
  BY DEF IInv
<1> QED BY <1>1, Invariance, PTL

(***************************************************************************)
(* ~State runs on one thread, when no other thread uses the State and      *)
(* nobody can schedule any more (executor.cpp 35-49, executor.h 54-60).    *)
(***************************************************************************)
THEOREM DestroyedUnusedHolds == Spec => []DestroyedUnused
<1>1. IInv => DestroyedUnused
  <2> SUFFICES ASSUME IInv, Destroying PROVE DestroyedUnused
    BY DEF DestroyedUnused
  <2>1. refs = {} /\ holders = {}
    BY DEF IInv, OInv, Destruction, Destroying, Ending
  <2>2. \A w \in Worker : pc[w] \in Ending \cup {"done"}
    BY <2>1 DEF IInv, OInv, Ownership
  <2>3. pc[User] \in Ending \cup {"done"}
    BY <2>1 DEF IInv, OInv, TypeOK, Ownership, Thread, Closing, Ending
  <2>4. \A th \in Thread : pc[th] \in {"destroy", "join", "done"}
    BY <2>2, <2>3 DEF Thread, Ending
  <2>5. \A th, u \in Thread : pc[th] # "done" /\ pc[u] # "done" => th = u
    BY <2>4 DEF IInv, OInv, Destruction, Ending
  <2> QED BY <2>1, <2>4, <2>5 DEF DestroyedUnused
<1> QED BY <1>1, Invariance, PTL

(***************************************************************************)
(* The State is destroyed only after every scheduled task was executed:    *)
(* workers drain the queue before they leave (executor.cpp 61).            *)
(***************************************************************************)
THEOREM DrainedBeforeDestroyHolds == Spec => []DrainedBeforeDestroy
<1>1. IInv => DrainedBeforeDestroy
  <2> SUFFICES ASSUME IInv, Destroying PROVE \A t \in scheduled : ran[t] = 1
    BY DEF DrainedBeforeDestroy
  <2>1. refs = {}
    BY DEF IInv, OInv, Destruction, Destroying, Ending
  <2>2. \A w \in Worker : pc[w] \in Ending \cup {"done"}
    BY <2>1 DEF IInv, OInv, Ownership
  <2>3. queue = <<>> /\ Executing = {}
    BY <2>2, WorkersAssumption
       DEF IInv, OInv, TypeOK, Drained, Busy, Left, Ending, Executing
  <2>4. scheduled = Executed
    BY <2>3 DEF IInv, TaskConservation, Queued
  <2> QED
    BY <2>4 DEF IInv, OInv, TypeOK, TaskConservation, Executed
<1> QED BY <1>1, Invariance, PTL
=============================================================================
