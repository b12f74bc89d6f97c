----------------------------- MODULE MPSCSignal -----------------------------
(***************************************************************************)
(* The atomic tier of the signal (include/xsl/coro/signal/core.h,          *)
(* MPSCSignal): one consumer coroutine awaits, any number of producer      *)
(* threads call release() and stop().  One action per atomic access of     *)
(* _state, so that every window between two accesses is open.              *)
(*                                                                         *)
(* The consumer coroutine is the loop of the tests,                        *)
(*     for (i < MaxAwait) { if (!co_await sig) break; permit.release(); }  *)
(* and it runs wherever it is resumed: on the thread that calls fn(h) when *)
(* Worker = {} (NoopExecutor, executor.cpp 18), else on a pool worker.     *)
(* A thread still inside await_suspend may see another thread resume the   *)
(* coroutine (core.h 145-149), so the coroutine's position is kept per     *)
(* thread: run[t].                                                         *)
(***************************************************************************)
EXTENDS Integers, Sequences, FiniteSets

CONSTANTS
  Producer,     \* threads that call release()
  Stopper,      \* threads that call stop(), once each; may also be producers
  Worker,       \* pool workers; {} for the inline executor
  Starter,      \* the thread that starts the coroutine when Worker = {}
  Permit,       \* producers wait for a permit the consumer gives back
  MaxRelease,   \* bound: calls of release() in all
  MaxAwait      \* bound: awaits the consumer performs

ASSUME MPSCAssumption ==
  /\ Starter \notin Producer \cup Stopper \cup Worker
  /\ Worker \cap (Producer \cup Stopper) = {}
  /\ Permit \in BOOLEAN
  /\ MaxRelease \in Nat
  /\ MaxAwait \in Nat \ {0}

IDLE == "IDLE"
SIGNALED == "SIGNALED"
STOPPED == "STOPPED"
WAITING == "WAITING"
State == {IDLE, SIGNALED, STOPPED, WAITING}

Caller == Producer \cup Stopper
Thread == Caller \cup Worker \cup {Starter}

VARIABLES
  state,      \* _state
  pc,         \* pc[p]: where caller p is in release() or stop()
  calls,      \* calls of release() begun
  stops,      \* callers that have called stop()
  run,        \* run[t]: where the coroutine code on thread t is
  old,        \* old[t]: the local `old' of the await_suspend on thread t
  at,         \* at[t]: the await that the coroutine code on t is in
  awaits,     \* awaits the coroutine has begun
  resumes,    \* awaits completed
  wakes,      \* awaits that yielded true
  finished,   \* the coroutine has left its loop
  runq,       \* what the pool has queued: entry points of the coroutine
  permits     \* the permit semaphore

frame == <<awaits, resumes, wakes, finished>>
vars == <<state, pc, calls, stops, run, old, at, frame, runq, permits>>

\* Coroutine code is executing on t; "retract" is await_suspend's tail, run
\* after the handle was published, and no longer counts.
Body == {"ready", "consume", "check", "register", "publish", "resume"}
Running(t) == run[t] \in Body

TypeOK ==
  /\ state \in State
  /\ pc \in [Caller -> {"idle", "release", "restore", "copy", "store", "stop",
                        "stopCopy", "call"}]
  /\ calls \in 0 .. MaxRelease
  /\ stops \subseteq Stopper
  /\ run \in [Thread -> Body \cup {"off", "retract"}]
  /\ old \in [Thread -> State]
  /\ at \in [Thread -> 0 .. MaxAwait]
  /\ awaits \in 1 .. MaxAwait
  /\ resumes \in Nat /\ wakes \in Nat
  /\ finished \in BOOLEAN
  /\ runq \in Seq({"ready", "resume"})
  /\ permits \in Nat

Init ==
  /\ state = IDLE
  /\ pc = [p \in Caller |-> "idle"]
  /\ calls = 0 /\ stops = {}
  /\ run = [t \in Thread |-> IF t = Starter /\ Worker = {} THEN "ready"
                                                          ELSE "off"]
  /\ old = [t \in Thread |-> IDLE]
  /\ at = [t \in Thread |-> 1]
  /\ awaits = 1 /\ resumes = 0 /\ wakes = 0
  /\ finished = FALSE
  /\ runq = IF Worker = {} THEN <<>> ELSE <<"ready">>
  /\ permits = 1

-----------------------------------------------------------------------------
(* The coroutine, on thread t.                                             *)

Go(t, where) == run' = [run EXCEPT ![t] = where]

\* await_ready, first load.
Ready(t) ==
  /\ run[t] = "ready"
  /\ Go(t, IF state = SIGNALED THEN "consume" ELSE "check")
  /\ UNCHANGED <<state, pc, calls, stops, old, at, frame, runq, permits>>

\* await_ready's compare_exchange; it is ready whether or not that succeeds.
Consume(t) ==
  /\ run[t] = "consume"
  /\ state' = IF state = SIGNALED THEN IDLE ELSE state
  /\ Go(t, "resume")
  /\ UNCHANGED <<pc, calls, stops, old, at, frame, runq, permits>>

\* await_ready, second load.
Check(t) ==
  /\ run[t] = "check"
  /\ Go(t, IF state = STOPPED THEN "resume" ELSE "register")
  /\ UNCHANGED <<state, pc, calls, stops, old, at, frame, runq, permits>>

\* await_suspend writes {_resume, _handle}, plain fields.
Register(t) ==
  /\ run[t] = "register"
  /\ Go(t, "publish")
  /\ UNCHANGED <<state, pc, calls, stops, old, at, frame, runq, permits>>

\* Mutant: what the exchange returns is ignored.
PublishIgnoresOld(t) ==
  /\ run[t] = "publish"
  /\ old' = [old EXCEPT ![t] = state]
  /\ state' = WAITING
  /\ Go(t, "off")
  /\ UNCHANGED <<pc, calls, stops, at, frame, runq, permits>>

\* await_suspend's first exchange: suspended if the signal was idle.
Publish(t) ==
  /\ run[t] = "publish"
  /\ old' = [old EXCEPT ![t] = state]
  /\ state' = WAITING
  /\ Go(t, IF state = IDLE THEN "off" ELSE "retract")
  /\ UNCHANGED <<pc, calls, stops, at, frame, runq, permits>>

\* Mutant: the retraction does not look at what it took back.
RetractBlind(t) ==
  /\ run[t] = "retract"
  /\ state' = IF old[t] = STOPPED THEN STOPPED ELSE IDLE
  /\ Go(t, "resume")
  /\ UNCHANGED <<pc, calls, stops, old, at, frame, runq, permits>>

\* await_suspend's second exchange: go on if WAITING was still there.
Retract(t) ==
  /\ run[t] = "retract"
  /\ state' = IF old[t] = STOPPED THEN STOPPED ELSE IDLE
  /\ Go(t, IF state = WAITING THEN "resume" ELSE "off")
  /\ UNCHANGED <<pc, calls, stops, old, at, frame, runq, permits>>

\* await_resume, and the loop around it up to the next await.
Resume(t) ==
  /\ run[t] = "resume"
  /\ resumes' = resumes + 1
  /\ wakes' = IF state # STOPPED THEN wakes + 1 ELSE wakes
  /\ permits' = IF Permit /\ state # STOPPED THEN permits + 1 ELSE permits
  /\ \/ /\ state # STOPPED /\ awaits < MaxAwait
        /\ awaits' = awaits + 1
        /\ at' = [at EXCEPT ![t] = awaits + 1]
        /\ Go(t, "ready")
        /\ UNCHANGED finished
     \/ /\ state = STOPPED \/ awaits = MaxAwait
        /\ finished' = TRUE
        /\ Go(t, "off")
        /\ UNCHANGED <<awaits, at>>
  /\ UNCHANGED <<state, pc, calls, stops, old, runq>>

Coroutine(t) ==
  \/ Ready(t) \/ Consume(t) \/ Check(t) \/ Register(t) \/ Publish(t)
  \/ Retract(t) \/ Resume(t)

-----------------------------------------------------------------------------
(* release() and stop(), by caller p.                                      *)

Step(p, where) == pc' = [pc EXCEPT ![p] = where]

Free(p) == pc[p] = "idle" /\ run[p] = "off"

BeginRelease(p) ==
  /\ p \in Producer /\ Free(p) /\ calls < MaxRelease
  /\ Permit => permits > 0
  /\ permits' = IF Permit THEN permits - 1 ELSE permits
  /\ calls' = calls + 1
  /\ Step(p, "release")
  /\ UNCHANGED <<state, stops, run, old, at, frame, runq>>

\* Mutant: release invokes the continuation whatever it found.
ReleaseExchangeNoBranch(p) ==
  /\ pc[p] = "release"
  /\ state' = SIGNALED
  /\ Step(p, IF state = STOPPED THEN "restore" ELSE "copy")
  /\ UNCHANGED <<calls, stops, run, old, at, frame, runq, permits>>

\* release's exchange and the branch on what it found.
ReleaseExchange(p) ==
  /\ pc[p] = "release"
  /\ state' = SIGNALED
  /\ Step(p, CASE state = WAITING -> "copy"
               [] state = STOPPED -> "restore"
               [] OTHER -> "idle")
  /\ UNCHANGED <<calls, stops, run, old, at, frame, runq, permits>>

\* stop is sticky: put it back.
ReleaseRestore(p) ==
  /\ pc[p] = "restore"
  /\ state' = STOPPED
  /\ Step(p, "idle")
  /\ UNCHANGED <<calls, stops, run, old, at, frame, runq, permits>>

\* Copy {_resume, _handle} to the stack.
ReleaseCopy(p) ==
  /\ pc[p] = "copy"
  /\ Step(p, "store")
  /\ UNCHANGED <<state, calls, stops, run, old, at, frame, runq, permits>>

\* Mutant: the consumed signal is not cleared.
ReleaseStoreMissing(p) ==
  /\ pc[p] = "store"
  /\ Step(p, "call")
  /\ UNCHANGED <<state, calls, stops, run, old, at, frame, runq, permits>>

\* Clear the signal before the continuation runs.
ReleaseStore(p) ==
  /\ pc[p] = "store"
  /\ state' = IDLE
  /\ Step(p, "call")
  /\ UNCHANGED <<calls, stops, run, old, at, frame, runq, permits>>

BeginStop(p) ==
  /\ p \in Stopper \ stops /\ Free(p)
  /\ Step(p, "stop")
  /\ UNCHANGED <<state, calls, stops, run, old, at, frame, runq, permits>>

StopExchange(p) ==
  /\ pc[p] = "stop"
  /\ state' = STOPPED
  /\ stops' = stops \cup {p}
  /\ Step(p, IF state = WAITING THEN "stopCopy" ELSE "idle")
  /\ UNCHANGED <<calls, run, old, at, frame, runq, permits>>

StopCopy(p) ==
  /\ pc[p] = "stopCopy"
  /\ Step(p, "call")
  /\ UNCHANGED <<state, calls, stops, run, old, at, frame, runq, permits>>

\* fn(h): promise.resume -> dispatch -> the executor's schedule.
Call(p) ==
  /\ pc[p] = "call"
  /\ Step(p, "idle")
  /\ IF Worker = {}
       THEN /\ Go(p, "resume")
            /\ at' = [at EXCEPT ![p] = awaits]
            /\ UNCHANGED runq
       ELSE /\ runq' = Append(runq, "resume")
            /\ UNCHANGED <<run, at>>
  /\ UNCHANGED <<state, calls, stops, old, frame, permits>>

InCall(p) ==
  \/ ReleaseExchange(p) \/ ReleaseRestore(p) \/ ReleaseCopy(p)
  \/ ReleaseStore(p) \/ StopExchange(p) \/ StopCopy(p) \/ Call(p)

\* A pool worker takes the oldest queued resumption and runs it.
Take(w) ==
  /\ run[w] = "off" /\ runq # <<>>
  /\ Go(w, Head(runq))
  /\ runq' = Tail(runq)
  /\ at' = [at EXCEPT ![w] = awaits]
  /\ UNCHANGED <<state, pc, calls, stops, old, frame, permits>>

Next ==
  \/ \E t \in Thread : Coroutine(t)
  \/ \E p \in Caller : BeginRelease(p) \/ BeginStop(p) \/ InCall(p)
  \/ \E w \in Worker : Take(w)

Spec == Init /\ [][Next]_vars

(***************************************************************************)
(* Every thread that is inside coroutine code or inside a call keeps       *)
(* running, and an idle worker takes queued work.  Nobody is obliged to    *)
(* call release() or stop().                                               *)
(***************************************************************************)
Fairness ==
  /\ \A t \in Thread : WF_vars(Coroutine(t))
  /\ \A p \in Caller : WF_vars(InCall(p))
  /\ \A w \in Worker : WF_vars(Take(w))

FairSpec == Spec /\ Fairness

-----------------------------------------------------------------------------
(* Properties.                                                             *)

(***************************************************************************)
(* The right to resume is exclusive: at most one thread executes the       *)
(* coroutine's frame, however many release() and stop() calls race.        *)
(***************************************************************************)
SingleRunner ==
  \A t, u \in Thread : Running(t) /\ Running(u) => t = u

(***************************************************************************)
(* {_resume, _handle} are plain fields: no caller copies them while the    *)
(* coroutine writes them.                                                  *)
(***************************************************************************)
FieldsRaceFree ==
  \A t \in Thread, p \in Caller :
    ~ (run[t] = "register" /\ pc[p] \in {"copy", "stopCopy"})

(***************************************************************************)
(* The await that is completed is the one outstanding, and it is completed *)
(* once: whoever continues the coroutine continues it where it stands.     *)
(***************************************************************************)
CompletesOutstanding ==
  \A t \in Thread :
    run[t] = "resume" => at[t] = awaits /\ resumes = awaits - 1

\* Release calls that have reached their exchange.
Effective == calls - Cardinality({p \in Caller : pc[p] = "release"})

\* No await yields true without a release of its own.
NoSpuriousWake == wakes <= Effective

(***************************************************************************)
(* With releases that wait for a permit, as in the stress tests: awaits    *)
(* are completed exactly, and the types hold.                              *)
(***************************************************************************)
Safety == TypeOK /\ CompletesOutstanding /\ NoSpuriousWake

(***************************************************************************)
(* With a permit per release nothing coalesces: as in the stress tests,    *)
(* every release makes an await of its own yield true.                     *)
(***************************************************************************)
EveryReleaseCounts ==
  \A n \in 1 .. MaxRelease : calls >= n ~> wakes >= n

\* stop() wakes the consumer with false: the loop ends.
StopEndsConsumer == (stops # {}) ~> finished

(***************************************************************************)
(* Both tiers are one state machine (core.h 10): with releases that do not *)
(* overlap, the atomic tier implements the single-threaded one.            *)
(***************************************************************************)
Woken ==
  \/ \E p \in Caller : pc[p] \in {"copy", "store", "stopCopy", "call"}
  \/ \E t \in Thread : run[t] \in {"resume", "retract"}
  \/ runq = <<"resume">>

Tier == INSTANCE UnsafeSignal WITH
  state <- IF \/ \E p \in Caller : pc[p] \in {"copy", "store"}
              \/ \E t \in Thread : run[t] = "retract"
             THEN IDLE ELSE state,
  consumer <- IF finished THEN "finished"
              ELSE IF Woken THEN "woken"
              ELSE IF state = WAITING THEN "suspended" ELSE "running",
  released <- Effective

ImplementsUnsafeSignal == Tier!SSpec
=============================================================================
