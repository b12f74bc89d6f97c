-------------------------- MODULE MPSCSignalProofs --------------------------
(***************************************************************************)
(* The right to resume the consumer is exclusive, for any number of        *)
(* producers and stoppers and any executor.                                *)
(*                                                                         *)
(* The right is a token that is in at most one of four places: with the    *)
(* thread that runs the coroutine, in the word _state (WAITING), with the  *)
(* caller that exchanged WAITING out of it, or in the pool's queue.        *)
(*                                                                         *)
(* With a permit for every release and no stop, the permit is in one place *)
(* as well, and the word follows from where the threads are (PInv).  So    *)
(* every release completes one await, and the atomic tier implements the   *)
(* single-threaded one.                                                    *)
(***************************************************************************)
EXTENDS MPSCSignal, FiniteSetTheorems, TLAPS

\* Caller p has taken WAITING and not yet invoked the continuation.
Owns(p) == pc[p] \in {"copy", "store", "stopCopy", "call"}

OneRunner == \A t, u \in Thread : Running(t) /\ Running(u) => t = u
OneOwner == \A p, q \in Caller : Owns(p) /\ Owns(q) => p = q
RunnerOrOwner == \A t \in Thread, p \in Caller : ~ (Running(t) /\ Owns(p))

\* A token in the word or in the queue is with no thread.
Parked == (\A t \in Thread : ~ Running(t)) /\ (\A p \in Caller : ~ Owns(p))

Token ==
  /\ OneRunner /\ OneOwner /\ RunnerOrOwner
  /\ state = WAITING => Parked /\ runq = <<>>
  /\ runq # <<>> => Parked
  /\ Len(runq) <= 1

\* What the token argument needs to know of the types.
Types ==
  /\ run \in [Thread -> Body \cup {"off", "retract"}]
  /\ pc \in [Caller -> {"idle", "release", "restore", "copy", "store", "stop",
                        "stopCopy", "call"}]
  /\ runq \in Seq({"ready", "resume"})

IInv == Types /\ Token

-----------------------------------------------------------------------------
LEMMA InitIInv == Init => IInv
<1> SUFFICES ASSUME Init PROVE IInv
  OBVIOUS
<1>1. Types
  <2>1. <<>> \in Seq({"ready", "resume"}) /\ <<"ready">> \in Seq({"ready", "resume"})
    OBVIOUS
  <2>2. runq \in Seq({"ready", "resume"})
    BY <2>1 DEF Init
  <2> QED BY <2>2 DEF Init, Types, Body
<1>2. \A p \in Caller : ~ Owns(p)
  BY DEF Init, Owns
<1>3. \A t \in Thread : Running(t) => t = Starter /\ Worker = {}
  BY DEF Init, Running, Body
<1>4. state # WAITING
  BY DEF Init, IDLE, WAITING
<1>5. Len(runq) <= 1 /\ (runq # <<>> => Worker # {})
  BY DEF Init
<1> QED
  BY <1>1, <1>2, <1>3, <1>4, <1>5
     DEF IInv, Token, OneRunner, OneOwner, RunnerOrOwner, Parked

\* A coroutine step that neither takes nor gives the token away.
LEMMA KeepRunning ==
  ASSUME IInv, NEW t \in Thread, NEW where \in Body,
         Running(t), run' = [run EXCEPT ![t] = where],
         state' # WAITING \/ state' = state, pc' = pc, runq' = runq
  PROVE  IInv'
<1>1. Types'
  BY DEF IInv, Types
<1>2. \A u \in Thread : Running(u)' <=> Running(u)
  BY DEF IInv, Types, Running
<1>3. \A p \in Caller : Owns(p)' <=> Owns(p)
  BY DEF Owns
<1> QED
  BY <1>1, <1>2, <1>3
     DEF IInv, Token, OneRunner, OneOwner, RunnerOrOwner, Parked

LEMMA CoroutineIInv ==
  ASSUME IInv, NEW t \in Thread, Coroutine(t)
  PROVE  IInv'
<1>1. CASE Ready(t) \/ Check(t) \/ Register(t)
  <2>1. PICK where \in Body : run' = [run EXCEPT ![t] = where]
    BY <1>1 DEF Ready, Check, Register, Go, Body
  <2>2. Running(t)
    BY <1>1 DEF Ready, Check, Register, Running, Body
  <2> QED BY <1>1, <2>1, <2>2, KeepRunning DEF Ready, Check, Register
<1>2. CASE Consume(t)
  <2>1. Running(t) /\ "resume" \in Body
    BY <1>2 DEF Consume, Running, Body
  <2> QED BY <1>2, <2>1, KeepRunning DEF Consume, Go, IDLE, WAITING
<1>3. CASE Publish(t)
  <2>1. Running(t)
    BY <1>3 DEF Publish, Running, Body
  <2>2. \A u \in Thread : u # t => ~ Running(u)
    BY <2>1 DEF IInv, Token, OneRunner
  <2>3. \A p \in Caller : ~ Owns(p)
    BY <2>1 DEF IInv, Token, RunnerOrOwner
  <2>4. runq = <<>>
    BY <2>1 DEF IInv, Token, Parked
  <2>5. Types'
    BY <1>3 DEF Publish, Go, IInv, Types
  <2>6. \A u \in Thread : ~ Running(u)'
    BY <1>3, <2>2 DEF Publish, Go, IInv, Types, Running, Body
  <2>7. \A p \in Caller : ~ Owns(p)'
    BY <1>3, <2>3 DEF Publish, Owns
  <2>8. runq' = <<>> /\ Len(runq') <= 1
    BY <1>3, <2>4 DEF Publish
  <2> QED
    BY <2>5, <2>6, <2>7, <2>8
       DEF IInv, Token, OneRunner, OneOwner, RunnerOrOwner, Parked
<1>4. CASE Retract(t)
  <2>1. Types' /\ state' # WAITING
    BY <1>4 DEF Retract, Go, IInv, Types, Body, STOPPED, IDLE, WAITING
  <2>2. \A u \in Thread : Running(u)' <=> (Running(u) \/ (u = t /\ state = WAITING))
    BY <1>4 DEF Retract, Go, IInv, Types, Running, Body
  <2>3. \A p \in Caller : Owns(p)' <=> Owns(p)
    BY <1>4 DEF Retract, Owns
  <2>4. runq' = runq
    BY <1>4 DEF Retract
  <2> QED
    BY <2>1, <2>2, <2>3, <2>4
       DEF IInv, Token, OneRunner, OneOwner, RunnerOrOwner, Parked
<1>5. CASE Resume(t)
  <2>1. Types' /\ state' = state /\ runq' = runq
    BY <1>5 DEF Resume, Go, IInv, Types, Body
  <2>2. \A u \in Thread : Running(u)' => Running(u)
    BY <1>5 DEF Resume, Go, IInv, Types, Running, Body
  <2>3. \A p \in Caller : Owns(p)' <=> Owns(p)
    BY <1>5 DEF Resume, Owns
  <2> QED
    BY <2>1, <2>2, <2>3
       DEF IInv, Token, OneRunner, OneOwner, RunnerOrOwner, Parked
<1> QED BY <1>1, <1>2, <1>3, <1>4, <1>5 DEF Coroutine

\* A caller's step outside Call: the token moves only if WAITING was taken.
LEMMA CallerStep ==
  ASSUME IInv, NEW p \in Caller,
         Types', state' # WAITING \/ state' = state,
         run' = run, runq' = runq,
         \A q \in Caller : Owns(q)' =>
            Owns(q) \/ (q = p /\ state = WAITING /\ state' # WAITING)
  PROVE  IInv'
<1>1. \A u \in Thread : Running(u)' <=> Running(u)
  BY DEF Running
<1> QED
  BY <1>1 DEF IInv, Token, OneRunner, OneOwner, RunnerOrOwner, Parked

LEMMA CallerIInv ==
  ASSUME IInv, NEW p \in Caller,
         BeginRelease(p) \/ BeginStop(p) \/ InCall(p)
  PROVE  IInv'
<1>1. CASE BeginRelease(p) \/ BeginStop(p)
  <2>1. Types' /\ \A q \in Caller : Owns(q)' => Owns(q)
    BY <1>1 DEF BeginRelease, BeginStop, Step, IInv, Types, Owns
  <2> QED BY <1>1, <2>1, CallerStep DEF BeginRelease, BeginStop
<1>2. CASE ReleaseExchange(p) \/ StopExchange(p)
  <2>1. Types' /\ state' # WAITING
    BY <1>2 DEF ReleaseExchange, StopExchange, Step, IInv, Types,
                SIGNALED, STOPPED, WAITING
  <2>2. \A q \in Caller : Owns(q)' => Owns(q) \/ (q = p /\ state = WAITING)
    BY <1>2 DEF ReleaseExchange, StopExchange, Step, IInv, Types, Owns,
                STOPPED, WAITING
  <2> QED BY <1>2, <2>1, <2>2, CallerStep DEF ReleaseExchange, StopExchange
<1>3. CASE ReleaseRestore(p) \/ ReleaseCopy(p) \/ ReleaseStore(p) \/ StopCopy(p)
  <2>1. Types' /\ (state' # WAITING \/ state' = state)
    BY <1>3 DEF ReleaseRestore, ReleaseCopy, ReleaseStore, StopCopy, Step,
                IInv, Types, STOPPED, IDLE, WAITING
  <2>2. \A q \in Caller : Owns(q)' => Owns(q)
    BY <1>3 DEF ReleaseRestore, ReleaseCopy, ReleaseStore, StopCopy, Step,
                IInv, Types, Owns
  <2> QED
    BY <1>3, <2>1, <2>2, CallerStep
       DEF ReleaseRestore, ReleaseCopy, ReleaseStore, StopCopy
<1>4. CASE Call(p)
  <2>1. Owns(p)
    BY <1>4 DEF Call, Owns
  <2>2. /\ \A q \in Caller : q # p => ~ Owns(q)
        /\ \A u \in Thread : ~ Running(u)
        /\ state # WAITING /\ runq = <<>>
    BY <2>1 DEF IInv, Token, OneOwner, RunnerOrOwner, Parked
  <2>3. \A q \in Caller : ~ Owns(q)'
    BY <1>4, <2>2 DEF Call, Step, IInv, Types, Owns
  <2>4. state' # WAITING
    BY <1>4, <2>2 DEF Call
  <2>5. p \in Thread
    BY DEF Thread
  <2>6. CASE Worker = {}
    <3>1. Types' /\ runq' = <<>>
      BY <1>4, <2>2, <2>6 DEF Call, Go, Step, IInv, Types, Body
    <3>2. \A u \in Thread : Running(u)' => u = p
      BY <1>4, <2>2, <2>6 DEF Call, Go, IInv, Types, Running
    <3> QED
      BY <2>3, <2>4, <3>1, <3>2
         DEF IInv, Token, OneRunner, OneOwner, RunnerOrOwner, Parked
  <2>7. CASE Worker # {}
    <3>1. runq' = <<"resume">> /\ Len(runq') = 1
      BY <1>4, <2>2, <2>7 DEF Call
    <3>2. Types'
      BY <1>4, <2>7, <3>1 DEF Call, Step, IInv, Types
    <3>3. \A u \in Thread : ~ Running(u)'
      BY <1>4, <2>2, <2>7 DEF Call, Running
    <3> QED
      BY <2>3, <2>4, <3>1, <3>2, <3>3
         DEF IInv, Token, OneRunner, OneOwner, RunnerOrOwner, Parked
  <2> QED BY <2>6, <2>7
<1> QED BY <1>1, <1>2, <1>3, <1>4 DEF InCall

LEMMA TakeIInv ==
  ASSUME IInv, NEW w \in Worker, Take(w)
  PROVE  IInv'
<1>1. w \in Thread
  BY DEF Thread
<1>2. Parked /\ Len(runq) = 1 /\ state # WAITING
  <2>1. Len(runq) \in Nat /\ Len(runq) # 0
    BY DEF Take, IInv, Types
  <2>2. Len(runq) = 1
    <3>1. Len(runq) <= 1
      BY DEF IInv, Token
    <3>2. \A n \in Nat : n # 0 /\ n <= 1 => n = 1
      OBVIOUS
    <3> QED BY <2>1, <3>1, <3>2, Zenon
  <2>3. Parked /\ state # WAITING
    BY DEF Take, IInv, Token
  <2> QED BY <2>2, <2>3
<1>3. Head(runq) \in {"ready", "resume"} /\ runq' = <<>> /\ Len(runq') <= 1
  BY <1>2 DEF Take, IInv, Types
<1>4. Types'
  BY <1>1, <1>3 DEF Take, Go, IInv, Types, Body
<1>5. \A u \in Thread : Running(u)' => u = w
  BY <1>1, <1>2 DEF Take, Go, IInv, Types, Running, Parked
<1>6. \A p \in Caller : ~ Owns(p)'
  BY <1>2 DEF Take, Owns, Parked
<1>7. state' # WAITING
  BY <1>2 DEF Take
<1> QED
  BY <1>3, <1>4, <1>5, <1>6, <1>7
     DEF IInv, Token, OneRunner, OneOwner, RunnerOrOwner, Parked

(***************************************************************************)
(* The token is in at most one place in every reachable state.             *)
(***************************************************************************)
THEOREM TokenInvariant == Spec => []IInv
<1>1. IInv /\ [Next]_vars => IInv'
  <2> SUFFICES ASSUME IInv, [Next]_vars PROVE IInv'
    OBVIOUS
  <2>1. CASE Next
    BY <2>1, CoroutineIInv, CallerIInv, TakeIInv DEF Next
  <2>2. CASE UNCHANGED vars
    BY <2>2 DEF vars, IInv, Types, Token, OneRunner, OneOwner, RunnerOrOwner,
                Parked, Running, Owns
  <2> QED BY <2>1, <2>2
<1> QED BY <1>1, InitIInv, PTL DEF Spec

(***************************************************************************)
(* However many release() and stop() calls race (core.h 112-116), no two   *)
(* threads ever execute the coroutine's frame at once.                     *)
(***************************************************************************)
THEOREM SingleRunnerHolds == Spec => []SingleRunner
<1>1. IInv => SingleRunner
  BY DEF IInv, Token, OneRunner, SingleRunner
<1> QED BY <1>1, TokenInvariant, PTL

(***************************************************************************)
(* The continuation fields are never copied while they are written         *)
(* (core.h 140-144 against 170-171 and 180-181).                           *)
(***************************************************************************)
THEOREM FieldsRaceFreeHolds == Spec => []FieldsRaceFree
<1>1. IInv => FieldsRaceFree
  BY DEF IInv, Token, RunnerOrOwner, FieldsRaceFree, Running, Body, Owns
<1> QED BY <1>1, TokenInvariant, PTL

-----------------------------------------------------------------------------
(* Releases that wait for a permit.                                        *)

\* Caller p is inside release(), or a continuation it woke is about to run.
Calling(p) == pc[p] # "idle"
\* Thread t consumes a signal, or completes the await the signal ends.
Waking(t) == run[t] \in {"consume", "retract", "resume"}
\* The coroutine is on thread t, the tail of await_suspend included.
Inside(t) == run[t] # "off"
QueuedWake == runq = <<"resume">>

OneCall == \A p, q \in Caller : Calling(p) /\ Calling(q) => p = q
OneWaker == \A t, u \in Thread : Waking(t) /\ Waking(u) => t = u
CallOrWaker == \A p \in Caller, t \in Thread : ~ (Calling(p) /\ Waking(t))
Quiet == (\A p \in Caller : ~ Calling(p)) /\ (\A t \in Thread : ~ Waking(t))

\* What the word holds while the permit is with a caller or a waker.
CallerWord ==
  \A p \in Caller :
    /\ pc[p] \in {"idle", "release", "copy", "store", "call"}
    /\ pc[p] = "release" => state \in {IDLE, WAITING}
    /\ pc[p] \in {"copy", "store"} => state = SIGNALED
    /\ pc[p] = "call" => state = IDLE
WakerWord ==
  \A t \in Thread :
    /\ run[t] = "consume" => state = SIGNALED
    /\ run[t] = "retract" => state = WAITING /\ old[t] = SIGNALED
    /\ run[t] = "resume" => state = IDLE

\* The permit is in one place: the semaphore, a caller, the word, the queue or
\* the thread that completes the await.
OnePermit ==
  /\ OneCall /\ OneWaker /\ CallOrWaker
  /\ QueuedWake => Quiet /\ state = IDLE
  /\ permits = 1 => Quiet /\ state # SIGNALED /\ ~ QueuedWake
  /\ permits \in {0, 1}

\* Nothing is left of the coroutine once its loop has ended.
Over == finished => Parked /\ runq = <<>> /\ state # WAITING /\ \A t \in Thread : ~ Inside(t)

\* Every await is ended by a release of its own.
Tally ==
  /\ wakes = resumes /\ calls + permits = resumes + 1
  /\ resumes = IF finished THEN awaits ELSE awaits - 1
  /\ \A t \in Thread : Inside(t) => at[t] = awaits

PInv ==
  /\ TypeOK /\ state # STOPPED
  /\ CallerWord /\ WakerWord /\ OnePermit /\ Over /\ Tally

\* While the coroutine runs on t, nobody else is in it and no caller has woken it.
LEMMA RunnerAlone ==
  ASSUME IInv, PInv, NEW t \in Thread, Running(t)
  PROVE  /\ \A u \in Thread \ {t} : run[u] = "off"
         /\ \A p \in Caller : pc[p] \in {"idle", "release"}
         /\ \A p \in Caller : pc[p] = "release" => state = IDLE
         /\ state \in {IDLE, SIGNALED} /\ runq = <<>> /\ ~ finished
         /\ at[t] = awaits /\ resumes = awaits - 1
<1>1. state # WAITING /\ runq = <<>>
  BY DEF IInv, Token, Parked
<1>2. state \in {IDLE, SIGNALED}
  BY <1>1 DEF PInv, TypeOK, State
<1>3. \A p \in Caller : pc[p] \in {"idle", "release"}
  BY DEF PInv, CallerWord, IInv, Token, RunnerOrOwner, Owns
<1>4. \A p \in Caller : pc[p] = "release" => state = IDLE
  BY <1>1 DEF PInv, CallerWord
<1>5. \A u \in Thread \ {t} : run[u] = "off"
  BY <1>1 DEF IInv, Token, OneRunner, Types, Running, PInv, WakerWord
<1>6. run[t] # "off"
  BY DEF Running, Body
<1>7. ~ finished /\ at[t] = awaits
  BY <1>6 DEF PInv, Over, Tally, Inside
<1>8. resumes = awaits - 1
  BY <1>7 DEF PInv, Tally
<1> QED BY <1>1, <1>2, <1>3, <1>4, <1>5, <1>7, <1>8

\* A caller that has woken the coroutine is alone with it.
LEMMA OwnerAlone ==
  ASSUME IInv, PInv, NEW p \in Caller, Owns(p)
  PROVE  /\ \A u \in Thread : run[u] = "off"
         /\ \A q \in Caller \ {p} : pc[q] = "idle"
         /\ state = (IF pc[p] = "call" THEN IDLE ELSE SIGNALED) /\ runq = <<>> /\ ~ finished
         /\ permits = 0 /\ resumes = awaits - 1
<1>1. state # WAITING /\ runq = <<>>
  BY DEF IInv, Token, Parked
<1>2. \A u \in Thread : ~ Running(u)
  BY DEF IInv, Token, RunnerOrOwner
<1>3. \A u \in Thread : run[u] = "off"
  BY <1>1, <1>2 DEF IInv, Types, Running, PInv, WakerWord
<1>4. state = IF pc[p] = "call" THEN IDLE ELSE SIGNALED
  BY DEF PInv, CallerWord, Owns
<1>5. Calling(p)
  BY DEF Owns, Calling
<1>6. \A q \in Caller \ {p} : pc[q] = "idle"
  BY <1>5 DEF PInv, OnePermit, OneCall, Calling
<1>7. permits = 0
  BY <1>5 DEF PInv, OnePermit, Quiet
<1>8. ~ finished
  BY DEF PInv, Over, Parked
<1>9. resumes = awaits - 1
  BY <1>8 DEF PInv, Tally
<1> QED BY <1>1, <1>3, <1>4, <1>6, <1>7, <1>8, <1>9

LEMMA InitPInv == Init => PInv
<1> SUFFICES ASSUME Init PROVE PInv
  OBVIOUS
<1> USE MPSCAssumption
<1>1. TypeOK
  <2>1. Types
    BY InitIInv DEF IInv
  <2>2. state \in State /\ old \in [Thread -> State] /\ stops \subseteq Stopper /\ finished \in BOOLEAN
    BY DEF Init, State
  <2>3. /\ calls \in 0..MaxRelease /\ at \in [Thread -> 0..MaxAwait] /\ awaits \in 1..MaxAwait
        /\ resumes \in Nat /\ wakes \in Nat /\ permits \in Nat
    BY DEF Init
  <2> QED BY <2>1, <2>2, <2>3 DEF TypeOK, Types
<1>2. (\A p \in Caller : pc[p] = "idle") /\ (\A t \in Thread : run[t] \in {"off", "ready"})
  BY DEF Init
<1>3. CallerWord /\ WakerWord /\ Quiet
  BY <1>2 DEF CallerWord, WakerWord, Quiet, Calling, Waking
<1>4. ~ QueuedWake
  <2>1. \A s : s = <<"ready">> \/ s = <<>> => s # <<"resume">>
    OBVIOUS
  <2> QED BY <2>1 DEF QueuedWake, Init
<1>5. OnePermit /\ state # STOPPED
  BY <1>3, <1>4 DEF OnePermit, OneCall, OneWaker, CallOrWaker, Quiet, Init, IDLE, SIGNALED, STOPPED
<1>6. Over /\ Tally
  BY DEF Init, Over, Tally
<1> QED BY <1>1, <1>3, <1>5, <1>6 DEF PInv

\* The coroutine goes on running on t, alone.
LEMMA RunnerShape ==
  ASSUME TypeOK', NEW t \in Thread, run'[t] \in Body, \A u \in Thread \ {t} : run'[u] = "off",
         \A p \in Caller : pc'[p] \in {"idle", "release"},
         \A p \in Caller : pc'[p] = "release" => state' = IDLE /\ run'[t] \notin {"consume", "resume"},
         OneCall', state' \in {IDLE, SIGNALED}, runq' = <<>>,
         run'[t] = "consume" => state' = SIGNALED, run'[t] = "resume" => state' = IDLE,
         permits' \in {0, 1},
         permits' = 1 => /\ \A p \in Caller : pc'[p] = "idle"
                         /\ state' # SIGNALED /\ run'[t] \notin {"consume", "resume"},
         ~ finished', Tally'
  PROVE  PInv'
<1>1. ~ QueuedWake'
  <2>1. <<>> # <<"resume">>
    OBVIOUS
  <2> QED BY <2>1 DEF QueuedWake
<1>2. CallerWord' /\ WakerWord' /\ state' # STOPPED
  BY DEF CallerWord, WakerWord, Body, IDLE, SIGNALED, STOPPED
<1>3. \A u \in Thread : Waking(u)' => u = t /\ run'[t] \in {"consume", "resume"}
  BY DEF Waking, Body
<1>4. OnePermit'
  BY <1>1, <1>3 DEF OnePermit, OneWaker, CallOrWaker, Quiet, Calling
<1>5. Over'
  BY DEF Over
<1> QED BY <1>2, <1>4, <1>5 DEF PInv

\* The coroutine is on no thread: it sleeps, or its loop is over.
LEMMA SleepShape ==
  ASSUME TypeOK', \A u \in Thread : run'[u] = "off",
         \A p \in Caller : pc'[p] \in {"idle", "release"},
         \A p \in Caller : pc'[p] = "release" => state' \in {IDLE, WAITING},
         OneCall', state' # STOPPED, runq' = <<>>, permits' \in {0, 1},
         permits' = 1 => (\A p \in Caller : pc'[p] = "idle") /\ state' # SIGNALED,
         finished' => state' # WAITING, Tally'
  PROVE  PInv'
<1>1. ~ QueuedWake'
  <2>1. <<>> # <<"resume">>
    OBVIOUS
  <2> QED BY <2>1 DEF QueuedWake
<1>2. CallerWord' /\ WakerWord'
  BY DEF CallerWord, WakerWord
<1>3. \A u \in Thread : ~ Waking(u)'
  BY DEF Waking
<1>4. OnePermit'
  BY <1>1, <1>3 DEF OnePermit, OneWaker, CallOrWaker, Quiet, Calling
<1>5. Over'
  BY DEF Over, Parked, Running, Body, Owns, Inside
<1> QED BY <1>2, <1>4, <1>5 DEF PInv

LEMMA CoroutinePInv ==
  ASSUME IInv, PInv, Permit, NEW t \in Thread, Coroutine(t)
  PROVE  PInv'
<1> USE DEF IDLE, SIGNALED, STOPPED, WAITING
<1>0. TypeOK /\ MaxAwait \in Nat \ {0} /\ MaxRelease \in Nat
  BY MPSCAssumption DEF PInv
<1>1. CASE Ready(t) \/ Check(t) \/ Register(t) \/ Consume(t)
  <2>1. Running(t)
    BY <1>1 DEF Ready, Check, Register, Consume, Running, Body
  <2>2. /\ \A u \in Thread \ {t} : run[u] = "off"
        /\ \A p \in Caller : pc[p] \in {"idle", "release"}
        /\ \A p \in Caller : pc[p] = "release" => state = IDLE
        /\ state \in {IDLE, SIGNALED} /\ runq = <<>> /\ ~ finished
        /\ at[t] = awaits /\ resumes = awaits - 1
    BY <2>1, RunnerAlone
  <2>3. /\ UNCHANGED <<pc, calls, stops, old, at, frame, runq, permits>>
        /\ state' \in {IDLE, SIGNALED}
        /\ state' # state => run[t] = "consume"
    BY <1>1, <2>2 DEF Ready, Check, Register, Consume
  <2>4. /\ run'[t] \in Body /\ run' \in [Thread -> Body \cup {"off", "retract"}]
        /\ \A u \in Thread \ {t} : run'[u] = run[u]
    BY <1>0, <1>1 DEF Ready, Check, Register, Consume, Go, TypeOK, Body
  <2>5. /\ run'[t] = "consume" => state = SIGNALED /\ state' = SIGNALED
        /\ run'[t] = "resume" => run[t] = "consume" /\ state = SIGNALED /\ state' = IDLE
    BY <1>0, <1>1, <2>2 DEF Ready, Check, Register, Consume, Go, TypeOK, PInv, WakerWord
  <2>6. TypeOK'
    BY <1>0, <2>3, <2>4 DEF TypeOK, State, frame
  <2>7. OneCall' /\ Tally'
    <3>1. \A u \in Thread : Inside(u)' => Inside(u)
      BY <2>1, <2>4 DEF Inside, Running, Body
    <3> QED BY <2>3, <3>1 DEF PInv, OnePermit, OneCall, Calling, Tally, frame
  <2>8. run[t] = "consume" => permits = 0 /\ \A p \in Caller : pc[p] = "idle"
    BY <1>0 DEF PInv, OnePermit, Quiet, CallOrWaker, Calling, Waking
  <2>9. permits = 1 => /\ \A p \in Caller : pc[p] = "idle"
                       /\ state # SIGNALED /\ run[t] # "consume"
    BY DEF PInv, OnePermit, Quiet, Calling, Waking
  <2>10. permits' \in {0, 1} /\ ~ finished' /\ runq' = <<>>
    BY <2>2, <2>3 DEF frame, PInv, OnePermit
  <2>11. \A p \in Caller : pc'[p] \in {"idle", "release"}
    BY <2>2, <2>3
  <2>12. \A p \in Caller : pc'[p] = "release" => state' = IDLE /\ run'[t] \notin {"consume", "resume"}
    BY <2>2, <2>3, <2>5, <2>8
  <2>13. permits' = 1 => /\ \A p \in Caller : pc'[p] = "idle"
                         /\ state' # SIGNALED /\ run'[t] \notin {"consume", "resume"}
    BY <2>3, <2>5, <2>9
  <2> QED BY <2>2, <2>3, <2>4, <2>5, <2>6, <2>7, <2>10, <2>11, <2>12, <2>13, RunnerShape
<1>2. CASE Publish(t)
  <2>1. Running(t) /\ run[t] = "publish"
    BY <1>2 DEF Publish, Running, Body
  <2>2. /\ \A u \in Thread \ {t} : run[u] = "off"
        /\ \A p \in Caller : pc[p] \in {"idle", "release"}
        /\ \A p \in Caller : pc[p] = "release" => state = IDLE
        /\ state \in {IDLE, SIGNALED} /\ runq = <<>> /\ ~ finished
        /\ at[t] = awaits /\ resumes = awaits - 1
    BY <2>1, RunnerAlone
  <2>3. /\ UNCHANGED <<pc, calls, stops, at, frame, runq, permits>> /\ state' = WAITING
        /\ run'[t] = IF state = IDLE THEN "off" ELSE "retract"
        /\ \A u \in Thread \ {t} : run'[u] = run[u]
        /\ old' = [old EXCEPT ![t] = state]
    BY <1>0, <1>2 DEF Publish, Go, TypeOK
  <2>4. TypeOK'
    <3>1. run' \in [Thread -> Body \cup {"off", "retract"}] /\ old' \in [Thread -> State]
      BY <1>0, <1>2 DEF Publish, Go, TypeOK, State
    <3> QED BY <1>0, <2>3, <3>1 DEF TypeOK, State, frame
  <2>5. OneCall' /\ permits' \in {0, 1} /\ ~ finished' /\ runq' = <<>>
    BY <2>2, <2>3 DEF PInv, OnePermit, OneCall, Calling, frame
  <2>6. Tally'
    <3>1. \A u \in Thread : Inside(u)' => Inside(u)
      BY <2>1, <2>3 DEF Inside
    <3> QED BY <2>3, <3>1 DEF PInv, Tally, frame
  <2>7. permits = 1 => (\A p \in Caller : pc[p] = "idle") /\ state # SIGNALED
    BY DEF PInv, OnePermit, Quiet, Calling
  <2>8. CASE state = IDLE
    <3>1. \A u \in Thread : run'[u] = "off"
      BY <2>2, <2>3, <2>8
    <3>2. \A p \in Caller : pc'[p] \in {"idle", "release"}
      BY <2>2, <2>3
    <3>3. permits' = 1 => (\A p \in Caller : pc'[p] = "idle") /\ state' # SIGNALED
      BY <2>3, <2>7
    <3>4. (\A p \in Caller : pc'[p] = "release" => state' \in {IDLE, WAITING}) /\ state' # STOPPED
      BY <2>3
    <3> QED BY <2>4, <2>5, <2>6, <3>1, <3>2, <3>3, <3>4, SleepShape
  <2>9. CASE state = SIGNALED
    <3>1. /\ run'[t] = "retract" /\ old'[t] = SIGNALED
          /\ \A u \in Thread \ {t} : run'[u] = "off"
          /\ \A p \in Caller : pc'[p] = "idle"
          /\ permits' = 0
      BY <1>0, <2>2, <2>3, <2>7, <2>9 DEF TypeOK, PInv, OnePermit
    <3>2. \A u \in Thread : Waking(u)' => u = t
      BY <3>1 DEF Waking
    <3>3. CallerWord' /\ WakerWord' /\ state' # STOPPED
      BY <2>3, <3>1 DEF CallerWord, WakerWord
    <3>4. ~ QueuedWake'
      <4>1. <<>> # <<"resume">>
        OBVIOUS
      <4> QED BY <2>5, <4>1 DEF QueuedWake
    <3>5. OnePermit'
      BY <2>5, <3>1, <3>2, <3>4 DEF OnePermit, OneWaker, CallOrWaker, Calling
    <3> QED BY <2>4, <2>5, <2>6, <3>3, <3>5 DEF PInv, Over
  <2> QED BY <2>2, <2>8, <2>9
<1>3. CASE Retract(t)
  <2>1. run[t] = "retract" /\ state = WAITING /\ old[t] = SIGNALED /\ Waking(t)
    BY <1>3 DEF Retract, PInv, WakerWord, Waking
  <2>2. Parked /\ runq = <<>> /\ \A p \in Caller : pc[p] = "idle"
    BY <2>1 DEF IInv, Token, PInv, OnePermit, CallOrWaker, Calling
  <2>3. /\ \A u \in Thread \ {t} : run[u] = "off"
        /\ permits = 0 /\ ~ finished
    BY <1>0, <2>1, <2>2 DEF TypeOK, Parked, Running, PInv, OnePermit, OneWaker, Quiet, Waking,
                            Over, Inside
  <2>4. /\ UNCHANGED <<pc, calls, stops, old, at, frame, runq, permits>> /\ state' = IDLE
        /\ run'[t] = "resume" /\ \A u \in Thread \ {t} : run'[u] = run[u]
    BY <1>0, <1>3, <2>1 DEF Retract, Go, TypeOK
  <2>5. TypeOK'
    <3>1. run' \in [Thread -> Body \cup {"off", "retract"}]
      BY <1>0, <1>3 DEF Retract, Go, TypeOK, Body
    <3> QED BY <1>0, <2>4, <3>1 DEF TypeOK, State, frame
  <2>6. Tally' /\ OneCall'
    <3>1. \A u \in Thread : Inside(u)' => Inside(u)
      BY <2>1, <2>4 DEF Inside
    <3> QED BY <2>4, <3>1 DEF PInv, OnePermit, OneCall, Calling, Tally, frame
  <2>7. (\A p \in Caller : pc'[p] = "idle") /\ permits' = 0 /\ ~ finished' /\ runq' = <<>>
    BY <2>2, <2>3, <2>4 DEF frame
  <2>8. \A u \in Thread \ {t} : run'[u] = "off"
    BY <2>3, <2>4
  <2> QED BY <2>4, <2>5, <2>6, <2>7, <2>8, RunnerShape DEF Body
<1>4. CASE Resume(t)
  <2>1. Running(t) /\ run[t] = "resume" /\ state = IDLE /\ Waking(t)
    BY <1>4 DEF Resume, Running, Body, Waking, PInv, WakerWord
  <2>2. /\ \A u \in Thread \ {t} : run[u] = "off"
        /\ state \in {IDLE, SIGNALED} /\ runq = <<>> /\ ~ finished
        /\ at[t] = awaits /\ resumes = awaits - 1
    BY <2>1, RunnerAlone
  <2>3. permits = 0 /\ \A p \in Caller : pc[p] = "idle"
    BY <2>1 DEF PInv, OnePermit, Quiet, CallOrWaker, Calling
  <2>4. /\ UNCHANGED <<state, pc, calls, stops, old, runq>>
        /\ resumes' = resumes + 1 /\ wakes' = wakes + 1 /\ permits' = 1
    BY <1>4, <2>1, <2>3 DEF Resume
  <2>5. wakes = resumes /\ calls + permits = resumes + 1
    BY DEF PInv, Tally
  <2>6. OneCall'
    BY <2>3, <2>4 DEF OneCall, Calling
  <2>7. CASE awaits < MaxAwait
    <3>1. /\ awaits' = awaits + 1 /\ at' = [at EXCEPT ![t] = awaits + 1]
          /\ Go(t, "ready") /\ finished' = finished
      BY <1>0, <1>4, <2>1, <2>7 DEF Resume, TypeOK
    <3>2. /\ run'[t] = "ready" /\ (\A u \in Thread \ {t} : run'[u] = "off")
          /\ run' \in [Thread -> Body \cup {"off", "retract"}]
      BY <1>0, <2>2, <3>1 DEF TypeOK, Go, Body
    <3>3. awaits' \in 1..MaxAwait /\ at' \in [Thread -> 0..MaxAwait] /\ at'[t] = awaits'
      BY <1>0, <2>7, <3>1 DEF TypeOK
    <3>4. TypeOK'
      BY <1>0, <2>4, <3>1, <3>2, <3>3 DEF TypeOK
    <3>5. Tally'
      <4>1. \A u \in Thread : Inside(u)' => u = t
        BY <3>2 DEF Inside
      <4>2. resumes' = awaits' - 1 /\ wakes' = resumes' /\ calls' + permits' = resumes' + 1
        BY <1>0, <2>2, <2>3, <2>4, <2>5, <3>1 DEF TypeOK
      <4> QED BY <2>2, <3>1, <3>3, <4>1, <4>2 DEF Tally
    <3>6. (\A p \in Caller : pc'[p] = "idle") /\ state' = IDLE /\ runq' = <<>> /\ ~ finished'
      BY <2>1, <2>2, <2>3, <2>4, <3>1
    <3> QED BY <2>4, <2>6, <3>2, <3>4, <3>5, <3>6, RunnerShape DEF Body
  <2>8. CASE ~ (awaits < MaxAwait)
    <3>1. /\ awaits' = awaits /\ at' = at /\ Go(t, "off") /\ finished' = TRUE
      BY <1>0, <1>4, <2>1, <2>8 DEF Resume, TypeOK
    <3>2. /\ \A u \in Thread : run'[u] = "off"
          /\ run' \in [Thread -> Body \cup {"off", "retract"}]
      BY <1>0, <2>2, <3>1 DEF TypeOK, Go
    <3>3. TypeOK'
      BY <1>0, <2>4, <3>1, <3>2 DEF TypeOK
    <3>4. Tally'
      <4>1. \A u \in Thread : ~ Inside(u)'
        BY <3>2 DEF Inside
      <4>2. resumes' = awaits' /\ wakes' = resumes' /\ calls' + permits' = resumes' + 1
        BY <1>0, <2>2, <2>3, <2>4, <2>5, <3>1 DEF TypeOK
      <4> QED BY <3>1, <4>1, <4>2 DEF Tally
    <3>5. (\A p \in Caller : pc'[p] = "idle") /\ state' = IDLE /\ runq' = <<>>
      BY <2>1, <2>2, <2>3, <2>4
    <3> QED BY <2>4, <2>6, <3>2, <3>3, <3>4, <3>5, SleepShape
  <2> QED BY <2>7, <2>8
<1> QED BY <1>1, <1>2, <1>3, <1>4 DEF Coroutine

\* release() from its call to its exchange.
LEMMA ReleasePInv ==
  ASSUME IInv, PInv, Permit, NEW p \in Caller, BeginRelease(p) \/ ReleaseExchange(p)
  PROVE  PInv'
<1> USE DEF IDLE, SIGNALED, STOPPED, WAITING
<1>0. TypeOK /\ MaxRelease \in Nat
  BY MPSCAssumption DEF PInv
<1>1. CASE BeginRelease(p)
  <2>1. permits = 1 /\ permits' = 0 /\ calls' = calls + 1 /\ calls < MaxRelease
    BY <1>0, <1>1 DEF BeginRelease, TypeOK, PInv, OnePermit
  <2>2. Quiet /\ state \in {IDLE, WAITING} /\ ~ QueuedWake
    BY <1>0, <2>1 DEF PInv, OnePermit, TypeOK, State
  <2>3. /\ UNCHANGED <<state, stops, run, old, at, frame, runq>>
        /\ pc'[p] = "release" /\ (\A q \in Caller \ {p} : pc'[q] = "idle")
        /\ pc' = [pc EXCEPT ![p] = "release"]
    BY <1>0, <1>1, <2>2 DEF BeginRelease, Step, TypeOK, Quiet, Calling
  <2>4. TypeOK'
    <3>1. calls' \in 0..MaxRelease /\ permits' \in Nat
      BY <1>0, <2>1 DEF TypeOK
    <3> QED BY <1>0, <2>3, <3>1 DEF TypeOK, frame
  <2>5. CallerWord' /\ WakerWord' /\ state' # STOPPED
    BY <2>2, <2>3 DEF CallerWord, WakerWord, Quiet, Waking
  <2>6. OnePermit'
    BY <2>1, <2>2, <2>3 DEF OnePermit, OneCall, OneWaker, CallOrWaker, Quiet, Calling, Waking, QueuedWake
  <2>7. Over'
    BY <2>3 DEF PInv, Over, Parked, Running, Inside, Owns, frame
  <2>8. Tally'
    <3>1. calls' + permits' = resumes + 1
      BY <1>0, <2>1 DEF PInv, Tally, TypeOK
    <3> QED BY <2>3, <3>1 DEF PInv, Tally, Inside, frame
  <2> QED BY <2>4, <2>5, <2>6, <2>7, <2>8 DEF PInv
<1>2. CASE ReleaseExchange(p)
  <2>1. Calling(p) /\ pc[p] = "release" /\ state \in {IDLE, WAITING}
    BY <1>2 DEF ReleaseExchange, Calling, PInv, CallerWord
  <2>2. /\ \A q \in Caller \ {p} : pc[q] = "idle"
        /\ \A u \in Thread : ~ Waking(u)
        /\ permits = 0 /\ ~ QueuedWake
    BY <2>1 DEF PInv, OnePermit, OneCall, CallOrWaker, Quiet, Calling
  <2>3. /\ UNCHANGED <<calls, stops, run, old, at, frame, runq, permits>> /\ state' = SIGNALED
        /\ pc'[p] = IF state = WAITING THEN "copy" ELSE "idle"
        /\ \A q \in Caller \ {p} : pc'[q] = "idle"
    BY <1>0, <1>2, <2>1, <2>2 DEF ReleaseExchange, Step, TypeOK
  <2>4. TypeOK'
    <3>1. pc' \in [Caller -> {"idle", "release", "restore", "copy", "store", "stop", "stopCopy", "call"}]
      BY <1>0, <1>2 DEF ReleaseExchange, Step, TypeOK
    <3> QED BY <1>0, <2>3, <3>1 DEF TypeOK, State, frame
  <2>5. CallerWord' /\ WakerWord' /\ state' # STOPPED
    BY <2>2, <2>3 DEF CallerWord, WakerWord, Waking
  <2>6. OnePermit'
    BY <2>2, <2>3 DEF OnePermit, OneCall, OneWaker, CallOrWaker, Quiet, Calling, Waking, QueuedWake
  <2>7. Over'
    BY <2>2, <2>3 DEF PInv, Over, Parked, Running, Inside, Owns, frame
  <2>8. Tally'
    BY <2>3 DEF PInv, Tally, Inside, frame
  <2> QED BY <2>4, <2>5, <2>6, <2>7, <2>8 DEF PInv
<1> QED BY <1>1, <1>2

\* The caller that took WAITING, up to the continuation's first step.
LEMMA OwnerPInv ==
  ASSUME IInv, PInv, NEW p \in Caller, ReleaseCopy(p) \/ ReleaseStore(p) \/ Call(p)
  PROVE  PInv'
<1> USE DEF IDLE, SIGNALED, STOPPED, WAITING
<1>0. TypeOK /\ Owns(p)
  BY DEF PInv, ReleaseCopy, ReleaseStore, Call, Owns
<1>1. /\ \A u \in Thread : run[u] = "off"
      /\ \A q \in Caller \ {p} : pc[q] = "idle"
      /\ state = (IF pc[p] = "call" THEN IDLE ELSE SIGNALED) /\ runq = <<>> /\ ~ finished
      /\ permits = 0 /\ resumes = awaits - 1
  BY <1>0, OwnerAlone
<1>2. <<>> # <<"resume">>
  OBVIOUS
<1>3. wakes = resumes /\ calls + permits = resumes + 1
  BY DEF PInv, Tally
<1>4. CASE ReleaseCopy(p) \/ ReleaseStore(p)
  <2>1. /\ UNCHANGED <<calls, stops, run, old, at, frame, runq, permits>>
        /\ pc'[p] \in {"store", "call"} /\ (\A q \in Caller \ {p} : pc'[q] = "idle")
        /\ state' = (IF pc'[p] = "call" THEN IDLE ELSE SIGNALED)
        /\ pc' \in [Caller -> {"idle", "release", "restore", "copy", "store", "stop", "stopCopy", "call"}]
    BY <1>0, <1>1, <1>4 DEF ReleaseCopy, ReleaseStore, Step, TypeOK
  <2>2. TypeOK'
    BY <1>0, <2>1 DEF TypeOK, State, frame
  <2>3. CallerWord' /\ WakerWord' /\ state' # STOPPED
    BY <1>1, <2>1 DEF CallerWord, WakerWord
  <2>4. OnePermit'
    BY <1>1, <1>2, <2>1 DEF OnePermit, OneCall, OneWaker, CallOrWaker, Calling, Waking, QueuedWake
  <2>5. Over' /\ Tally'
    BY <1>1, <2>1 DEF PInv, Over, Tally, Inside, frame
  <2> QED BY <2>2, <2>3, <2>4, <2>5 DEF PInv
<1>5. CASE Call(p)
  <2>1. /\ UNCHANGED <<state, calls, stops, old, frame, permits>> /\ state' = IDLE
        /\ \A q \in Caller : pc'[q] = "idle"
        /\ pc' \in [Caller -> {"idle", "release", "restore", "copy", "store", "stop", "stopCopy", "call"}]
    BY <1>0, <1>1, <1>5 DEF Call, Step, TypeOK
  <2>2. p \in Thread
    BY DEF Thread
  <2>3. OneCall'
    BY <2>1 DEF OneCall, Calling
  <2>4. CASE Worker = {}
    <3>1. Go(p, "resume") /\ at' = [at EXCEPT ![p] = awaits] /\ runq' = runq
      BY <1>5, <2>4 DEF Call
    <3>2. /\ run'[p] = "resume" /\ \A u \in Thread \ {p} : run'[u] = "off"
          /\ run' \in [Thread -> Body \cup {"off", "retract"}]
      BY <1>0, <1>1, <2>2, <3>1 DEF TypeOK, Go, Body
    <3>3. at' \in [Thread -> 0..MaxAwait] /\ at'[p] = awaits
      BY <1>0, <2>2, <3>1, MPSCAssumption DEF TypeOK
    <3>4. TypeOK'
      BY <1>0, <2>1, <3>1, <3>2, <3>3 DEF TypeOK, frame
    <3>5. Tally'
      <4>1. \A u \in Thread : Inside(u)' => u = p
        BY <3>2 DEF Inside
      <4> QED BY <1>1, <1>3, <2>1, <3>3, <4>1 DEF Tally, frame
    <3>6. permits' = 0 /\ ~ finished' /\ runq' = <<>> /\ run'[p] \in Body
      BY <1>1, <2>1, <3>1, <3>2 DEF frame, Body
    <3> QED BY <2>1, <2>2, <2>3, <3>2, <3>4, <3>5, <3>6, RunnerShape
  <2>5. CASE Worker # {}
    <3>1. runq' = <<"resume">> /\ run' = run /\ at' = at
      BY <1>1, <1>5, <2>5 DEF Call
    <3>2. runq' \in Seq({"ready", "resume"})
      BY <3>1
    <3>3. TypeOK'
      BY <1>0, <2>1, <3>1, <3>2 DEF TypeOK, frame
    <3>4. CallerWord' /\ WakerWord' /\ state' # STOPPED
      BY <1>1, <2>1, <3>1 DEF CallerWord, WakerWord
    <3>5. OnePermit'
      BY <1>1, <2>1, <2>3, <3>1 DEF OnePermit, OneWaker, CallOrWaker, Calling, Waking, Quiet
    <3>6. Over' /\ Tally'
      BY <1>1, <2>1, <3>1 DEF PInv, Over, Tally, Inside, frame
    <3> QED BY <3>3, <3>4, <3>5, <3>6 DEF PInv
  <2> QED BY <2>4, <2>5
<1> QED BY <1>4, <1>5

\* A queued entry point, taken by a worker.
LEMMA QueueAlone ==
  ASSUME IInv, PInv, NEW w \in Worker, Take(w)
  PROVE  /\ \A u \in Thread : run[u] = "off"
         /\ \A p \in Caller : pc[p] \in {"idle", "release"}
         /\ \A p \in Caller : pc[p] = "release" => state = IDLE
         /\ state \in {IDLE, SIGNALED} /\ ~ finished /\ resumes = awaits - 1
         /\ runq = <<Head(runq)>> /\ Head(runq) \in {"ready", "resume"} /\ runq' = <<>>
         /\ Head(runq) = "resume" => Quiet /\ state = IDLE /\ permits = 0
<1>1. runq # <<>> /\ runq \in Seq({"ready", "resume"}) /\ Len(runq) <= 1 /\ runq' = Tail(runq)
  BY DEF Take, IInv, Types, Token
<1>2. Parked /\ state # WAITING
  BY <1>1 DEF IInv, Token
<1>3. \A u \in Thread : run[u] = "off"
  BY <1>2 DEF IInv, Types, Parked, Running, PInv, WakerWord
<1>4. \A p \in Caller : pc[p] \in {"idle", "release"} /\ (pc[p] = "release" => state = IDLE)
  BY <1>2 DEF Parked, Owns, PInv, CallerWord
<1>5. state \in {IDLE, SIGNALED}
  BY <1>2 DEF PInv, TypeOK, State
<1>6. ~ finished
  BY <1>1 DEF PInv, Over
<1>7. resumes = awaits - 1
  BY <1>6 DEF PInv, Tally
<1>8. runq = <<Head(runq)>> /\ Head(runq) \in {"ready", "resume"} /\ runq' = <<>>
  <2>1. Len(runq) \in Nat /\ Len(runq) # 0
    BY <1>1
  <2>2. Len(runq) = 1
    <3>1. \A n \in Nat : n # 0 /\ n <= 1 => n = 1
      OBVIOUS
    <3> QED BY <1>1, <2>1, <3>1, Zenon
  <2> QED BY <1>1, <2>2
<1>9. Head(runq) = "resume" => QueuedWake
  BY <1>8 DEF QueuedWake
<1>10. QueuedWake => Quiet /\ state = IDLE /\ permits = 0
  BY DEF PInv, OnePermit
<1> QED BY <1>3, <1>4, <1>5, <1>6, <1>7, <1>8, <1>9, <1>10

LEMMA TakePInv ==
  ASSUME IInv, PInv, NEW w \in Worker, Take(w)
  PROVE  PInv'
<1> USE DEF IDLE, SIGNALED, STOPPED, WAITING
<1>0. TypeOK /\ w \in Thread
  BY DEF PInv, Thread
<1>1. /\ \A u \in Thread : run[u] = "off"
      /\ \A p \in Caller : pc[p] \in {"idle", "release"}
      /\ \A p \in Caller : pc[p] = "release" => state = IDLE
      /\ state \in {IDLE, SIGNALED} /\ ~ finished /\ resumes = awaits - 1
      /\ Head(runq) \in {"ready", "resume"} /\ runq' = <<>>
      /\ Head(runq) = "resume" => Quiet /\ state = IDLE /\ permits = 0
  BY QueueAlone
<1>2. /\ UNCHANGED <<state, pc, calls, stops, old, frame, permits>>
      /\ run'[w] = Head(runq) /\ (\A u \in Thread \ {w} : run'[u] = "off")
      /\ run' \in [Thread -> Body \cup {"off", "retract"}]
      /\ at' = [at EXCEPT ![w] = awaits]
  BY <1>0, <1>1 DEF Take, Go, TypeOK, Body
<1>3. at' \in [Thread -> 0..MaxAwait] /\ at'[w] = awaits
  BY <1>0, <1>2, MPSCAssumption DEF TypeOK
<1>4. TypeOK'
  <2>1. runq' \in Seq({"ready", "resume"})
    BY <1>1
  <2> QED BY <1>0, <1>2, <1>3, <2>1 DEF TypeOK, frame
<1>5. Tally'
  <2>1. \A u \in Thread : Inside(u)' => u = w
    BY <1>2 DEF Inside
  <2> QED BY <1>1, <1>2, <1>3, <2>1 DEF PInv, Tally, frame
<1>6. OneCall' /\ permits' \in {0, 1} /\ ~ finished'
  BY <1>1, <1>2 DEF PInv, OnePermit, OneCall, Calling, frame
<1>7. \A p \in Caller : pc'[p] \in {"idle", "release"}
  BY <1>1, <1>2
<1>8. \A p \in Caller : pc'[p] = "release" => state' = IDLE /\ run'[w] \notin {"consume", "resume"}
  BY <1>1, <1>2 DEF Quiet, Calling
<1>9. permits' = 1 => /\ \A p \in Caller : pc'[p] = "idle"
                      /\ state' # SIGNALED /\ run'[w] \notin {"consume", "resume"}
  BY <1>1, <1>2 DEF PInv, OnePermit, Quiet, Calling
<1> QED BY <1>0, <1>1, <1>2, <1>4, <1>5, <1>6, <1>7, <1>8, <1>9, RunnerShape DEF Body

\* Nobody calls stop().
LEMMA NoStop ==
  ASSUME PInv, Stopper = {}, NEW p \in Caller
  PROVE  ~ BeginStop(p) /\ ~ ReleaseRestore(p) /\ ~ StopExchange(p) /\ ~ StopCopy(p)
BY DEF PInv, CallerWord, BeginStop, ReleaseRestore, StopExchange, StopCopy

(***************************************************************************)
(* The stress tests' discipline, a permit for every release, keeps the     *)
(* permit in one place and the tally of releases and awaits exact.         *)
(***************************************************************************)
THEOREM PermitInvariant ==
  ASSUME Permit, Stopper = {}
  PROVE  Spec => []PInv
<1>1. ASSUME IInv, PInv, [Next]_vars PROVE PInv'
  <2> USE <1>1
  <2>1. CASE UNCHANGED vars
    <3>1. UNCHANGED <<state, pc, calls, stops, run, old, at, awaits, resumes, wakes, finished, runq, permits>>
      BY <2>1 DEF vars, frame
    <3>2. TypeOK'
      BY <3>1 DEF PInv, TypeOK
    <3>3. CallerWord' /\ WakerWord' /\ OnePermit' /\ Over' /\ Tally' /\ state' # STOPPED
      BY <3>1 DEF PInv, CallerWord, WakerWord, OnePermit, OneCall, OneWaker, CallOrWaker, Quiet,
                  QueuedWake, Calling, Waking, Over, Parked, Running, Owns, Inside, Tally
    <3> QED BY <3>2, <3>3 DEF PInv
  <2>2. CASE \E t \in Thread : Coroutine(t)
    BY <2>2, CoroutinePInv
  <2>3. CASE \E p \in Caller : BeginRelease(p) \/ BeginStop(p) \/ InCall(p)
    BY <2>3, ReleasePInv, OwnerPInv, NoStop DEF InCall
  <2>4. CASE \E w \in Worker : Take(w)
    BY <2>4, TakePInv
  <2> QED BY <2>1, <2>2, <2>3, <2>4 DEF Next
<1> QED BY <1>1, InitPInv, TokenInvariant, PTL DEF Spec

Entering == {p \in Caller : pc[p] = "release"}

\* At most one caller is before its exchange, and then the permit is spent.
LEMMA Before ==
  PInv => /\ Entering # {} => permits = 0 /\ Effective = calls - 1
          /\ Entering = {} => Effective = calls
<1> SUFFICES ASSUME PInv
             PROVE  /\ Entering # {} => permits = 0 /\ Effective = calls - 1
                    /\ Entering = {} => Effective = calls
  OBVIOUS
<1>0. calls \in Nat /\ Effective = calls - Cardinality(Entering)
  BY MPSCAssumption DEF PInv, TypeOK, Effective, Entering
<1>1. CASE Entering # {}
  <2>1. PICK p \in Entering : TRUE
    BY <1>1
  <2>2. Entering = {p}
    BY <2>1 DEF PInv, OnePermit, OneCall, Calling, Entering
  <2>3. Cardinality(Entering) = 1
    BY <2>2, FS_Singleton
  <2>4. permits = 0
    BY <2>1 DEF PInv, OnePermit, Quiet, Calling, Entering
  <2> QED BY <1>0, <1>1, <2>3, <2>4
<1>2. CASE Entering = {}
  <2>1. Cardinality(Entering) = 0
    BY <1>2, FS_EmptySet
  <2> QED BY <1>0, <1>2, <2>1
<1> QED BY <1>1, <1>2

LEMMA BeforeNext ==
  (PInv => /\ Entering # {} => permits = 0 /\ Effective = calls - 1
           /\ Entering = {} => Effective = calls)'
BY Before, PTL

(***************************************************************************)
(* With a permit per release and no stop, on any executor and for any      *)
(* number of producers: the await that is completed is the outstanding     *)
(* one, it is completed once, and none yields true without a release of    *)
(* its own (core.h 112-190; the loop of the stress tests).                 *)
(***************************************************************************)
THEOREM SafetyHolds ==
  ASSUME Permit, Stopper = {}
  PROVE  Spec => []Safety
<1>1. ASSUME PInv PROVE Safety
  <2>1. TypeOK
    BY <1>1 DEF PInv
  <2>2. CompletesOutstanding
    <3> SUFFICES ASSUME NEW t \in Thread, run[t] = "resume"
                 PROVE  at[t] = awaits /\ resumes = awaits - 1
      BY DEF CompletesOutstanding
    <3>1. Inside(t)
      BY DEF Inside
    <3> QED BY <1>1, <3>1 DEF PInv, Over, Tally
  <2>3. NoSpuriousWake
    <3>1. calls \in Nat /\ resumes \in Nat /\ permits \in {0, 1} /\ wakes = resumes
          /\ calls + permits = resumes + 1
      BY <1>1, MPSCAssumption DEF PInv, TypeOK, OnePermit, Tally
    <3>2. Effective = calls \/ (permits = 0 /\ Effective = calls - 1)
      BY <1>1, Before
    <3> QED BY <3>1, <3>2 DEF NoSpuriousWake
  <2> QED BY <2>1, <2>2, <2>3 DEF Safety
<1> QED BY <1>1, PermitInvariant, PTL

-----------------------------------------------------------------------------
(* The atomic tier as the single-threaded one.                             *)

\* A signal that has been taken, by the caller that found a waiter or by the
\* await_suspend that found a signal.
Turned ==
  \/ \E p \in Caller : pc[p] \in {"copy", "store"}
  \/ \E t \in Thread : run[t] = "retract"

\* What module MPSCSignal substitutes for the variables of UnsafeSignal.
TierState == IF Turned THEN IDLE ELSE state
TierConsumer ==
  IF finished THEN "finished"
  ELSE IF Woken THEN "woken"
  ELSE IF state = WAITING THEN "suspended" ELSE "running"

\* The abstract state by where the right to resume is.
Reads ==
  /\ \A t \in Thread : Running(t) /\ run[t] # "resume" =>
       TierState = state /\ TierConsumer = "running"
  /\ \A t \in Thread : run[t] \in {"resume", "retract"} =>
       TierState = IDLE /\ TierConsumer = "woken"
  /\ \A p \in Caller : Owns(p) => TierState = IDLE /\ TierConsumer = "woken"
  /\ QueuedWake => TierState = IDLE /\ TierConsumer = "woken"
  /\ runq = <<"ready">> => TierState = state /\ TierConsumer = "running"
  /\ state = WAITING /\ ~ Turned => TierState = WAITING /\ TierConsumer = "suspended"
  /\ finished => TierState = state /\ TierConsumer = "finished"

LEMMA ReadsNow == IInv /\ PInv => Reads
<1> SUFFICES ASSUME IInv, PInv PROVE Reads
  OBVIOUS
<1> USE DEF IDLE, SIGNALED, STOPPED, WAITING
<1>0. <<>> # <<"resume">> /\ <<>> # <<"ready">> /\ <<"ready">> # <<"resume">>
  OBVIOUS
<1>1. ASSUME NEW t \in Thread, Running(t)
      PROVE  /\ run[t] # "resume" => TierState = state /\ TierConsumer = "running"
             /\ run[t] = "resume" => TierState = IDLE /\ TierConsumer = "woken"
  <2>1. /\ \A u \in Thread \ {t} : run[u] = "off"
        /\ \A p \in Caller : pc[p] \in {"idle", "release"}
        /\ state \in {IDLE, SIGNALED} /\ runq = <<>> /\ ~ finished
    BY <1>1, RunnerAlone
  <2>2. ~ Turned
    BY <1>1, <2>1 DEF Turned, Running, Body
  <2>3. run[t] = "resume" => state = IDLE /\ Woken
    BY DEF PInv, WakerWord, Woken
  <2>4. run[t] # "resume" => ~ Woken
    BY <1>0, <1>1, <2>1 DEF Woken, Running, Body
  <2> QED BY <2>1, <2>2, <2>3, <2>4 DEF TierState, TierConsumer
<1>2. ASSUME NEW t \in Thread, run[t] = "retract" PROVE TierState = IDLE /\ TierConsumer = "woken"
  <2>1. Turned /\ Woken
    BY <1>2 DEF Turned, Woken
  <2>2. ~ finished
    BY <1>2 DEF PInv, Over, Inside
  <2> QED BY <2>1, <2>2 DEF TierState, TierConsumer
<1>3. ASSUME NEW p \in Caller, Owns(p) PROVE TierState = IDLE /\ TierConsumer = "woken"
  <2>1. Woken
    BY <1>3 DEF Owns, Woken
  <2>2. state = (IF pc[p] = "call" THEN IDLE ELSE SIGNALED) /\ ~ finished
    BY <1>3, OwnerAlone
  <2>3. pc[p] # "call" => Turned
    BY <1>3 DEF Owns, Turned, PInv, CallerWord
  <2> QED BY <2>1, <2>2, <2>3 DEF TierState, TierConsumer
<1>4. ASSUME runq = <<"resume">> \/ runq = <<"ready">>
      PROVE  /\ runq = <<"resume">> => TierState = IDLE /\ TierConsumer = "woken"
             /\ runq = <<"ready">> => TierState = state /\ TierConsumer = "running"
  <2>1. runq # <<>>
    BY <1>0, <1>4
  <2>2. Parked /\ state # WAITING /\ ~ finished
    BY <2>1 DEF IInv, Token, PInv, Over
  <2>3. \A u \in Thread : run[u] = "off"
    BY <2>2 DEF IInv, Types, Parked, Running, PInv, WakerWord
  <2>4. ~ Turned
    BY <2>2, <2>3 DEF Turned, Parked, Owns
  <2>5. runq = <<"resume">> => Woken /\ state = IDLE
    BY DEF Woken, PInv, OnePermit, QueuedWake
  <2>6. runq = <<"ready">> => ~ Woken
    BY <1>0, <2>2, <2>3 DEF Woken, Parked, Owns
  <2> QED BY <2>2, <2>4, <2>5, <2>6 DEF TierState, TierConsumer
<1>5. ASSUME state = WAITING, ~ Turned PROVE TierState = WAITING /\ TierConsumer = "suspended"
  <2>1. Parked /\ runq = <<>> /\ ~ finished
    BY <1>5 DEF IInv, Token, PInv, Over
  <2>2. ~ Woken
    BY <1>0, <1>5, <2>1 DEF Woken, Turned, Parked, Running, Body, Owns
  <2> QED BY <1>5, <2>1, <2>2 DEF TierState, TierConsumer
<1>6. ASSUME finished PROVE TierState = state /\ TierConsumer = "finished"
  <2>1. ~ Turned
    BY <1>6 DEF PInv, Over, Parked, Owns, Turned, Inside
  <2> QED BY <1>6, <2>1 DEF TierState, TierConsumer
<1>7. \A t \in Thread : run[t] = "resume" => Running(t)
  BY DEF Running, Body
<1> QED BY <1>1, <1>2, <1>3, <1>4, <1>5, <1>6, <1>7 DEF Reads, QueuedWake

LEMMA ReadsNext == (IInv /\ PInv => Reads)'
BY ReadsNow, PTL

\* A step that the abstract tier does not see.
LEMMA Stutters ==
  ASSUME TierState' = TierState, TierConsumer' = TierConsumer, Effective' = Effective,
         awaits' = awaits, wakes' = wakes
  PROVE  UNCHANGED Tier!svars
BY DEF Tier!svars, TierState, TierConsumer, Turned

\* The steps that it sees.
TierReady ==
  /\ TierConsumer = "running" /\ TierState = SIGNALED
  /\ TierState' = IDLE /\ TierConsumer' = "woken"
  /\ Effective' = Effective /\ awaits' = awaits /\ wakes' = wakes
TierSuspend ==
  /\ TierConsumer = "running" /\ TierState = IDLE
  /\ TierState' = WAITING /\ TierConsumer' = "suspended"
  /\ Effective' = Effective /\ awaits' = awaits /\ wakes' = wakes
TierResume ==
  /\ TierConsumer = "woken" /\ TierState = IDLE /\ wakes' = wakes + 1
  /\ IF awaits < MaxAwait
       THEN TierConsumer' = "running" /\ awaits' = awaits + 1
       ELSE TierConsumer' = "finished" /\ awaits' = awaits
  /\ TierState' = TierState /\ Effective' = Effective
TierRelease ==
  /\ Effective < MaxRelease /\ Effective' = Effective + 1
  /\ \/ TierState = IDLE /\ TierState' = SIGNALED /\ TierConsumer' = TierConsumer
     \/ TierState = WAITING /\ TierState' = IDLE /\ TierConsumer' = "woken"
  /\ awaits' = awaits /\ wakes' = wakes

LEMMA Steps ==
  ASSUME TierReady \/ TierSuspend \/ TierResume \/ TierRelease
  PROVE  Tier!SNext
<1> USE DEF IDLE, SIGNALED, STOPPED, WAITING, Tier!IDLE, Tier!SIGNALED, Tier!STOPPED, Tier!WAITING
<1>1. TierReady => Tier!AwaitReady
  BY DEF TierReady, Tier!AwaitReady, TierState, TierConsumer, Turned
<1>2. TierSuspend => Tier!AwaitSuspend
  BY DEF TierSuspend, Tier!AwaitSuspend, TierState, TierConsumer, Turned
<1>3. TierResume => Tier!Resume
  BY DEF TierResume, Tier!Resume, TierState, TierConsumer, Turned
<1>4. TierRelease => Tier!Release
  BY DEF TierRelease, Tier!Release, TierState, TierConsumer, Turned
<1> QED BY <1>1, <1>2, <1>3, <1>4 DEF Tier!SNext

LEMMA CoroutineSimulates ==
  ASSUME IInv, PInv, IInv', PInv', NEW t \in Thread, Coroutine(t)
  PROVE  [Tier!SNext]_(Tier!svars)
<1> USE DEF IDLE, SIGNALED, STOPPED, WAITING
<1>0. Reads /\ Reads' /\ TypeOK
  BY ReadsNow, ReadsNext DEF PInv
<1>1. Effective' = Effective
  <2>1. calls' = calls /\ pc' = pc
    BY DEF Coroutine, Ready, Consume, Check, Register, Publish, Retract, Resume
  <2> QED BY <2>1 DEF Effective
<1>2. CASE Ready(t) \/ Consume(t) \/ Check(t) \/ Register(t)
  <2>1. Running(t) /\ run[t] # "resume"
    BY <1>2 DEF Ready, Consume, Check, Register, Running, Body
  <2>2. state \in {IDLE, SIGNALED} /\ TierState = state /\ TierConsumer = "running"
    BY <1>0, <2>1, RunnerAlone DEF Reads
  <2>3. awaits' = awaits /\ wakes' = wakes
    BY <1>2 DEF Ready, Consume, Check, Register, frame
  <2>4. CASE Consume(t)
    <3>1. run[t] = "consume" /\ run'[t] = "resume"
      BY <1>0, <2>4 DEF Consume, Go, TypeOK
    <3>2. state = SIGNALED /\ TierState' = IDLE /\ TierConsumer' = "woken"
      BY <1>0, <3>1 DEF PInv, WakerWord, Reads
    <3> QED BY <1>1, <2>2, <2>3, <3>2, Steps DEF TierReady
  <2>5. CASE Ready(t) \/ Check(t) \/ Register(t)
    <3>1. state' = state /\ run'[t] \in Body \ {"resume"}
      BY <1>0, <2>2, <2>5 DEF Ready, Check, Register, Go, TypeOK, Body
    <3>2. TierState' = state' /\ TierConsumer' = "running"
      BY <1>0, <3>1 DEF Reads, Running
    <3> QED BY <1>1, <2>2, <2>3, <3>1, <3>2, Stutters
  <2> QED BY <1>2, <2>4, <2>5
<1>3. CASE Publish(t)
  <2>1. Running(t) /\ run[t] # "resume"
    BY <1>3 DEF Publish, Running, Body
  <2>2. /\ state \in {IDLE, SIGNALED} /\ TierState = state /\ TierConsumer = "running"
        /\ \A u \in Thread \ {t} : run[u] = "off"
        /\ \A p \in Caller : pc[p] \in {"idle", "release"}
    BY <1>0, <2>1, RunnerAlone DEF Reads
  <2>3. /\ awaits' = awaits /\ wakes' = wakes /\ state' = WAITING /\ pc' = pc
        /\ run'[t] = (IF state = IDLE THEN "off" ELSE "retract")
        /\ \A u \in Thread \ {t} : run'[u] = run[u]
    BY <1>0, <1>3 DEF Publish, Go, TypeOK, frame
  <2>4. CASE state = IDLE
    <3>1. ~ Turned'
      BY <2>2, <2>3, <2>4 DEF Turned
    <3>2. TierState' = WAITING /\ TierConsumer' = "suspended"
      BY <1>0, <2>3, <3>1 DEF Reads
    <3> QED BY <1>1, <2>2, <2>3, <2>4, <3>2, Steps DEF TierSuspend
  <2>5. CASE state = SIGNALED
    <3>1. TierState' = IDLE /\ TierConsumer' = "woken"
      BY <1>0, <2>3, <2>5 DEF Reads
    <3> QED BY <1>1, <2>2, <2>3, <2>5, <3>1, Steps DEF TierReady
  <2> QED BY <2>2, <2>4, <2>5
<1>4. CASE Retract(t)
  <2>1. run[t] = "retract" /\ state = WAITING /\ run'[t] = "resume"
    BY <1>0, <1>4 DEF Retract, Go, TypeOK, PInv, WakerWord
  <2>2. /\ TierState = IDLE /\ TierConsumer = "woken"
        /\ TierState' = IDLE /\ TierConsumer' = "woken"
    BY <1>0, <2>1 DEF Reads
  <2>3. awaits' = awaits /\ wakes' = wakes
    BY <1>4 DEF Retract, frame
  <2> QED BY <1>1, <2>2, <2>3, Stutters
<1>5. CASE Resume(t)
  <2>1. /\ run[t] = "resume" /\ state = IDLE /\ state' = state /\ wakes' = wakes + 1
        /\ TierState = IDLE /\ TierConsumer = "woken"
    BY <1>0, <1>5 DEF Resume, PInv, WakerWord, Reads
  <2>2. CASE awaits < MaxAwait
    <3>1. awaits' = awaits + 1 /\ run'[t] = "ready"
      BY <1>0, <1>5, <2>1, <2>2, MPSCAssumption DEF Resume, Go, TypeOK
    <3>2. TierState' = IDLE /\ TierConsumer' = "running"
      BY <1>0, <2>1, <3>1 DEF Reads, Running, Body
    <3> QED BY <1>1, <2>1, <2>2, <3>1, <3>2, Steps DEF TierResume
  <2>3. CASE ~ (awaits < MaxAwait)
    <3>1. awaits' = awaits /\ finished'
      BY <1>0, <1>5, <2>1, <2>3, MPSCAssumption DEF Resume, TypeOK
    <3>2. TierState' = IDLE /\ TierConsumer' = "finished"
      BY <1>0, <2>1, <3>1 DEF Reads
    <3> QED BY <1>1, <2>1, <2>3, <3>1, <3>2, Steps DEF TierResume
  <2> QED BY <2>2, <2>3
<1> QED BY <1>2, <1>3, <1>4, <1>5 DEF Coroutine

LEMMA ReleaseSimulates ==
  ASSUME IInv, PInv, IInv', PInv', Permit, NEW p \in Caller, BeginRelease(p) \/ ReleaseExchange(p)
  PROVE  [Tier!SNext]_(Tier!svars)
<1> USE DEF IDLE, SIGNALED, STOPPED, WAITING
<1>0. Reads /\ Reads' /\ TypeOK /\ calls \in Nat /\ MaxRelease \in Nat
  BY ReadsNow, ReadsNext, MPSCAssumption DEF PInv, TypeOK
<1>1. CASE BeginRelease(p)
  <2>1. /\ pc[p] = "idle" /\ pc'[p] = "release" /\ (\A q \in Caller \ {p} : pc'[q] = pc[q])
        /\ UNCHANGED <<state, run, finished, runq, awaits, wakes>> /\ calls' = calls + 1
    BY <1>0, <1>1 DEF BeginRelease, Free, Step, TypeOK, frame
  <2>2. (Turned' <=> Turned) /\ (Woken' <=> Woken)
    BY <2>1 DEF Turned, Woken
  <2>3. Entering = {} /\ Entering' # {}
    <3>1. permits = 1
      BY <1>0, <1>1 DEF BeginRelease, PInv, OnePermit
    <3> QED BY <2>1, <3>1 DEF PInv, OnePermit, Quiet, Calling, Entering
  <2>4. Effective' = Effective
    BY <1>0, <2>1, <2>3, Before, BeforeNext
  <2> QED BY <2>1, <2>2, <2>4, Stutters DEF TierState, TierConsumer
<1>2. CASE ReleaseExchange(p)
  <2>1. /\ pc[p] = "release" /\ state \in {IDLE, WAITING} /\ Calling(p)
        /\ \A q \in Caller \ {p} : pc[q] = "idle"
        /\ \A u \in Thread : ~ Waking(u)
        /\ ~ QueuedWake
    BY <1>2 DEF ReleaseExchange, PInv, CallerWord, OnePermit, OneCall, CallOrWaker, Quiet, Calling
  <2>2. /\ UNCHANGED <<run, finished, runq, awaits, wakes, calls>> /\ state' = SIGNALED
        /\ pc'[p] = (IF state = WAITING THEN "copy" ELSE "idle")
        /\ \A q \in Caller \ {p} : pc'[q] = "idle"
    BY <1>0, <1>2, <2>1 DEF ReleaseExchange, Step, TypeOK, frame
  <2>3. ~ Turned /\ ~ Woken
    BY <2>1 DEF Turned, Woken, Waking, QueuedWake
  <2>4. Entering # {} /\ Entering' = {}
    BY <2>1, <2>2 DEF Entering
  <2>5. Effective' = Effective + 1 /\ Effective < MaxRelease
    <3>1. Effective = calls - 1 /\ Effective' = calls' /\ calls <= MaxRelease
      BY <1>0, <2>4, Before, BeforeNext DEF TypeOK
    <3> QED BY <1>0, <2>2, <3>1
  <2>6. CASE state = IDLE
    <3>1. ~ Turned' /\ ~ Woken'
      BY <2>1, <2>2, <2>6 DEF Turned, Woken, Waking, QueuedWake
    <3>2. TierState = IDLE /\ TierState' = SIGNALED /\ TierConsumer' = TierConsumer
      BY <2>2, <2>3, <2>6, <3>1 DEF TierState, TierConsumer
    <3> QED BY <2>2, <2>5, <3>2, Steps DEF TierRelease
  <2>7. CASE state = WAITING
    <3>1. TierState = WAITING
      BY <2>3, <2>7 DEF TierState
    <3>2. Owns(p)'
      BY <2>2, <2>7 DEF Owns
    <3>3. TierState' = IDLE /\ TierConsumer' = "woken"
      BY <1>0, <3>2 DEF Reads
    <3> QED BY <2>2, <2>5, <3>1, <3>3, Steps DEF TierRelease
  <2> QED BY <2>1, <2>6, <2>7
<1> QED BY <1>1, <1>2

LEMMA OwnerSimulates ==
  ASSUME IInv, PInv, IInv', PInv', NEW p \in Caller, ReleaseCopy(p) \/ ReleaseStore(p) \/ Call(p)
  PROVE  [Tier!SNext]_(Tier!svars)
<1>0. Reads /\ Reads' /\ TypeOK /\ Owns(p) /\ p \in Thread
  BY ReadsNow, ReadsNext DEF PInv, ReleaseCopy, ReleaseStore, Call, Owns, Thread
<1>1. TierState = IDLE /\ TierConsumer = "woken" /\ runq = <<>>
  BY <1>0, OwnerAlone DEF Reads
<1>2. TierState' = IDLE /\ TierConsumer' = "woken"
  <2>1. CASE ReleaseCopy(p) \/ ReleaseStore(p)
    <3>1. Owns(p)'
      BY <1>0, <2>1 DEF ReleaseCopy, ReleaseStore, Step, TypeOK, Owns
    <3> QED BY <1>0, <3>1 DEF Reads
  <2>2. CASE Call(p) /\ Worker = {}
    <3>1. run'[p] = "resume"
      BY <1>0, <2>2 DEF Call, Go, TypeOK
    <3> QED BY <1>0, <3>1 DEF Reads
  <2>3. CASE Call(p) /\ Worker # {}
    <3>1. QueuedWake'
      BY <1>1, <2>3 DEF Call, QueuedWake
    <3> QED BY <1>0, <3>1 DEF Reads
  <2> QED BY <2>1, <2>2, <2>3
<1>3. Effective' = Effective
  <2>1. calls' = calls /\ \A q \in Caller : pc'[q] = "release" <=> pc[q] = "release"
    BY <1>0 DEF ReleaseCopy, ReleaseStore, Call, Step, TypeOK
  <2>2. {q \in Caller : pc'[q] = "release"} = {q \in Caller : pc[q] = "release"}
    BY <2>1
  <2> QED BY <2>1, <2>2 DEF Effective
<1>4. awaits' = awaits /\ wakes' = wakes
  BY DEF ReleaseCopy, ReleaseStore, Call, frame
<1> QED BY <1>1, <1>2, <1>3, <1>4, Stutters

LEMMA TakeSimulates ==
  ASSUME IInv, PInv, IInv', PInv', NEW w \in Worker, Take(w)
  PROVE  [Tier!SNext]_(Tier!svars)
<1>0. Reads /\ Reads' /\ TypeOK /\ w \in Thread
  BY ReadsNow, ReadsNext DEF PInv, Thread
<1>1. runq = <<Head(runq)>> /\ Head(runq) \in {"ready", "resume"}
  BY QueueAlone
<1>2. run'[w] = Head(runq) /\ UNCHANGED <<state, pc, calls, awaits, wakes>>
  BY <1>0 DEF Take, Go, TypeOK, frame
<1>3. Effective' = Effective
  BY <1>2 DEF Effective
<1>4. CASE Head(runq) = "ready"
  <2>1. runq = <<"ready">>
    BY <1>1, <1>4
  <2>2. Running(w)' /\ run'[w] # "resume"
    BY <1>2, <1>4 DEF Running, Body
  <2> QED BY <1>0, <1>2, <1>3, <2>1, <2>2, Stutters DEF Reads
<1>5. CASE Head(runq) = "resume"
  <2>1. QueuedWake
    BY <1>1, <1>5 DEF QueuedWake
  <2> QED BY <1>0, <1>2, <1>3, <1>5, <2>1, Stutters DEF Reads
<1> QED BY <1>1, <1>4, <1>5

(***************************************************************************)
(* Both tiers are one state machine (core.h 10).  With a permit per        *)
(* release and no stop, on any executor, every step of the atomic tier is  *)
(* a step of the single-threaded one or invisible to it: await_ready       *)
(* consumes at its exchange, await_suspend suspends at its exchange or     *)
(* takes the signal there, release() takes effect at its exchange.         *)
(***************************************************************************)
THEOREM TierRefinement ==
  ASSUME Permit, Stopper = {}
  PROVE  Spec => ImplementsUnsafeSignal
<1>1. Init => Tier!SInit
  <2> SUFFICES ASSUME Init PROVE Tier!SInit
    OBVIOUS
  <2>1. IInv /\ PInv
    BY InitIInv, InitPInv
  <2>2. (\A p \in Caller : pc[p] = "idle") /\ (\A t \in Thread : run[t] \in {"off", "ready"})
    BY DEF Init
  <2>3. ~ Turned
    BY <2>2 DEF Turned
  <2>4. ~ Woken
    <3>1. \A s : s = <<"ready">> \/ s = <<>> => s # <<"resume">>
      OBVIOUS
    <3>2. runq = <<"ready">> \/ runq = <<>>
      BY DEF Init
    <3>3. runq # <<"resume">>
      BY <3>1, <3>2
    <3> QED BY <2>2, <3>3 DEF Woken
  <2>5. Effective = 0
    <3>1. Entering = {}
      BY <2>2 DEF Entering
    <3> QED BY <2>1, <3>1, Before DEF Init
  <2>6. TierState = IDLE /\ TierConsumer = "running"
    BY <2>3, <2>4 DEF Init, TierState, TierConsumer, IDLE, WAITING
  <2> QED BY <2>5, <2>6 DEF Init, Tier!SInit, TierState, TierConsumer, Turned, Tier!IDLE, IDLE
<1>2. ASSUME IInv, PInv, IInv', PInv', [Next]_vars PROVE [Tier!SNext]_(Tier!svars)
  <2> USE <1>2
  <2>1. CASE UNCHANGED vars
    <3>1. Effective' = Effective /\ (Turned' <=> Turned) /\ (Woken' <=> Woken)
      BY <2>1 DEF vars, Effective, Turned, Woken
    <3>2. UNCHANGED <<state, finished, awaits, wakes>>
      BY <2>1 DEF vars, frame
    <3> QED BY <3>1, <3>2, Stutters DEF TierState, TierConsumer
  <2>2. CASE \E t \in Thread : Coroutine(t)
    BY <2>2, CoroutineSimulates
  <2>3. CASE \E p \in Caller : BeginRelease(p) \/ BeginStop(p) \/ InCall(p)
    BY <2>3, ReleaseSimulates, OwnerSimulates, NoStop DEF InCall
  <2>4. CASE \E w \in Worker : Take(w)
    BY <2>4, TakeSimulates
  <2> QED BY <2>1, <2>2, <2>3, <2>4 DEF Next
<1> QED BY <1>1, <1>2, TokenInvariant, PermitInvariant, PTL DEF Spec, ImplementsUnsafeSignal, Tier!SSpec
=============================================================================
