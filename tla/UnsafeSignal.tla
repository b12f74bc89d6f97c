---------------------------- MODULE UnsafeSignal ----------------------------
(***************************************************************************)
(* The signal state machine of include/xsl/coro/signal/core.h in its       *)
(* single-threaded tier: every operation is one step.  It is the meaning   *)
(* that the atomic tier, module MPSCSignal, has to preserve.               *)
(*                                                                         *)
(* The consumer is a coroutine that awaits the signal in a loop until an   *)
(* await yields false or it has done MaxAwait awaits.  Resuming it goes    *)
(* through the executor of its context, so a woken consumer ("woken") may  *)
(* run later than the release that woke it.                                *)
(***************************************************************************)
EXTENDS Integers

CONSTANTS MaxAwait,     \* bound: awaits the consumer performs
          MaxRelease    \* bound: calls of release()

IDLE == "IDLE"
SIGNALED == "SIGNALED"
STOPPED == "STOPPED"
WAITING == "WAITING"

VARIABLES
  state,      \* _state
  consumer,   \* "running", "suspended", "woken" or "finished"
  awaits,     \* awaits begun
  wakes,      \* awaits that yielded true
  released    \* calls of release()

svars == <<state, consumer, awaits, wakes, released>>

SInit ==
  /\ state = IDLE /\ consumer = "running"
  /\ awaits = 1 /\ wakes = 0 /\ released = 0

(***************************************************************************)
(* await_ready finds a signal, which it consumes, or a stop; the coroutine *)
(* goes straight on to await_resume.                                       *)
(***************************************************************************)
AwaitReady ==
  /\ consumer = "running" /\ state \in {SIGNALED, STOPPED}
  /\ state' = IF state = SIGNALED THEN IDLE ELSE STOPPED
  /\ consumer' = "woken"
  /\ UNCHANGED <<awaits, wakes, released>>

AwaitSuspend ==
  /\ consumer = "running" /\ state \notin {SIGNALED, STOPPED}
  /\ state' = WAITING
  /\ consumer' = "suspended"
  /\ UNCHANGED <<awaits, wakes, released>>

(***************************************************************************)
(* await_resume reads the state, and the consumer goes around its loop or  *)
(* leaves it.                                                              *)
(***************************************************************************)
Resume ==
  /\ consumer = "woken"
  /\ wakes' = IF state # STOPPED THEN wakes + 1 ELSE wakes
  /\ IF state # STOPPED /\ awaits < MaxAwait
       THEN consumer' = "running" /\ awaits' = awaits + 1
       ELSE consumer' = "finished" /\ awaits' = awaits
  /\ UNCHANGED <<state, released>>

Release ==
  /\ released < MaxRelease
  /\ released' = released + 1
  /\ state' = CASE state = IDLE -> SIGNALED
                [] state = WAITING -> IDLE
                [] OTHER -> state
  /\ consumer' = IF state = WAITING THEN "woken" ELSE consumer
  /\ UNCHANGED <<awaits, wakes>>

Stop ==
  /\ state # STOPPED
  /\ state' = STOPPED
  /\ consumer' = IF state = WAITING THEN "woken" ELSE consumer
  /\ UNCHANGED <<awaits, wakes, released>>

SNext == AwaitReady \/ AwaitSuspend \/ Resume \/ Release \/ Stop

SSpec == SInit /\ [][SNext]_svars
=============================================================================
