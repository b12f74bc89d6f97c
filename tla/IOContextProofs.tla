-------------------------- MODULE IOContextProofs --------------------------
(***************************************************************************)
(* Safety of the poller for any devices, any number of workers, any mix of *)
(* connections and any moment of cancellation and shutdown.                *)
(*                                                                         *)
(* The heart is ResumedOnce, which is inductive with the types: the right  *)
(* to resume a coroutine comes into being when await_suspend publishes it, *)
(* an exchange that finds WAITING moves it, and the second exchange, the   *)
(* store after a release and the repair of a STOPPED can only destroy it.  *)
(* So an await may be forgotten (the violated properties of IOContext show *)
(* how) but never resumed twice.                                           *)
(***************************************************************************)
EXTENDS IOContext, TLAPS

TypeCoro ==
  /\ sig \in [Dev -> Word]
  /\ co \in [Dev -> Running \cup Resting]
  /\ on \in [Dev -> Thread]
  /\ tail \in [Thread -> [dev : Dev \cup {None}, old : Word]]
  /\ call \in [Caller -> [dev : Dev \cup {None}, step : {"no", "exchange", "repair", "store", "resume"}]]
  /\ \A c \in Caller : call[c].step # "no" => call[c].dev # None

\* Only a connection that has added its device and not yet erased it is in
\* the map.
Enrolled == \A d \in handlers : co[d] \notin {"new", "add", "done"}

Counted == arrived \in [Dev -> Nat]

Wakeups == TypeCoro /\ ResumedOnce /\ Enrolled

IInv == TypeOK /\ Counted /\ Wakeups

\* What ResumedOnce says of one device.
Claim(d) ==
  /\ sig[d] = "WAITING" \/ (\E c \in Caller : Owns(c, d)) => co[d] = "suspended"
  /\ sig[d] = "WAITING" => \A c \in Caller : ~ Owns(c, d)
  /\ ~ (Owns(Poller, d) /\ Owns(Closer, d))

-----------------------------------------------------------------------------
LEMMA InitIInv == Init => IInv
<1> SUFFICES ASSUME Init PROVE IInv
  OBVIOUS
<1> USE IOAssumption
<1>1. TypeCoro
  <2>1. sig \in [Dev -> Word]
    BY DEF Init, Word
  <2>2. co \in [Dev -> Running \cup Resting]
    BY DEF Init, Resting
  <2>3. on \in [Dev -> Thread]
    BY DEF Init, Thread
  <2>4. tail \in [Thread -> [dev : Dev \cup {None}, old : Word]]
    BY DEF Init, NoTail, Word
  <2>5. call \in [Caller -> [dev : Dev \cup {None}, step : {"no", "exchange", "repair", "store", "resume"}]]
    BY DEF Init, NoCall
  <2>6. \A c \in Caller : call[c].step = "no"
    BY DEF Init, NoCall
  <2> QED BY <2>1, <2>2, <2>3, <2>4, <2>5, <2>6 DEF TypeCoro
<1>2. TypeOK
  <2>1. /\ ready \in [Dev -> SUBSET Event] /\ batch \in [Dev -> SUBSET Event]
        /\ unread \in [Dev -> BOOLEAN] /\ peer \in [Dev -> {"open", "fin", "rst"}]
    BY DEF Init
  <2>2. \A d \in Dev : arrived[d] \in 0 .. kind[d].data
    BY DEF Init
  <2> QED BY <1>1, <2>1, <2>2 DEF Init, TypeOK, TypeCoro, None
<1>3. Counted
  BY DEF Init, Counted
<1>4. ResumedOnce
  <2>1. /\ \A d \in Dev : sig[d] # "WAITING"
        /\ \A c \in Caller : call[c].step = "no"
    BY DEF Init, NoCall
  <2>2. Poller \in Caller
    BY DEF Caller
  <2> QED BY <2>1, <2>2 DEF ResumedOnce, Owns
<1>5. Enrolled
  BY DEF Init, Enrolled
<1> QED BY <1>1, <1>2, <1>3, <1>4, <1>5 DEF IInv, Wakeups

\* Steps that neither run nor wake a coroutine.
LEMMA Aside ==
  ASSUME Wakeups, UNCHANGED coro, handlers' \subseteq handlers
  PROVE  Wakeups'
<1>1. TypeCoro'
  BY DEF Wakeups, TypeCoro, coro
<1>2. ResumedOnce'
  BY DEF Wakeups, ResumedOnce, Owns, coro
<1>3. Enrolled'
  BY DEF Wakeups, Enrolled, coro
<1> QED BY <1>1, <1>2, <1>3 DEF Wakeups

\* A step that concerns d alone: its word, its place and claims to it.
LEMMA Elsewhere ==
  ASSUME ResumedOnce, NEW d \in Dev, Claim(d)',
         \A e \in Dev \ {d} : sig'[e] = sig[e] /\ co'[e] = co[e],
         \A e \in Dev \ {d}, c \in Caller : Owns(c, e)' => Owns(c, e)
  PROVE  ResumedOnce'
<1> SUFFICES ASSUME NEW e \in Dev PROVE Claim(e)'
  BY DEF ResumedOnce, Claim
<1>1. CASE e = d
  BY <1>1
<1>2. CASE e # d
  <2>1. Claim(e)
    BY DEF ResumedOnce, Claim
  <2>2. /\ sig'[e] = sig[e] /\ co'[e] = co[e] /\ \A c \in Caller : Owns(c, e)' => Owns(c, e)
        /\ Poller \in Caller /\ Closer \in Caller
    BY <1>2 DEF Caller
  <2>3. (sig[e] = "WAITING" \/ \E c \in Caller : Owns(c, e))' => co'[e] = "suspended"
    BY <2>1, <2>2 DEF Claim
  <2>4. (sig[e] = "WAITING" => \A c \in Caller : ~ Owns(c, e))'
    BY <2>1, <2>2 DEF Claim
  <2>5. ~ (Owns(Poller, e) /\ Owns(Closer, e))'
    BY <2>1, <2>2 DEF Claim
  <2> QED BY <2>3, <2>4, <2>5 DEF Claim
<1> QED BY <1>1, <1>2

LEMMA KernelIInv ==
  ASSUME IInv, NEW d \in Dev,
         DataArrives(d) \/ PeerLeaves(d, "fin") \/ PeerLeaves(d, "rst")
  PROVE  IInv'
<1> USE IOAssumption
<1>1. CASE DataArrives(d)
  <2>1. /\ arrived' \in [Dev -> Nat]
        /\ \A e \in Dev : arrived'[e] = IF e = d THEN arrived[e] + 1 ELSE arrived[e]
    BY <1>1 DEF DataArrives, IInv, Counted
  <2>2. \A e \in Dev : arrived'[e] \in 0 .. kind[e].data
    <3>1. \A e \in Dev : arrived[e] \in 0 .. kind[e].data /\ kind[e].data \in Nat
      BY DEF IInv, TypeOK
    <3> QED BY <1>1, <2>1, <3>1 DEF DataArrives
  <2>3. ready' \in [Dev -> SUBSET Event]
    BY <1>1 DEF DataArrives, Raise, IInv, TypeOK, Event
  <2>4. Wakeups'
    BY <1>1, Aside DEF DataArrives, IInv
  <2>5. TypeOK'
    BY <1>1, <2>2, <2>3, <2>4 DEF DataArrives, IInv, TypeOK, Wakeups, TypeCoro, flags, closing, poll, Bound
  <2> QED BY <2>1, <2>4, <2>5 DEF IInv, Counted
<1>2. ASSUME NEW how \in {"fin", "rst"}, PeerLeaves(d, how)
      PROVE  IInv'
  <2>1. peer' \in [Dev -> {"open", "fin", "rst"}]
    BY <1>2 DEF PeerLeaves, IInv, TypeOK
  <2>2. ready' \in [Dev -> SUBSET Event]
    <3> DEFINE evs == IF how = "rst" THEN {"IN", "HUP"} ELSE {"IN"}
    <3>1. evs \in SUBSET Event
      BY DEF Event
    <3>2. Raise(d, evs)
      BY <1>2 DEF PeerLeaves
    <3> HIDE DEF evs
    <3> QED BY <3>1, <3>2 DEF Raise, IInv, TypeOK
  <2>3. UNCHANGED <<flags, handlers, watched, unread, arrived, coro, callbacks, closing, poll>>
    BY <1>2 DEF PeerLeaves
  <2>4. Wakeups'
    BY <2>3, Aside DEF IInv
  <2>5. TypeOK' /\ Counted'
    BY <2>1, <2>2, <2>3, <2>4 DEF IInv, TypeOK, Wakeups, TypeCoro, Counted, flags, closing, poll, Bound
  <2> QED BY <2>4, <2>5 DEF IInv
<1> QED BY <1>1, <1>2

-----------------------------------------------------------------------------
(* A coroutine runs.                                                       *)

Places == Running \cup Resting

\* A step of d's coroutine, which nobody claims before it is published.
LEMMA Moves ==
  ASSUME Wakeups, NEW d \in Dev, NEW w \in Places, NEW s \in Word, co[d] # "suspended",
         Goto(d, w), sig' = [sig EXCEPT ![d] = s], s = "WAITING" => w = "suspended",
         UNCHANGED call, on' \in [Dev -> Thread],
         tail' \in [Thread -> [dev : Dev \cup {None}, old : Word]],
         handlers' \subseteq handlers \cup {d},
         d \in handlers' => w \notin {"new", "add", "done"},
         handlers \subseteq Dev
  PROVE  Wakeups'
<1>1. sig \in [Dev -> Word] /\ co \in [Dev -> Places] /\ co' = [co EXCEPT ![d] = w]
  BY DEF Wakeups, TypeCoro, Places, Goto
<1>2. sig' \in [Dev -> Word] /\ co' \in [Dev -> Places]
  BY <1>1
<1>3. /\ sig'[d] = s /\ co'[d] = w
      /\ \A e \in Dev \ {d} : sig'[e] = sig[e] /\ co'[e] = co[e]
  BY <1>1
<1>4. TypeCoro'
  BY <1>2 DEF Wakeups, TypeCoro, Places
<1>5. ResumedOnce'
  <2>1. Claim(d)
    BY DEF Wakeups, ResumedOnce, Claim
  <2>2. \A e \in Dev, c \in Caller : Owns(c, e)' <=> Owns(c, e)
    BY DEF Owns
  <2>3. \A c \in Caller : ~ Owns(c, d)
    BY <2>1 DEF Claim
  <2>4. \A c \in Caller : ~ Owns(c, d)'
    BY <2>2, <2>3
  <2>5. Claim(d)'
    BY <1>3, <2>4 DEF Claim, Caller
  <2>6. ResumedOnce
    BY DEF Wakeups
  <2>7. \A e \in Dev \ {d}, c \in Caller : Owns(c, e)' => Owns(c, e)
    BY <2>2
  <2> QED BY <1>3, <2>5, <2>6, <2>7, Elsewhere
<1>6. Enrolled'
  BY <1>3 DEF Wakeups, Enrolled
<1> QED BY <1>4, <1>5, <1>6 DEF Wakeups

LEMMA ResourcesIInv ==
  ASSUME IInv, NEW d \in Dev,
         \/ \E t \in Thread : Start(d, t) \/ Take(d, t)
         \/ AddDevice(d) \/ Recv(d) \/ DeregisterCtl(d) \/ DeregisterErase(d)
  PROVE  IInv'
<1>1. PICK w \in Places : Goto(d, w) /\ w \notin {"suspended", "new"}
                          /\ (d \in handlers' => w \notin {"add", "done"})
  <2>1. d \in handlers => co[d] \notin {"new", "add", "done"}
    BY DEF IInv, Wakeups, Enrolled
  <2> QED BY <2>1 DEF Start, Take, AddDevice, Recv, DeregisterCtl, DeregisterErase, Places, Running, Resting
<1>2. co[d] # "suspended"
  BY DEF Start, Take, AddDevice, Recv, DeregisterCtl, DeregisterErase
<1>3. UNCHANGED <<flags, arrived, peer, sig, tail, call, callbacks, closing, poll>>
  BY DEF Start, Take, AddDevice, Recv, DeregisterCtl, DeregisterErase, kernel
<1>4. handlers' \subseteq handlers \cup {d} /\ handlers \subseteq Dev
  BY DEF Start, Take, AddDevice, Recv, DeregisterCtl, DeregisterErase, IInv, TypeOK
<1>5. on' \in [Dev -> Thread]
  <2>1. on \in [Dev -> Thread]
    BY DEF IInv, TypeOK
  <2> QED BY <2>1 DEF Start, Take, AddDevice, Recv, DeregisterCtl, DeregisterErase
<1>6. ready' \in [Dev -> SUBSET Event]
  <2>1. Readiness(d) \in SUBSET Event
    BY DEF Readiness, Event
  <2> QED BY <2>1 DEF Start, Take, AddDevice, Recv, DeregisterCtl, DeregisterErase, IInv, TypeOK, kernel
<1>7. watched' \subseteq Dev /\ unread' \in [Dev -> BOOLEAN]
  BY DEF Start, Take, AddDevice, Recv, DeregisterCtl, DeregisterErase, IInv, TypeOK, kernel
<1>8. Wakeups'
  <2>1. sig \in [Dev -> Word] /\ sig[d] \in Word /\ sig[d] # "WAITING"
        /\ tail \in [Thread -> [dev : Dev \cup {None}, old : Word]]
    BY <1>2 DEF IInv, Wakeups, TypeCoro, ResumedOnce
  <2>2. sig' = [sig EXCEPT ![d] = sig[d]]
    BY <1>3, <2>1
  <2> QED BY <1>1, <1>2, <1>3, <1>4, <1>5, <2>1, <2>2, Moves DEF IInv
<1>9. TypeOK' /\ Counted'
  BY <1>3, <1>4, <1>6, <1>7, <1>8
     DEF IInv, TypeOK, Wakeups, TypeCoro, Counted, flags, closing, poll, Bound
<1> QED BY <1>8, <1>9 DEF IInv

Awaits(d) ==
  \/ AwaitReady(d) \/ AwaitConsume(d) \/ AwaitStopped(d) \/ AwaitCheck(d) \/ AwaitRegister(d)
  \/ InlineExchange(d) \/ InlineRepair(d) \/ AwaitPublish(d) \/ AwaitResume(d)

LEMMA AwaitIInv ==
  ASSUME IInv, NEW d \in Dev, Awaits(d)
  PROVE  IInv'
<1>0. /\ sig \in [Dev -> Word] /\ sig[d] \in Word /\ on \in [Dev -> Thread] /\ handlers \subseteq Dev
      /\ tail \in [Thread -> [dev : Dev \cup {None}, old : Word]]
  BY DEF IInv, Wakeups, TypeCoro, TypeOK
<1>1. PICK w \in Places : Goto(d, w) /\ w \notin {"new", "add", "done"}
                          /\ (AwaitPublish(d) => w = "suspended")
  BY DEF Awaits, AwaitReady, AwaitConsume, AwaitStopped, AwaitCheck, AwaitRegister,
         InlineExchange, InlineRepair, AwaitPublish, AwaitResume, Places, Running, Resting
<1>2. co[d] # "suspended"
  BY DEF Awaits, AwaitReady, AwaitConsume, AwaitStopped, AwaitCheck, AwaitRegister,
         InlineExchange, InlineRepair, AwaitPublish, AwaitResume
<1>3. UNCHANGED <<flags, handlers, kernel, on, call, closing, poll>>
  BY DEF Awaits, AwaitReady, AwaitConsume, AwaitStopped, AwaitCheck, AwaitRegister,
         InlineExchange, InlineRepair, AwaitPublish, AwaitResume
<1>4. PICK s \in Word : sig' = [sig EXCEPT ![d] = s] /\ (s = "WAITING" => w = "suspended")
  <2>1. sig[d] # "WAITING" /\ sig = [sig EXCEPT ![d] = sig[d]]
    BY <1>0, <1>2 DEF IInv, Wakeups, ResumedOnce
  <2>2. CASE AwaitReady(d) \/ AwaitStopped(d) \/ AwaitCheck(d) \/ AwaitRegister(d) \/ AwaitResume(d)
    <3>1. sig' = sig
      BY <2>2 DEF AwaitReady, AwaitStopped, AwaitCheck, AwaitRegister, AwaitResume
    <3> QED BY <1>0, <2>1, <3>1
  <2>3. CASE AwaitConsume(d)
    <3> DEFINE s == IF sig[d] = "SIGNALED" THEN "IDLE" ELSE sig[d]
    <3>1. sig' = [sig EXCEPT ![d] = s]
      BY <2>3 DEF AwaitConsume
    <3>2. s \in Word /\ s # "WAITING"
      BY <1>0, <2>1 DEF Word
    <3> QED BY <3>1, <3>2
  <2>4. CASE InlineExchange(d) \/ InlineRepair(d)
    BY <2>4 DEF InlineExchange, InlineRepair, Word
  <2>5. CASE AwaitPublish(d)
    BY <1>1, <2>5 DEF AwaitPublish, Word
  <2> QED BY <2>2, <2>3, <2>4, <2>5 DEF Awaits
<1>5. tail' \in [Thread -> [dev : Dev \cup {None}, old : Word]]
  <2>1. CASE AwaitPublish(d)
    <3>1. [dev |-> d, old |-> sig[d]] \in [dev : Dev \cup {None}, old : Word]
      BY <1>0
    <3>2. tail' = tail \/ tail' = [tail EXCEPT ![on[d]] = [dev |-> d, old |-> sig[d]]]
      BY <2>1 DEF AwaitPublish
    <3> QED BY <1>0, <3>1, <3>2
  <2>2. CASE ~ AwaitPublish(d)
    <3>1. tail' = tail
      BY <2>2 DEF Awaits, AwaitReady, AwaitConsume, AwaitStopped, AwaitCheck, AwaitRegister,
                  InlineExchange, InlineRepair, AwaitResume
    <3> QED BY <1>0, <3>1
  <2> QED BY <2>1, <2>2
<1>6. Wakeups'
  BY <1>0, <1>1, <1>2, <1>3, <1>4, <1>5, Moves DEF IInv
<1>7. callbacks' \subseteq Bound
  BY DEF Awaits, AwaitReady, AwaitConsume, AwaitStopped, AwaitCheck, AwaitRegister,
         InlineExchange, InlineRepair, AwaitPublish, AwaitResume, IInv, TypeOK
<1>8. TypeOK' /\ Counted'
  BY <1>3, <1>6, <1>7 DEF IInv, TypeOK, Wakeups, TypeCoro, Counted, flags, kernel, closing, poll, Bound
<1> QED BY <1>6, <1>8 DEF IInv

\* The second exchange takes the coroutine back or comes too late.
LEMMA RetractIInv ==
  ASSUME IInv, NEW t \in Thread, Retract(t)
  PROVE  IInv'
<1> DEFINE d == tail[t].dev
<1>0. /\ sig \in [Dev -> Word] /\ co \in [Dev -> Places] /\ on \in [Dev -> Thread] /\ handlers \subseteq Dev
      /\ tail \in [Thread -> [dev : Dev \cup {None}, old : Word]] /\ d \in Dev
  BY DEF IInv, Wakeups, TypeCoro, TypeOK, Places, Retract
<1>1. UNCHANGED <<flags, handlers, kernel, call, callbacks, closing, poll>>
  BY DEF Retract
<1>2. tail' \in [Thread -> [dev : Dev \cup {None}, old : Word]]
  <2>1. NoTail \in [dev : Dev \cup {None}, old : Word]
    BY DEF NoTail, Word
  <2>2. tail' = [tail EXCEPT ![t] = NoTail]
    BY DEF Retract
  <2> QED BY <1>0, <2>1, <2>2
<1>3. PICK s \in {"STOPPED", "IDLE"} : sig' = [sig EXCEPT ![d] = s]
  BY DEF Retract
<1>4. \/ sig[d] = "WAITING" /\ co' = [co EXCEPT ![d] = "resume"] /\ on' = [on EXCEPT ![d] = t]
      \/ co' = co /\ on' = on
  BY DEF Retract, Goto
<1> HIDE DEF d
<1>5. /\ sig' \in [Dev -> Word] /\ sig'[d] # "WAITING"
      /\ \A e \in Dev \ {d} : sig'[e] = sig[e]
  BY <1>0, <1>3 DEF Word
<1>6. co' \in [Dev -> Places] /\ on' \in [Dev -> Thread]
  <2>1. "resume" \in Places
    BY DEF Places, Running
  <2> QED BY <1>0, <1>4, <2>1
<1>7. \A e \in Dev : co'[e] = co[e] \/ (e = d /\ sig[d] = "WAITING" /\ co'[e] = "resume")
  BY <1>0, <1>4
<1>8. TypeCoro'
  BY <1>1, <1>2, <1>5, <1>6 DEF IInv, Wakeups, TypeCoro, Places
<1>9. ResumedOnce'
  <2>1. Claim(d) /\ ResumedOnce
    BY <1>0 DEF IInv, Wakeups, ResumedOnce, Claim
  <2>2. \A e \in Dev, c \in Caller : Owns(c, e)' <=> Owns(c, e)
    BY <1>1 DEF Owns
  <2>3. sig[d] = "WAITING" => \A c \in Caller : ~ Owns(c, d)
    BY <2>1 DEF Claim
  <2>4. (\E c \in Caller : Owns(c, d)) => co'[d] = "suspended"
    BY <1>0, <1>7, <2>1, <2>3 DEF Claim
  <2>5. PICK e \in Dev : e = d
    BY <1>0
  <2>6. Claim(e)'
    <3>1. sig'[e] # "WAITING"
      BY <1>5, <2>5
    <3>2. (\E c \in Caller : Owns(c, e))' => co'[e] = "suspended"
      BY <2>2, <2>4, <2>5
    <3>3. ~ (Owns(Poller, e) /\ Owns(Closer, e))'
      BY <2>1, <2>2, <2>5 DEF Claim, Caller
    <3> QED BY <3>1, <3>2, <3>3 DEF Claim
  <2>7. \A f \in Dev \ {e} : sig'[f] = sig[f] /\ co'[f] = co[f]
    BY <1>5, <1>7, <2>5
  <2> QED BY <2>1, <2>2, <2>6, <2>7, Elsewhere
<1>10. Enrolled'
  BY <1>0, <1>1, <1>7 DEF IInv, Wakeups, Enrolled
<1>11. TypeOK' /\ Counted'
  BY <1>1, <1>8 DEF IInv, TypeOK, TypeCoro, Counted, flags, kernel, closing, poll, Bound
<1> QED BY <1>8, <1>9, <1>10, <1>11 DEF IInv, Wakeups

-----------------------------------------------------------------------------
(* Somebody wakes a coroutine.                                             *)

CallSteps == {"no", "exchange", "repair", "store", "resume"}

\* c enters the next step of a release() or stop() of d's signal.  It claims
\* d only if it did or if it found WAITING, and it changes d's place only
\* with a claim it gives up.
LEMMA Calling ==
  ASSUME Wakeups, NEW c \in Caller, NEW d \in Dev, NEW s \in Word, NEW w \in Places, NEW x \in CallSteps,
         s # "WAITING", sig' = [sig EXCEPT ![d] = s],
         co' = [co EXCEPT ![d] = w],
         Calls(c, d, x),
         on' \in [Dev -> Thread], UNCHANGED <<tail, handlers>>, handlers \subseteq Dev,
         x \in {"store", "resume"} => sig[d] = "WAITING" \/ Owns(c, d),
         w = co[d] \/ (Owns(c, d) /\ x = "no" /\ w \in {"resume", "queued"})
  PROVE  Wakeups'
<1>0. /\ sig \in [Dev -> Word] /\ co \in [Dev -> Places]
      /\ call \in [Caller -> [dev : Dev \cup {None}, step : CallSteps]]
      /\ tail' \in [Thread -> [dev : Dev \cup {None}, old : Word]]
      /\ \A b \in Caller : call[b].step # "no" => call[b].dev # None
  BY DEF Wakeups, TypeCoro, Places, CallSteps
<1>1. /\ sig' \in [Dev -> Word] /\ sig'[d] # "WAITING"
      /\ co' \in [Dev -> Places] /\ co'[d] = w
      /\ \A e \in Dev \ {d} : sig'[e] = sig[e] /\ co'[e] = co[e]
  BY <1>0
<1>2. /\ call' \in [Caller -> [dev : Dev \cup {None}, step : CallSteps]]
      /\ call'[c] = [dev |-> d, step |-> x]
      /\ \A b \in Caller \ {c} : call'[b] = call[b]
  <2>1. [dev |-> d, step |-> x] \in [dev : Dev \cup {None}, step : CallSteps]
    OBVIOUS
  <2>2. call' = [call EXCEPT ![c] = [dev |-> d, step |-> x]]
    BY DEF Calls
  <2> QED BY <1>0, <2>1, <2>2
<1>3. TypeCoro'
  <2>1. \A b \in Caller : call'[b].step # "no" => call'[b].dev # None
    <3>1. d # None
      BY IOAssumption DEF None
    <3>2. call'[c].dev = d
      BY <1>2
    <3> QED BY <1>0, <1>2, <3>1, <3>2
  <2> QED BY <1>0, <1>1, <1>2, <2>1 DEF TypeCoro, Places, CallSteps
<1>4. ResumedOnce'
  <2>1. Claim(d) /\ ResumedOnce
    BY DEF Wakeups, ResumedOnce, Claim
  <2>2. \A e \in Dev \ {d}, b \in Caller : Owns(b, e)' => Owns(b, e)
    BY <1>2 DEF Owns
  <2>3. \A b \in Caller \ {c} : Owns(b, d)' <=> Owns(b, d)
    BY <1>2 DEF Owns
  <2>4. Owns(c, d)' <=> x \in {"store", "resume"}
    BY <1>2 DEF Owns
  <2>5. \A b \in Caller : Owns(b, d) => co[d] = "suspended"
    BY <2>1 DEF Claim
  <2>6. \A b \in Caller \ {c} : Owns(b, d) => ~ Owns(c, d) /\ sig[d] # "WAITING"
    BY <2>1 DEF Claim, Caller
  <2>7. (\E b \in Caller : Owns(b, d))' => co'[d] = "suspended"
    BY <1>1, <2>1, <2>3, <2>4, <2>5, <2>6 DEF Claim
  <2>8. ~ (Owns(Poller, d) /\ Owns(Closer, d))'
    <3>1. Caller = {Poller, Closer} /\ Poller # Closer
      BY IOAssumption DEF Caller
    <3> QED BY <2>3, <2>4, <2>6, <3>1
  <2>9. Claim(d)'
    BY <1>1, <2>7, <2>8 DEF Claim
  <2> QED BY <1>1, <2>1, <2>2, <2>9, Elsewhere
<1>5. Enrolled'
  BY <1>1 DEF Wakeups, Enrolled
<1> QED BY <1>3, <1>4, <1>5 DEF Wakeups

LEMMA CallIInv ==
  ASSUME IInv, NEW c \in Caller, InCall(c)
  PROVE  IInv'
<1> DEFINE d == call[c].dev
<1>0. /\ sig \in [Dev -> Word] /\ co \in [Dev -> Places] /\ on \in [Dev -> Thread] /\ handlers \subseteq Dev
      /\ d \in Dev /\ c \in Thread /\ sig[d] \in Word /\ co[d] \in Places
  <2>1. d \in Dev
    BY DEF IInv, Wakeups, TypeCoro, InCall, ReleaseExchange, ReleaseRepair, ReleaseStore, Resume
  <2> QED BY <2>1 DEF IInv, Wakeups, TypeCoro, TypeOK, Places, Thread
<1>1. UNCHANGED <<flags, handlers, kernel, tail, callbacks, closing, poll>>
  BY DEF InCall, ReleaseExchange, ReleaseRepair, ReleaseStore, Resume
<1>2. sig = [sig EXCEPT ![d] = sig[d]] /\ co = [co EXCEPT ![d] = co[d]]
  BY <1>0
<1>3. Wakeups
  BY DEF IInv
<1>4. ASSUME ReleaseExchange(c) PROVE Wakeups'
  <2>1. /\ sig' = [sig EXCEPT ![d] = "SIGNALED"] /\ co' = [co EXCEPT ![d] = co[d]]
        /\ on' \in [Dev -> Thread]
    BY <1>0, <1>2, <1>4 DEF ReleaseExchange
  <2>2. PICK x \in CallSteps : Calls(c, d, x) /\ (x \in {"store", "resume"} => sig[d] = "WAITING")
    <3>1. CASE sig[d] = "WAITING"
      BY <1>4, <3>1 DEF ReleaseExchange, CallSteps
    <3>2. CASE sig[d] = "STOPPED"
      BY <1>4, <3>2 DEF ReleaseExchange, CallSteps
    <3>3. CASE sig[d] \notin {"WAITING", "STOPPED"}
      BY <1>4, <3>3 DEF ReleaseExchange, CallSteps
    <3> QED BY <3>1, <3>2, <3>3
  <2>3. "SIGNALED" \in Word
    BY DEF Word
  <2> HIDE DEF d
  <2> QED BY <1>0, <1>1, <1>3, <2>1, <2>2, <2>3, Calling
<1>5. ASSUME ReleaseRepair(c) PROVE Wakeups'
  <2>1. /\ sig' = [sig EXCEPT ![d] = "STOPPED"] /\ co' = [co EXCEPT ![d] = co[d]]
        /\ on' \in [Dev -> Thread] /\ Calls(c, d, "no")
    BY <1>0, <1>2, <1>5 DEF ReleaseRepair
  <2>2. "STOPPED" \in Word /\ "no" \in CallSteps
    BY DEF Word, CallSteps
  <2> HIDE DEF d
  <2> QED BY <1>0, <1>1, <1>3, <2>1, <2>2, Calling
<1>6. ASSUME ReleaseStore(c) PROVE Wakeups'
  <2>1. /\ sig' = [sig EXCEPT ![d] = "IDLE"] /\ co' = [co EXCEPT ![d] = co[d]]
        /\ on' \in [Dev -> Thread] /\ Calls(c, d, "resume")
    BY <1>0, <1>2, <1>6 DEF ReleaseStore
  <2>2. "IDLE" \in Word /\ "resume" \in CallSteps /\ Owns(c, d)
    BY <1>6 DEF Word, CallSteps, Owns, ReleaseStore
  <2> HIDE DEF d
  <2> QED BY <1>0, <1>1, <1>3, <2>1, <2>2, Calling
<1>7. ASSUME Resume(c) PROVE Wakeups'
  <2>1. Owns(c, d) /\ sig' = sig /\ Calls(c, d, "no") /\ "no" \in CallSteps
    BY <1>7 DEF Resume, Owns, CallSteps
  <2>2. sig[d] # "WAITING"
    BY <1>0, <2>1 DEF IInv, Wakeups, ResumedOnce
  <2>3. on' \in [Dev -> Thread]
    BY <1>0, <1>7 DEF Resume
  <2>4. PICK w \in {"resume", "queued"} : co' = [co EXCEPT ![d] = w]
    BY <1>7 DEF Resume, Goto
  <2>5. w \in Places
    BY <2>4 DEF Places, Running, Resting
  <2> HIDE DEF d
  <2> QED BY <1>0, <1>1, <1>2, <1>3, <2>1, <2>2, <2>3, <2>4, <2>5, Calling
<1>8. Wakeups'
  BY <1>4, <1>5, <1>6, <1>7 DEF InCall
<1>9. TypeOK' /\ Counted'
  BY <1>1, <1>8 DEF IInv, TypeOK, Wakeups, TypeCoro, Counted, flags, kernel, closing, poll, Bound
<1> QED BY <1>8, <1>9 DEF IInv

\* A call begins.
LEMMA BeginsCall ==
  ASSUME Wakeups, NEW c \in Caller, NEW d \in Dev, Calls(c, d, "exchange"),
         UNCHANGED <<sig, co, on, tail, handlers>>
  PROVE  Wakeups'
<1>0. call \in [Caller -> [dev : Dev \cup {None}, step : CallSteps]]
  BY DEF Wakeups, TypeCoro, CallSteps
<1>1. /\ call' \in [Caller -> [dev : Dev \cup {None}, step : CallSteps]]
      /\ call'[c] = [dev |-> d, step |-> "exchange"]
      /\ \A b \in Caller \ {c} : call'[b] = call[b]
  <2>1. [dev |-> d, step |-> "exchange"] \in [dev : Dev \cup {None}, step : CallSteps]
    BY DEF CallSteps
  <2>2. call' = [call EXCEPT ![c] = [dev |-> d, step |-> "exchange"]]
    BY DEF Calls
  <2> QED BY <1>0, <2>1, <2>2
<1>2. TypeCoro'
  <2>1. \A b \in Caller : call'[b].step # "no" => call'[b].dev # None
    BY <1>1, IOAssumption DEF None, Wakeups, TypeCoro
  <2> QED BY <1>1, <2>1 DEF Wakeups, TypeCoro, CallSteps
<1>3. ResumedOnce'
  <2>1. \A e \in Dev, b \in Caller : Owns(b, e)' => Owns(b, e)
    BY <1>1 DEF Owns
  <2>2. Claim(d)
    BY DEF Wakeups, ResumedOnce, Claim
  <2>3. Claim(d)'
    BY <2>1, <2>2 DEF Claim, Caller
  <2> QED BY <2>1, <2>3, Elsewhere DEF Wakeups
<1>4. Enrolled'
  BY DEF Wakeups, Enrolled
<1> QED BY <1>2, <1>3, <1>4 DEF Wakeups

LEMMA RunIInv ==
  ASSUME IInv, Run
  PROVE  IInv'
<1> USE IOAssumption
<1>1. CASE EpollWait
  <2>1. UNCHANGED <<flags, handlers, watched, unread, arrived, peer, coro, callbacks, closing, pinned, ppc>>
    BY <1>1 DEF EpollWait
  <2>2. ready' \in [Dev -> SUBSET Event] /\ batch' \in [Dev -> SUBSET Event]
    BY <1>1 DEF EpollWait, IInv, TypeOK
  <2>3. Wakeups'
    BY <2>1, Aside DEF IInv
  <2>4. TypeOK' /\ Counted'
    BY <2>1, <2>2, <2>3 DEF IInv, TypeOK, Wakeups, TypeCoro, Counted, flags, closing, Bound
  <2> QED BY <2>3, <2>4 DEF IInv
<1>2. ASSUME NEW d \in Dev, Lookup(d)
      PROVE  IInv'
  <2>1. UNCHANGED <<flags, handlers, kernel, coro, callbacks, closing>>
    BY <1>2 DEF Lookup
  <2>2. batch' \in [Dev -> SUBSET Event]
    <3>1. batch \in [Dev -> SUBSET Event]
      BY DEF IInv, TypeOK
    <3>2. batch' = batch \/ batch' = [batch EXCEPT ![d] = {}]
      BY <1>2 DEF Lookup
    <3> QED BY <3>1, <3>2
  <2>3. /\ pinned' \in Dev \cup {None} /\ ppc' \in {"poll", "handle", "ctl", "erase", "done"}
        /\ pinned' # None <=> ppc' \in {"handle", "ctl", "erase"}
    BY <1>2 DEF Lookup, IInv, TypeOK, None
  <2>4. Wakeups'
    BY <2>1, Aside DEF IInv
  <2>5. TypeOK' /\ Counted'
    BY <2>1, <2>2, <2>3, <2>4 DEF IInv, TypeOK, Wakeups, TypeCoro, Counted, flags, kernel, closing, Bound
  <2> QED BY <2>4, <2>5 DEF IInv
<1>3. CASE EpollHandle
  <2>1. UNCHANGED <<flags, handlers, kernel, sig, co, on, tail, callbacks, closing>> /\ pinned \in Dev
    BY <1>3 DEF EpollHandle, IInv, TypeOK
  <2>2. batch' \in [Dev -> SUBSET Event]
    <3>1. batch \in [Dev -> SUBSET Event]
      BY DEF IInv, TypeOK
    <3>2. batch' = [batch EXCEPT ![pinned] = {}]
      BY <1>3 DEF EpollHandle
    <3> QED BY <2>1, <3>1, <3>2
  <2>3. /\ pinned' \in Dev \cup {None} /\ ppc' \in {"poll", "handle", "ctl", "erase", "done"}
        /\ pinned' # None <=> ppc' \in {"handle", "ctl", "erase"}
    BY <1>3, <2>1 DEF EpollHandle, None
  <2>4. Wakeups'
    <3>1. CASE "HUP" \in batch[pinned]
      <4>1. UNCHANGED coro
        BY <1>3, <2>1, <3>1 DEF EpollHandle, coro
      <4> QED BY <2>1, <4>1, Aside DEF IInv
    <3>2. CASE "HUP" \notin batch[pinned]
      <4>1. Calls(Poller, pinned, "exchange") /\ Poller \in Caller
        BY <1>3, <3>2 DEF EpollHandle, Caller
      <4> QED BY <2>1, <4>1, BeginsCall DEF IInv
    <3> QED BY <3>1, <3>2
  <2>5. TypeOK' /\ Counted'
    BY <2>1, <2>2, <2>3, <2>4 DEF IInv, TypeOK, Wakeups, TypeCoro, Counted, flags, kernel, closing, Bound
  <2> QED BY <2>4, <2>5 DEF IInv
<1>4. CASE RemoveCtl
  <2>1. UNCHANGED <<flags, handlers, unread, arrived, peer, coro, callbacks, closing, batch, pinned>>
    BY <1>4 DEF RemoveCtl
  <2>2. ready' \in [Dev -> SUBSET Event] /\ watched' \subseteq Dev
    BY <1>4 DEF RemoveCtl, IInv, TypeOK
  <2>3. ppc = "ctl" /\ ppc' = "erase"
    BY <1>4 DEF RemoveCtl
  <2>4. Wakeups'
    BY <2>1, Aside DEF IInv
  <2>5. TypeOK' /\ Counted'
    BY <2>1, <2>2, <2>3, <2>4 DEF IInv, TypeOK, Wakeups, TypeCoro, Counted, flags, closing, Bound
  <2> QED BY <2>4, <2>5 DEF IInv
<1>5. CASE RemoveErase
  <2>1. UNCHANGED <<flags, kernel, coro, callbacks, closing, batch>>
    BY <1>5 DEF RemoveErase
  <2>2. handlers' \subseteq handlers /\ pinned' = None /\ ppc' = "poll"
    BY <1>5 DEF RemoveErase
  <2>3. Wakeups'
    BY <2>1, <2>2, Aside DEF IInv
  <2>4. TypeOK' /\ Counted'
    BY <2>1, <2>2, <2>3 DEF IInv, TypeOK, Wakeups, TypeCoro, Counted, flags, kernel, closing, Bound
  <2> QED BY <2>3, <2>4 DEF IInv
<1>6. CASE RunReturns
  <2>1. UNCHANGED <<flags, handlers, kernel, coro, callbacks, closing, batch, pinned>> /\ ppc = "poll" /\ ppc' = "done"
    BY <1>6 DEF RunReturns
  <2>2. Wakeups'
    BY <2>1, Aside DEF IInv
  <2>3. TypeOK' /\ Counted'
    BY <2>1, <2>2 DEF IInv, TypeOK, Wakeups, TypeCoro, Counted, flags, kernel, closing, Bound
  <2> QED BY <2>2, <2>3 DEF IInv
<1>7. CASE InCall(Poller)
  BY <1>7, CallIInv DEF Caller
<1> QED BY <1>1, <1>2, <1>3, <1>4, <1>5, <1>6, <1>7 DEF Run

-----------------------------------------------------------------------------
(* The closer.                                                             *)

\* The closer goes on without touching a coroutine.
LEMMA ClosesOn ==
  ASSUME IInv, UNCHANGED <<kind, coro, poll, unread, arrived, peer, notified>>,
         valid' \in BOOLEAN, stopped' \in BOOLEAN, stopReq' \in BOOLEAN,
         handlers' \subseteq handlers, watched' \subseteq watched, callbacks' \subseteq callbacks,
         ready' \in [Dev -> SUBSET Event], firing' \in Dev \cup {None},
         cpc' \in {"idle", "request", "fire", "return", "lock", "notify", "clear", "close", "done"},
         firing' # None <=> cpc' = "return"
  PROVE  IInv'
<1>1. Wakeups'
  BY Aside DEF IInv
<1>2. TypeOK' /\ Counted'
  BY <1>1 DEF IInv, TypeOK, Wakeups, TypeCoro, Counted, poll, Bound
<1> QED BY <1>1, <1>2 DEF IInv

LEMMA CloserIInv ==
  ASSUME IInv, CancelContexts \/ Shutdown \/ InShutdown
  PROVE  IInv'
<1> USE IOAssumption
<1>0. /\ ready \in [Dev -> SUBSET Event] /\ {valid, stopped, stopReq} \subseteq BOOLEAN
      /\ firing \in Dev \cup {None} /\ (firing # None <=> cpc = "return")
  BY DEF IInv, TypeOK
<1>1. CASE \/ CancelContexts \/ Shutdown \/ RequestStop \/ StopRequested
           \/ LockHandlers \/ UnlockHandlers \/ ClearHandlers
  <2>1. /\ UNCHANGED <<kind, valid, kernel, coro, callbacks, firing, poll, notified>>
        /\ handlers' \subseteq handlers
    BY <1>1 DEF CancelContexts, Shutdown, RequestStop, StopRequested, LockHandlers,
                UnlockHandlers, ClearHandlers, flags
  <2>2. /\ stopped' = stopped \/ stopped' = TRUE
        /\ stopReq' = stopReq \/ stopReq' = TRUE
    BY <1>1 DEF CancelContexts, Shutdown, RequestStop, StopRequested, LockHandlers,
                UnlockHandlers, ClearHandlers, flags
  <2>3. stopped' \in BOOLEAN
    BY <1>0, <2>2
  <2>4. stopReq' \in BOOLEAN
    BY <1>0, <2>2
  <2>5. /\ cpc # "return"
        /\ cpc' \in {"idle", "request", "fire", "lock", "notify", "clear", "close", "done"}
    BY <1>1 DEF CancelContexts, Shutdown, RequestStop, StopRequested, LockHandlers,
                UnlockHandlers, ClearHandlers
  <2>6. UNCHANGED <<unread, arrived, peer>> /\ watched' \subseteq watched /\ callbacks' \subseteq callbacks
    BY <2>1 DEF kernel
  <2>7. ready' \in [Dev -> SUBSET Event] /\ valid' \in BOOLEAN
    BY <1>0, <2>1 DEF kernel
  <2>8. firing' \in Dev \cup {None} /\ (firing' # None <=> cpc' = "return")
    BY <1>0, <2>1, <2>5
  <2> QED BY <2>1, <2>3, <2>4, <2>5, <2>6, <2>7, <2>8, ClosesOn
<1>2. CASE ClosePoller
  <2>1. ready' \in [Dev -> SUBSET Event] /\ watched' \subseteq watched
    BY <1>2 DEF ClosePoller
  <2>2. firing' \in Dev \cup {None} /\ (firing' # None <=> cpc' = "return")
    BY <1>0, <1>2 DEF ClosePoller
  <2> QED BY <1>0, <1>2, <2>1, <2>2, ClosesOn DEF ClosePoller
<1>3. ASSUME NEW d \in Dev, TakeStopCallback(d)
      PROVE  IInv'
  <2>1. /\ UNCHANGED <<flags, handlers, kernel, sig, co, on, tail, poll, notified>>
        /\ callbacks' = callbacks \ {d} /\ firing' = d /\ cpc = "fire" /\ cpc' = "return"
        /\ Calls(Closer, d, "exchange") /\ Closer \in Caller
    BY <1>3 DEF TakeStopCallback, Caller
  <2>2. Wakeups'
    BY <2>1, BeginsCall DEF IInv
  <2>3. TypeOK' /\ Counted'
    BY <2>1, <2>2 DEF IInv, TypeOK, Wakeups, TypeCoro, Counted, flags, kernel, poll, Bound, None
  <2> QED BY <2>2, <2>3 DEF IInv
<1>4. CASE StopCallbackReturns
  <2>1. /\ UNCHANGED <<flags, handlers, kernel, coro, callbacks, poll, notified>>
        /\ firing' = None /\ cpc' = "fire"
    BY <1>4 DEF StopCallbackReturns
  <2>2. ready' \in [Dev -> SUBSET Event] /\ valid' \in BOOLEAN /\ stopped' \in BOOLEAN /\ stopReq' \in BOOLEAN
    BY <1>0, <2>1 DEF flags, kernel
  <2> QED BY <2>1, <2>2, ClosesOn DEF flags, kernel
<1>5. ASSUME NEW d \in Dev, ShutdownNotify(d)
      PROVE  IInv'
  <2>1. /\ UNCHANGED <<flags, handlers, kernel, co, on, tail, callbacks, firing, poll, cpc>>
        /\ notified' = notified \cup {d} /\ sig' = [sig EXCEPT ![d] = "STOPPED"] /\ Closer \in Caller
    BY <1>5 DEF ShutdownNotify, Caller
  <2>2. /\ sig \in [Dev -> Word] /\ co \in [Dev -> Places] /\ on \in [Dev -> Thread] /\ handlers \subseteq Dev
        /\ co[d] \in Places /\ "STOPPED" \in Word
    BY DEF IInv, Wakeups, TypeCoro, TypeOK, Places, Word
  <2>3. co' = [co EXCEPT ![d] = co[d]]
    BY <2>1, <2>2
  <2>4. Wakeups'
    <3>1. CASE sig[d] = "WAITING"
      <4>1. Calls(Closer, d, "resume") /\ "resume" \in CallSteps
        BY <1>5, <3>1 DEF ShutdownNotify, CallSteps
      <4> QED BY <2>1, <2>2, <2>3, <3>1, <4>1, Calling DEF IInv
    <3>2. CASE sig[d] # "WAITING"
      <4>1. UNCHANGED call
        BY <1>5, <3>2 DEF ShutdownNotify
      <4>2. /\ sig' \in [Dev -> Word] /\ sig'[d] = "STOPPED"
            /\ \A e \in Dev \ {d} : sig'[e] = sig[e]
        BY <2>1, <2>2
      <4>3. TypeCoro' /\ Enrolled'
        BY <2>1, <4>1, <4>2 DEF IInv, Wakeups, TypeCoro, Enrolled
      <4>4. \A e \in Dev, b \in Caller : Owns(b, e)' <=> Owns(b, e)
        BY <4>1 DEF Owns
      <4>5. Claim(d) /\ ResumedOnce
        BY DEF IInv, Wakeups, ResumedOnce, Claim
      <4>6. Claim(d)'
        BY <2>1, <4>2, <4>4, <4>5 DEF Claim, Caller
      <4>7. ResumedOnce'
        BY <2>1, <4>2, <4>4, <4>5, <4>6, Elsewhere
      <4> QED BY <4>3, <4>7 DEF Wakeups
    <3> QED BY <3>1, <3>2
  <2>5. TypeOK' /\ Counted'
    BY <2>1, <2>4 DEF IInv, TypeOK, Wakeups, TypeCoro, Counted, flags, kernel, poll, Bound
  <2> QED BY <2>4, <2>5 DEF IInv
<1>6. CASE InCall(Closer)
  BY <1>6, CallIInv DEF Caller
<1> QED BY <1>1, <1>2, <1>3, <1>4, <1>5, <1>6 DEF InShutdown

-----------------------------------------------------------------------------
(***************************************************************************)
(* The inductive invariant holds of the poller, its devices and whoever    *)
(* shuts it down.                                                          *)
(***************************************************************************)
THEOREM Invariance == Spec => []IInv
<1>1. IInv /\ [Next]_vars => IInv'
  <2> SUFFICES ASSUME IInv, [Next]_vars PROVE IInv'
    OBVIOUS
  <2>1. ASSUME NEW d \in Dev,
               DataArrives(d) \/ PeerLeaves(d, "fin") \/ PeerLeaves(d, "rst")
        PROVE  IInv'
    BY <2>1, KernelIInv
  <2>2. ASSUME NEW d \in Dev, Coroutine(d)
        PROVE  IInv'
    <3>1. \/ Awaits(d)
          \/ \E t \in Thread : Start(d, t) \/ Take(d, t)
          \/ AddDevice(d) \/ Recv(d) \/ DeregisterCtl(d) \/ DeregisterErase(d)
      BY <2>2 DEF Coroutine, Awaits
    <3> QED BY <3>1, ResourcesIInv, AwaitIInv
  <2>3. ASSUME NEW t \in Thread, Retract(t)
        PROVE  IInv'
    BY <2>3, RetractIInv
  <2>4. CASE Run
    BY <2>4, RunIInv
  <2>5. CASE CancelContexts \/ Shutdown \/ InShutdown
    BY <2>5, CloserIInv
  <2>6. CASE UNCHANGED vars
    <3>1. Wakeups'
      BY <2>6, Aside DEF vars, IInv
    <3> QED BY <2>6, <3>1 DEF vars, flags, kernel, poll, closing, IInv, TypeOK, Wakeups, TypeCoro, Counted, Bound
  <2> QED BY <2>1, <2>2, <2>3, <2>4, <2>5, <2>6 DEF Next
<1> QED BY InitIInv, <1>1, PTL DEF Spec

(***************************************************************************)
(* No coroutine is resumed twice for one await, while it runs or after it  *)
(* ended, with any interleaving of await_suspend, release() and stop() on  *)
(* the poller, the closer and the workers; and once the poller is closed   *)
(* and the connections have ended no handler is left in the map.  No       *)
(* condition on the build, the executors or the cancellation domains.      *)
(***************************************************************************)
THEOREM SafetyHolds == Spec => []Safety
<1>1. IInv => Safety
  BY DEF IInv, Wakeups, Safety, NothingLeft, Enrolled, TypeOK
<1> QED BY Invariance, <1>1, PTL

(***************************************************************************)
(* On a build that keeps the guard of shutdown's loop alive, no step of    *)
(* another thread changes the map while the loop iterates over it: adding, *)
(* erasing and the poller's own removal all need the lock exclusively.     *)
(***************************************************************************)
THEOREM IterationIsStable ==
  ASSUME LoopLocked
  PROVE  Spec => IterationStable
<1>1. [Next]_vars => [cpc = "notify" /\ cpc' = "notify" => handlers' = handlers]_vars
  <2> SUFFICES ASSUME Next, cpc = "notify", cpc' = "notify"
               PROVE  handlers' = handlers
    OBVIOUS
  <2>0. ~ Exclusive
    BY LoopLocked DEF Exclusive
  <2>1. ASSUME NEW d \in Dev,
               DataArrives(d) \/ PeerLeaves(d, "fin") \/ PeerLeaves(d, "rst")
        PROVE  handlers' = handlers
    BY <2>1 DEF DataArrives, PeerLeaves
  <2>2. ASSUME NEW d \in Dev, Coroutine(d)
        PROVE  handlers' = handlers
    BY <2>0, <2>2 DEF Coroutine, Start, Take, AddDevice, Recv, AwaitReady, AwaitConsume, AwaitStopped,
                      AwaitCheck, AwaitRegister, InlineExchange, InlineRepair, AwaitPublish,
                      AwaitResume, DeregisterCtl, DeregisterErase
  <2>3. ASSUME NEW t \in Thread, Retract(t)
        PROVE  handlers' = handlers
    BY <2>3 DEF Retract
  <2>4. ASSUME NEW c \in Caller, InCall(c)
        PROVE  handlers' = handlers
    BY <2>4 DEF InCall, ReleaseExchange, ReleaseRepair, ReleaseStore, Resume
  <2>5. CASE Run
    BY <2>0, <2>4, <2>5 DEF Run, EpollWait, Lookup, EpollHandle, RemoveCtl, RemoveErase, RunReturns, Caller
  <2>6. CASE CancelContexts \/ Shutdown \/ InShutdown
    BY <2>4, <2>6 DEF CancelContexts, Shutdown, InShutdown, RequestStop, TakeStopCallback,
                ShutdownNotify, StopCallbackReturns, StopRequested, Caller,
                LockHandlers, UnlockHandlers, ClearHandlers, ClosePoller
  <2> QED BY <2>1, <2>2, <2>3, <2>5, <2>6 DEF Next
<1> QED BY <1>1, PTL DEF Spec, IterationStable
=============================================================================
