----------------------------- MODULE IOContext -----------------------------
(***************************************************************************)
(* The epoll poller (sys/io/context/epoll.h), the devices registered in it *)
(* (asio/io.h) and the connections that await them: a poller thread inside *)
(* run(), another thread that cancels contexts and shuts the poller down,  *)
(* and one coroutine per device that receives until the peer is gone or    *)
(* an await yields false, then deregisters the device (asio/http/conn.h).  *)
(*                                                                         *)
(* Awaits go through AwaiterWrapper (coro/core/task.h), which registers a  *)
(* stop callback for the await with the stop source of the context.  The   *)
(* signal of a device is an MPSCSignal without the permits of its tests:   *)
(* one step per atomic access of its word, as in module MPSCSignal, so     *)
(* that await_suspend may still be about its second exchange when another  *)
(* thread has resumed the coroutine it published.                          *)
(*                                                                         *)
(* A coroutine runs on the thread that woke it when its context has a      *)
(* NoopExecutor (what PollerGroup uses), else on a worker of its pool.     *)
(* While a thread runs a coroutine its own code stands still.              *)
(*                                                                         *)
(* shutdown() iterates over `*handlers.lock_shared()'.  Whether the guard, *)
(* a temporary of the range expression, lives as long as the loop depends  *)
(* on the build: C++26, which the build files ask for, says so (P2718R0),  *)
(* the GCC 14 of the CI destroys it before the first iteration.  Constant  *)
(* LoopLocked says which build is meant.                                   *)
(***************************************************************************)
EXTENDS Integers, FiniteSets

CONSTANTS
  Dev,        \* devices, one file descriptor each
  Poller,     \* the thread inside run()
  Closer,     \* the thread that calls cancel_contexts() and shutdown()
  Worker,     \* the workers of the thread pools
  Kinds,      \* the kinds of connection the devices may have, see below
  LoopLocked  \* the build keeps the guard of shutdown's loop alive

ASSUME IOAssumption ==
  /\ Poller # Closer /\ {Poller, Closer} \cap (Dev \cup Worker) = {}
  /\ LoopLocked \in BOOLEAN
  /\ "none" \notin Dev
  \* pool: the workers of the executor, {} for a NoopExecutor; start: the
  \* thread that spawns the connection; bound: the context shares the
  \* poller's stop source; resets: the peer may reset the connection
  \* (EPOLLHUP); data: bound on how often data arrives; spawned: there is
  \* such a connection at all.
  /\ \A k \in Kinds : /\ DOMAIN k = Dev
                      /\ \A d \in Dev : /\ k[d].pool \subseteq Worker
                                        /\ k[d].start \in Dev \cup Worker \cup {Poller}
                                        /\ {k[d].bound, k[d].resets, k[d].spawned} \subseteq BOOLEAN
                                        /\ k[d].data \in Nat

None == "none"
Caller == {Poller, Closer}
Thread == Dev \cup Worker \cup Caller

VARIABLES
  kind,       \* kind[d]: what was chosen when d's connection was spawned
  valid,      \* fd # -1
  stopped,    \* stopped_
  stopReq,    \* _stop.stop_requested()
  handlers,   \* devices in the handlers map
  watched,    \* devices in the epoll interest set
  ready,      \* ready[d]: events epoll holds for d, edge triggered
  unread,     \* unread[d]: data waits in the socket buffer
  arrived,    \* arrived[d]: how often data has come
  peer,       \* peer[d]: "open", "fin" or "rst"
  sig,        \* sig[d]: the read signal of d
  co,         \* co[d]: where d's coroutine is
  on,         \* on[d]: the thread it runs on
  tail,       \* tail[t]: the await_suspend that t has yet to leave by its
              \* second exchange, with the `old' of the first
  call,       \* call[c]: the release() or stop() that c is in
  callbacks,  \* devices whose await has a stop callback registered
  firing,     \* the device whose stop callback is being invoked
  batch,      \* batch[d]: events of d the poller has fetched, not yet handled
  pinned,     \* the device whose event the poller handles
  ppc, cpc,   \* where the poller and the closer are
  notified    \* handlers that shutdown() has already notified

flags == <<kind, valid, stopped, stopReq>>
kernel == <<watched, ready, unread, arrived, peer>>
coro == <<sig, co, on, tail, call>>
poll == <<batch, pinned, ppc>>
closing == <<firing, cpc, notified>>
vars == <<flags, handlers, kernel, coro, callbacks, poll, closing>>

Event == {"IN", "HUP"}
Resting == {"new", "suspended", "queued", "done"}
Running == {"add", "recv", "ready", "consume", "check", "wrap", "register", "inline", "restore", "publish", "resume", "ctl", "erase"}
Word == {"IDLE", "SIGNALED", "STOPPED", "WAITING"}

NoTail == [dev |-> None, old |-> "IDLE"]
NoCall == [dev |-> None, step |-> "no"]

Bound == {d \in Dev : kind[d].bound}
Inline == {d \in Dev : kind[d].pool = {}}

TypeOK ==
  /\ kind \in Kinds
  /\ valid \in BOOLEAN /\ stopped \in BOOLEAN /\ stopReq \in BOOLEAN
  /\ handlers \subseteq Dev /\ watched \subseteq Dev
  /\ ready \in [Dev -> SUBSET Event] /\ batch \in [Dev -> SUBSET Event]
  /\ unread \in [Dev -> BOOLEAN]
  /\ \A d \in Dev : arrived[d] \in 0 .. kind[d].data
  /\ peer \in [Dev -> {"open", "fin", "rst"}]
  /\ sig \in [Dev -> Word]
  /\ co \in [Dev -> Running \cup Resting]
  /\ on \in [Dev -> Thread]
  /\ tail \in [Thread -> [dev : Dev \cup {None}, old : Word]]
  /\ call \in [Caller -> [dev : Dev \cup {None}, step : {"no", "exchange", "repair", "store", "resume"}]]
  /\ \A c \in Caller : call[c].step # "no" => call[c].dev # None
  /\ callbacks \subseteq Bound
  /\ firing \in Dev \cup {None} /\ pinned \in Dev \cup {None}
  /\ firing # None <=> cpc = "return"
  /\ pinned # None <=> ppc \in {"handle", "ctl", "erase"}
  /\ ppc \in {"poll", "handle", "ctl", "erase", "done"}
  /\ cpc \in {"idle", "request", "fire", "return", "lock", "notify", "clear", "close", "done"}
  /\ notified \subseteq Dev

Init ==
  /\ kind \in Kinds
  /\ valid = TRUE /\ stopped = FALSE /\ stopReq = FALSE
  /\ handlers = {} /\ watched = {} /\ callbacks = {} /\ notified = {}
  /\ ready = [d \in Dev |-> {}] /\ batch = [d \in Dev |-> {}]
  /\ unread = [d \in Dev |-> FALSE] /\ arrived = [d \in Dev |-> 0]
  /\ peer = [d \in Dev |-> "open"]
  /\ sig = [d \in Dev |-> "IDLE"]
  /\ co = [d \in Dev |-> IF kind[d].spawned THEN "new" ELSE "done"] /\ on = [d \in Dev |-> d]
  /\ tail = [t \in Thread |-> NoTail] /\ call = [c \in Caller |-> NoCall]
  /\ firing = None /\ pinned = None
  /\ ppc = "poll" /\ cpc = "idle"

\* t executes no coroutine and no rest of an await_suspend.
Free(t) == tail[t].dev = None /\ \A d \in Dev : on[d] = t => co[d] \in Resting
\* The poller or the closer is at its own code.
Idle(c) == Free(c) /\ call[c].step = "no"

\* handlers can be locked exclusively: only shutdown's loop keeps a lock over
\* several steps, a shared one.
Exclusive == ~ (cpc = "notify" /\ LoopLocked)

Goto(d, where) == co' = [co EXCEPT ![d] = where]

-----------------------------------------------------------------------------
(* The kernel.                                                             *)

Raise(d, evs) ==
  ready' = IF d \in watched THEN [ready EXCEPT ![d] = @ \cup evs] ELSE ready

DataArrives(d) ==
  /\ peer[d] = "open" /\ arrived[d] < kind[d].data
  /\ unread' = [unread EXCEPT ![d] = TRUE]
  /\ arrived' = [arrived EXCEPT ![d] = @ + 1]
  /\ Raise(d, {"IN"})
  /\ UNCHANGED <<flags, handlers, watched, peer, coro, callbacks, closing,
                 poll>>

PeerLeaves(d, how) ==
  /\ kind[d].spawned /\ peer[d] = "open" /\ (how = "rst" => kind[d].resets)
  /\ peer' = [peer EXCEPT ![d] = how]
  /\ Raise(d, IF how = "rst" THEN {"IN", "HUP"} ELSE {"IN"})
  /\ UNCHANGED <<flags, handlers, watched, unread, arrived, coro, callbacks,
                 closing, poll>>

-----------------------------------------------------------------------------
(* release() and stop() of a signal, by the poller or the closer.  Whoever *)
(* finds WAITING owns the continuation.                                    *)

Calls(c, d, step) == call' = [call EXCEPT ![c] = [dev |-> d, step |-> step]]
Owns(c, d) == call[c].dev = d /\ call[c].step \in {"store", "resume"}

ReleaseExchange(c) ==
  /\ call[c].step = "exchange"
  /\ LET d == call[c].dev
     IN  /\ sig' = [sig EXCEPT ![d] = "SIGNALED"]
         /\ Calls(c, d, CASE sig[d] = "WAITING" -> "store"
                          [] sig[d] = "STOPPED" -> "repair"
                          [] OTHER -> "no")
  /\ UNCHANGED <<flags, handlers, kernel, co, on, tail, callbacks, closing, poll>>

\* The sticky stop is put back.
ReleaseRepair(c) ==
  /\ call[c].step = "repair"
  /\ sig' = [sig EXCEPT ![call[c].dev] = "STOPPED"]
  /\ Calls(c, call[c].dev, "no")
  /\ UNCHANGED <<flags, handlers, kernel, co, on, tail, callbacks, closing, poll>>

ReleaseStore(c) ==
  /\ call[c].step = "store"
  /\ sig' = [sig EXCEPT ![call[c].dev] = "IDLE"]
  /\ Calls(c, call[c].dev, "resume")
  /\ UNCHANGED <<flags, handlers, kernel, co, on, tail, callbacks, closing, poll>>

\* fn(h): the coroutine runs here, or the pool queues it.
Resume(c) ==
  /\ call[c].step = "resume"
  /\ LET d == call[c].dev
     IN  IF d \in Inline THEN Goto(d, "resume") /\ on' = [on EXCEPT ![d] = c]
                         ELSE Goto(d, "queued") /\ UNCHANGED on
  /\ Calls(c, call[c].dev, "no")
  /\ UNCHANGED <<flags, handlers, kernel, sig, tail, callbacks, closing, poll>>

InCall(c) == ReleaseExchange(c) \/ ReleaseRepair(c) \/ ReleaseStore(c) \/ Resume(c)

-----------------------------------------------------------------------------
(* The coroutine of device d.                                              *)

\* The connection is spawned, or a worker takes its resumption off the queue.
Start(d, t) ==
  /\ co[d] = "new" /\ t = kind[d].start /\ Free(t)
  /\ t = Poller => ppc = "poll" /\ Idle(Poller)
  /\ Goto(d, "add")
  /\ on' = [on EXCEPT ![d] = t]
  /\ UNCHANGED <<flags, handlers, kernel, sig, tail, call, callbacks, closing, poll>>
Take(d, w) ==
  /\ co[d] = "queued" /\ w \in kind[d].pool /\ Free(w)
  /\ Goto(d, "resume")
  /\ on' = [on EXCEPT ![d] = w]
  /\ UNCHANGED <<flags, handlers, kernel, sig, tail, call, callbacks, closing, poll>>

Readiness(d) == (IF unread[d] \/ peer[d] # "open" THEN {"IN"} ELSE {})
                \cup (IF peer[d] = "rst" THEN {"HUP"} ELSE {})

\* init_async_device and IOContext::add; on a closed poller it fails.
AddDevice(d) ==
  /\ co[d] = "add" /\ Exclusive
  /\ IF valid
       THEN /\ watched' = watched \cup {d}
            /\ ready' = [ready EXCEPT ![d] = Readiness(d)]
            /\ handlers' = handlers \cup {d}
            /\ Goto(d, "recv")
       ELSE Goto(d, "done") /\ UNCHANGED <<watched, ready, handlers>>
  /\ UNCHANGED <<flags, unread, arrived, peer, sig, on, tail, call, callbacks, closing, poll>>

\* ::recv succeeds and the connection goes around, finds the peer gone, or
\* would block.
Recv(d) ==
  /\ co[d] = "recv"
  /\ unread' = [unread EXCEPT ![d] = FALSE]
  /\ Goto(d, IF unread[d] THEN "recv"
             ELSE IF peer[d] # "open" THEN "ctl" ELSE "ready")
  /\ UNCHANGED <<flags, handlers, watched, ready, arrived, peer, sig, on, tail, call,
                 callbacks, closing, poll>>

\* await_ready of the signal: a load, the compare_exchange that consumes,
\* which is ready whether or not it succeeds, and a second load.
AwaitReady(d) ==
  /\ co[d] = "ready"
  /\ Goto(d, IF sig[d] = "SIGNALED" THEN "consume" ELSE "check")
  /\ UNCHANGED <<flags, handlers, kernel, sig, on, tail, call, callbacks, closing, poll>>
AwaitConsume(d) ==
  /\ co[d] = "consume"
  /\ sig' = [sig EXCEPT ![d] = IF @ = "SIGNALED" THEN "IDLE" ELSE @]
  /\ Goto(d, "resume")
  /\ UNCHANGED <<flags, handlers, kernel, on, tail, call, callbacks, closing, poll>>
AwaitStopped(d) ==
  /\ co[d] = "check"
  /\ Goto(d, IF sig[d] = "STOPPED" THEN "resume" ELSE "wrap")
  /\ UNCHANGED <<flags, handlers, kernel, sig, on, tail, call, callbacks, closing, poll>>

Cancelled(d) == d \in Bound /\ stopReq

\* AwaiterWrapper::await_suspend: already cancelled?
AwaitCheck(d) ==
  /\ co[d] = "wrap"
  /\ Goto(d, IF Cancelled(d) THEN "resume" ELSE "register")
  /\ UNCHANGED <<flags, handlers, kernel, sig, on, tail, call, callbacks, closing, poll>>

\* Mutant: a callback registered after the stop request is not invoked.
AwaitRegisterLate(d) ==
  /\ co[d] = "register"
  /\ callbacks' = callbacks \cup ({d} \cap Bound)
  /\ Goto(d, "publish")
  /\ UNCHANGED <<flags, handlers, kernel, sig, on, tail, call, closing, poll>>

\* Registering on a source that was stopped invokes the callback here: the
\* coroutine itself releases its signal.
AwaitRegister(d) ==
  /\ co[d] = "register"
  /\ callbacks' = IF Cancelled(d) THEN callbacks ELSE callbacks \cup ({d} \cap Bound)
  /\ Goto(d, IF Cancelled(d) THEN "inline" ELSE "publish")
  /\ UNCHANGED <<flags, handlers, kernel, sig, on, tail, call, closing, poll>>
InlineExchange(d) ==
  /\ co[d] = "inline"
  /\ sig' = [sig EXCEPT ![d] = "SIGNALED"]
  /\ Goto(d, IF sig[d] = "STOPPED" THEN "restore" ELSE "publish")
  /\ UNCHANGED <<flags, handlers, kernel, on, tail, call, callbacks, closing, poll>>
InlineRepair(d) ==
  /\ co[d] = "restore"
  /\ sig' = [sig EXCEPT ![d] = "STOPPED"]
  /\ Goto(d, "publish")
  /\ UNCHANGED <<flags, handlers, kernel, on, tail, call, callbacks, closing, poll>>

\* The first exchange of the signal's await_suspend publishes the coroutine;
\* unless the word was IDLE its thread has the second one to do.
AwaitPublish(d) ==
  /\ co[d] = "publish"
  /\ sig' = [sig EXCEPT ![d] = "WAITING"]
  /\ tail' = IF sig[d] = "IDLE" THEN tail ELSE [tail EXCEPT ![on[d]] = [dev |-> d, old |-> sig[d]]]
  /\ Goto(d, "suspended")
  /\ UNCHANGED <<flags, handlers, kernel, on, call, callbacks, closing, poll>>

\* Mutant: the second exchange does not look at what it took back.
RetractBlind(t) ==
  /\ tail[t].dev # None
  /\ LET d == tail[t].dev
     IN  /\ sig' = [sig EXCEPT ![d] = IF tail[t].old = "STOPPED" THEN "STOPPED" ELSE "IDLE"]
         /\ Goto(d, "resume") /\ on' = [on EXCEPT ![d] = t]
  /\ tail' = [tail EXCEPT ![t] = NoTail]
  /\ UNCHANGED <<flags, handlers, kernel, call, callbacks, closing, poll>>

\* The second exchange: t goes on with the coroutine if WAITING was there.
Retract(t) ==
  /\ tail[t].dev # None
  /\ LET d == tail[t].dev
     IN  /\ sig' = [sig EXCEPT ![d] = IF tail[t].old = "STOPPED" THEN "STOPPED" ELSE "IDLE"]
         /\ IF sig[d] = "WAITING" THEN Goto(d, "resume") /\ on' = [on EXCEPT ![d] = t] ELSE UNCHANGED <<co, on>>
  /\ tail' = [tail EXCEPT ![t] = NoTail]
  /\ UNCHANGED <<flags, handlers, kernel, call, callbacks, closing, poll>>

\* AwaiterWrapper::await_resume.  Unregistering waits for a callback that
\* runs on another thread; then cancellation wins over the signal.
AwaitResume(d) ==
  /\ co[d] = "resume"
  /\ firing = d => on[d] = Closer
  /\ callbacks' = callbacks \ {d}
  /\ Goto(d, IF Cancelled(d) \/ sig[d] = "STOPPED" THEN "ctl" ELSE "recv")
  /\ UNCHANGED <<flags, handlers, kernel, sig, on, tail, call, closing, poll>>

\* deregister -> IOContext::remove: first epoll_ctl, then the map.
DeregisterCtl(d) ==
  /\ co[d] = "ctl"
  /\ watched' = watched \ {d}
  /\ ready' = [ready EXCEPT ![d] = {}]
  /\ Goto(d, "erase")
  /\ UNCHANGED <<flags, handlers, unread, arrived, peer, sig, on, tail, call, callbacks,
                 closing, poll>>

\* Mutant: the map is changed without its lock.
DeregisterEraseUnlocked(d) ==
  /\ co[d] = "erase"
  /\ handlers' = handlers \ {d}
  /\ Goto(d, "done")
  /\ UNCHANGED <<flags, kernel, sig, on, tail, call, callbacks, closing, poll>>

DeregisterErase(d) ==
  /\ co[d] = "erase" /\ Exclusive
  /\ handlers' = handlers \ {d}
  /\ Goto(d, "done")
  /\ UNCHANGED <<flags, kernel, sig, on, tail, call, callbacks, closing, poll>>

Coroutine(d) ==
  \/ \E t \in Thread : Start(d, t) \/ Take(d, t)
  \/ AddDevice(d) \/ Recv(d) \/ AwaitReady(d) \/ AwaitConsume(d) \/ AwaitStopped(d)
  \/ AwaitCheck(d) \/ AwaitRegister(d) \/ InlineExchange(d) \/ InlineRepair(d)
  \/ AwaitPublish(d) \/ AwaitResume(d) \/ DeregisterCtl(d) \/ DeregisterErase(d)

-----------------------------------------------------------------------------
(* run(), on the poller thread.                                            *)

Fetched == {d \in Dev : batch[d] # {}}

EpollWait ==
  /\ ppc = "poll" /\ Idle(Poller) /\ valid /\ Fetched = {}
  /\ \E d \in Dev : ready[d] # {}
  /\ batch' = ready
  /\ ready' = [d \in Dev |-> {}]
  /\ UNCHANGED <<flags, handlers, watched, unread, arrived, peer, coro,
                 callbacks, closing, pinned, ppc>>

\* Pin the handler of the next event, or drop the event if it has none.
Lookup(d) ==
  /\ ppc = "poll" /\ Idle(Poller) /\ d \in Fetched
  /\ IF d \in handlers
       THEN pinned' = d /\ ppc' = "handle" /\ UNCHANGED batch
       ELSE batch' = [batch EXCEPT ![d] = {}] /\ UNCHANGED <<pinned, ppc>>
  /\ UNCHANGED <<flags, handlers, kernel, coro, callbacks, closing>>

\* Mutant: the event is consumed without telling the subscriber.
EpollHandleSilent ==
  /\ ppc = "handle"
  /\ batch' = [batch EXCEPT ![pinned] = {}]
  /\ IF "HUP" \in batch[pinned]
       THEN ppc' = "ctl" /\ pinned' = pinned
       ELSE ppc' = "poll" /\ pinned' = None
  /\ UNCHANGED <<flags, handlers, kernel, coro, callbacks, closing>>

\* epoll_handle: a hang-up asks for removal and publishes nothing, anything
\* else releases the signal.
EpollHandle ==
  /\ ppc = "handle"
  /\ batch' = [batch EXCEPT ![pinned] = {}]
  /\ IF "HUP" \in batch[pinned]
       THEN ppc' = "ctl" /\ UNCHANGED <<pinned, call>>
       ELSE /\ ppc' = "poll" /\ pinned' = None
            /\ Calls(Poller, pinned, "exchange")
  /\ UNCHANGED <<flags, handlers, kernel, sig, co, on, tail, callbacks, closing>>

\* run() itself removes a device that hung up.
RemoveCtl ==
  /\ ppc = "ctl"
  /\ watched' = watched \ {pinned}
  /\ ready' = [ready EXCEPT ![pinned] = {}]
  /\ ppc' = "erase"
  /\ UNCHANGED <<flags, handlers, unread, arrived, peer, coro, callbacks,
                 closing, batch, pinned>>

RemoveErase ==
  /\ ppc = "erase" /\ Exclusive
  /\ handlers' = handlers \ {pinned}
  /\ pinned' = None
  /\ ppc' = "poll"
  /\ UNCHANGED <<flags, kernel, coro, callbacks, closing, batch>>

RunReturns ==
  /\ ppc = "poll" /\ Idle(Poller) /\ ~ valid /\ Fetched = {}
  /\ ppc' = "done"
  /\ UNCHANGED <<flags, handlers, kernel, coro, callbacks, closing, batch,
                 pinned>>

Run == EpollWait \/ (\E d \in Dev : Lookup(d)) \/ EpollHandle \/ RemoveCtl
       \/ RemoveErase \/ RunReturns \/ InCall(Poller)

-----------------------------------------------------------------------------
(* cancel_contexts() and shutdown(), on the closer's thread.               *)

CancelContexts ==
  /\ cpc = "idle" /\ Idle(Closer) /\ ~ stopReq
  /\ stopReq' = TRUE
  /\ cpc' = "fire"
  /\ UNCHANGED <<kind, valid, stopped, handlers, kernel, coro, callbacks,
                 firing, poll, notified>>

Shutdown ==
  /\ cpc = "idle" /\ Idle(Closer) /\ valid
  /\ stopped' = TRUE
  /\ cpc' = "request"
  /\ UNCHANGED <<kind, valid, stopReq, handlers, kernel, coro, callbacks,
                 firing, poll, notified>>

RequestStop ==
  /\ cpc = "request"
  /\ stopReq' = TRUE
  /\ cpc' = "fire"
  /\ UNCHANGED <<kind, valid, stopped, handlers, kernel, coro, callbacks,
                 firing, poll, notified>>

\* request_stop takes the callbacks off its list one after the other and
\* invokes them: each releases the signal of its await.
TakeStopCallback(d) ==
  /\ cpc = "fire" /\ d \in callbacks
  /\ callbacks' = callbacks \ {d}
  /\ firing' = d
  /\ Calls(Closer, d, "exchange")
  /\ cpc' = "return"
  /\ UNCHANGED <<flags, handlers, kernel, sig, co, on, tail, poll, notified>>

StopCallbackReturns ==
  /\ cpc = "return" /\ Idle(Closer)
  /\ firing' = None
  /\ cpc' = "fire"
  /\ UNCHANGED <<flags, handlers, kernel, coro, callbacks, poll, notified>>

\* request_stop returns, to cancel_contexts() or to shutdown().
StopRequested ==
  /\ cpc = "fire" /\ callbacks = {}
  /\ cpc' = IF stopped THEN "lock" ELSE "idle"
  /\ UNCHANGED <<flags, handlers, kernel, coro, callbacks, firing, poll,
                 notified>>

LockHandlers ==
  /\ cpc = "lock"
  /\ cpc' = "notify"
  /\ UNCHANGED <<flags, handlers, kernel, coro, callbacks, firing, poll,
                 notified>>

\* shutdown_notify() -> stop(): the exchange, and the continuation if it was
\* there.
ShutdownNotify(d) ==
  /\ cpc = "notify" /\ Idle(Closer) /\ d \in handlers \ notified
  /\ sig' = [sig EXCEPT ![d] = "STOPPED"]
  /\ IF sig[d] = "WAITING" THEN Calls(Closer, d, "resume") ELSE UNCHANGED call
  /\ notified' = notified \cup {d}
  /\ UNCHANGED <<flags, handlers, kernel, co, on, tail, callbacks, firing, poll, cpc>>

UnlockHandlers ==
  /\ cpc = "notify" /\ Idle(Closer) /\ handlers \subseteq notified
  /\ cpc' = "clear"
  /\ UNCHANGED <<flags, handlers, kernel, coro, callbacks, firing, poll,
                 notified>>

ClearHandlers ==
  /\ cpc = "clear"
  /\ handlers' = {}
  /\ cpc' = "close"
  /\ UNCHANGED <<flags, kernel, coro, callbacks, firing, poll, notified>>

\* Mutant: the epoll descriptor is closed and still counts as valid.
ClosePollerStale ==
  /\ cpc = "close"
  /\ watched' = {} /\ ready' = [d \in Dev |-> {}]
  /\ cpc' = "done"
  /\ UNCHANGED <<flags, handlers, unread, arrived, peer, coro,
                 callbacks, firing, poll, notified>>

ClosePoller ==
  /\ cpc = "close"
  /\ valid' = FALSE
  /\ watched' = {} /\ ready' = [d \in Dev |-> {}]
  /\ cpc' = "done"
  /\ UNCHANGED <<kind, stopped, stopReq, handlers, unread, arrived, peer, coro,
                 callbacks, firing, poll, notified>>

InShutdown ==
  \/ RequestStop \/ (\E d \in Dev : TakeStopCallback(d) \/ ShutdownNotify(d))
  \/ StopCallbackReturns \/ StopRequested
  \/ LockHandlers \/ UnlockHandlers \/ ClearHandlers \/ ClosePoller \/ InCall(Closer)

-----------------------------------------------------------------------------
Next ==
  \/ \E d \in Dev : DataArrives(d) \/ PeerLeaves(d, "fin")
                    \/ PeerLeaves(d, "rst") \/ Coroutine(d)
  \/ \E t \in Thread : Retract(t)
  \/ Run \/ CancelContexts \/ Shutdown \/ InShutdown

Spec == Init /\ [][Next]_vars

(***************************************************************************)
(* Every thread keeps running what it has begun: the poller its loop, a    *)
(* coroutine up to its next suspension, the closer its call.  No peer is   *)
(* obliged to send, and nobody to shut down.                               *)
(***************************************************************************)
Fairness ==
  /\ \A d \in Dev : WF_vars(Coroutine(d))
  /\ \A t \in Thread : WF_vars(Retract(t))
  /\ WF_vars(Run)
  /\ WF_vars(InShutdown)

FairSpec == Spec /\ Fairness

-----------------------------------------------------------------------------
(* Properties.                                                             *)

(***************************************************************************)
(* The right to resume a coroutine is in one place: in the word WAITING,   *)
(* with the poller or with the closer, never in two, and only while the    *)
(* coroutine is suspended.  So none is resumed while it runs or after it   *)
(* ended, although await_suspend may still be at its second exchange.      *)
(***************************************************************************)
ResumedOnce ==
  \A d \in Dev :
    /\ sig[d] = "WAITING" \/ (\E c \in Caller : Owns(c, d)) => co[d] = "suspended"
    /\ sig[d] = "WAITING" => \A c \in Caller : ~ Owns(c, d)
    /\ ~ (Owns(Poller, d) /\ Owns(Closer, d))

(***************************************************************************)
(* The map shutdown() iterates over does not change under the iteration,   *)
(* although connections on other threads end and deregister meanwhile.     *)
(***************************************************************************)
IterationStable ==
  [][cpc = "notify" /\ cpc' = "notify" => handlers' = handlers]_vars

(***************************************************************************)
(* When the poller is down and the connections have ended, no handler is   *)
(* left in the map to keep a file descriptor open, also if the device was  *)
(* added while shutdown() ran.                                             *)
(***************************************************************************)
NothingLeft ==
  cpc = "done" /\ (\A d \in Dev : co[d] = "done") => handlers = {}

(***************************************************************************)
(* The safety of the poller: the parts above, and the types.               *)
(***************************************************************************)
Safety == TypeOK /\ ResumedOnce /\ NothingLeft

\* No thread but one ever executes the coroutine of d, but for the callbacks
\* of a stop request: it is on a pool of one worker, or inline and spawned by
\* the poller itself.
Serial == {d \in Dev : kind[d].pool # {} /\ \A t, u \in kind[d].pool : t = u}
Home == {d \in Inline : kind[d].start = Poller}

(***************************************************************************)
(* Edge triggering loses nothing: data or an end of stream that arrives at *)
(* any point of the receive loop is received, as long as the poller runs   *)
(* and no await yields false.  A hang-up is not announced (io.h 79-80).    *)
(* It takes an executor that cannot run the coroutine on a third thread    *)
(* while an await_suspend is still about its second exchange, which writes *)
(* IDLE over whatever was released since.                                  *)
(***************************************************************************)
DataReceived ==
  \A d \in Dev :
    (d \in Serial \cup Inline /\ (unread[d] \/ peer[d] # "open"))
      ~> \/ ~ unread[d] /\ peer[d] = "open"
         \/ co[d] = "done" \/ stopped \/ peer[d] = "rst"

(***************************************************************************)
(* cancel_contexts() ends every await of the contexts bound to the poller  *)
(* "WITHOUT tearing the poller down" (epoll.h 143-145): whatever the       *)
(* coroutine was at, also if a hang-up removed its device, it comes to its *)
(* end.                                                                    *)
(***************************************************************************)
CancelEnds ==
  \A d \in Dev :
    (stopReq /\ d \in Bound /\ d \in Serial \cup Home) ~> co[d] = "done" \/ stopped

(***************************************************************************)
(* shutdown() gets to its end and run() returns, whatever the poller and   *)
(* the connections are at, if no connection is resumed on the thread that  *)
(* shuts down.                                                             *)
(***************************************************************************)
ShutdownEnds ==
  (stopped /\ \A d \in Inline : ~ kind[d].spawned) ~> (cpc = "done" /\ ppc = "done")

-----------------------------------------------------------------------------
(* What the comments of the code say and the code does not keep.           *)

(***************************************************************************)
(* "stop every poller (idempotent): each IOContext shuts down its own      *)
(* cancellation domain and wakes all suspended IO awaits"                  *)
(* (poller_group.h 88-89): also with the inline connections of PollerGroup *)
(* shutdown() does not wait for itself.  It does: shutdown_notify() may    *)
(* find the WAITING that await_suspend is about to take back and resume    *)
(* the connection under the shared lock its deregistration needs.          *)
(***************************************************************************)
NoSelfLock ==
  \A d \in Dev : on[d] = Closer /\ co[d] = "erase" => Exclusive

(***************************************************************************)
(* "wake every subscriber, otherwise tasks suspended on their signals      *)
(* would never resume" (epoll.h 218-219): a coroutine that is suspended    *)
(* when the notification begins comes to its end.  One in a cancellation   *)
(* domain of its own need not: the STOPPED is overwritten by a release()   *)
(* between its exchange and its store, or by a second exchange.            *)
(***************************************************************************)
SubscribersWoken ==
  \A d \in Dev :
    (cpc = "lock" /\ co[d] = "suspended") ~> co[d] = "done"

(***************************************************************************)
(* "cancel every auto-cancellable IO await in the bound coroutine          *)
(* contexts" (epoll.h 216): after shutdown() the bound connections end.    *)
(* One need not: a release() that found STOPPED puts it back over the      *)
(* WAITING of an await that was published in between, and nobody is left   *)
(* to resume it.                                                           *)
(***************************************************************************)
ShutdownEndsAwaits == \A d \in Dev : (stopped /\ d \in Bound) ~> co[d] = "done"

\* The device of d, with its signals, still exists: the connection, the map
\* or the poller refers to it.
Alive(d) == co[d] # "done" \/ d \in handlers \/ pinned = d \/ (call[Poller].dev = d /\ call[Poller].step # "no")

(***************************************************************************)
(* "once the handle is published here, another thread may resume (and even *)
(* complete/destroy) the coroutine while await_suspend is still executing  *)
(* [...] the exchange below only touches this signal's own state"          *)
(* (core.h 145-149): then the signal has to be there.  It is part of the   *)
(* device that the completed connection was the last to hold.              *)
(***************************************************************************)
SignalOutlives == \A t \in Thread : tail[t].dev # None => Alive(tail[t].dev)
=============================================================================
