---------------------------- MODULE MCIOContext ----------------------------
(* Small instances of IOContext: two connections of the kinds that occur.  *)
EXTENDS IOContext

CONSTANTS d1, d2, w1, w2

\* What HttpServer and PollerGroup spawn: inline, in the poller's own
\* cancellation domain, by the accept loop on the poller; the peer may do
\* anything.
Server == [pool |-> {}, start |-> Poller, bound |-> TRUE, resets |-> TRUE, data |-> 0, spawned |-> TRUE]

\* The same spawned before the poller runs, by the thread that calls start().
Early == [Server EXCEPT !.start = d1]

\* The same on a thread pool of one worker, and of two.
Pooled == [Server EXCEPT !.pool = {w1}, !.start = w1]
Shared == [Server EXCEPT !.pool = {w1, w2}, !.start = w1]

\* A connection in a cancellation domain of its own (context.h 81).
Independent == [Pooled EXCEPT !.bound = FALSE, !.resets = FALSE]

Pair(a, b) == [d \in Dev |-> IF d = d1 THEN a ELSE b]
\* One connection at which data arrives n times.
Alone(k, n) == Pair([k EXCEPT !.data = n], [k EXCEPT !.spawned = FALSE])
\* A peer that does not reset.
Orderly(k) == [k EXCEPT !.resets = FALSE]

SomeKinds ==
  {Alone(Server, 2), Alone(Orderly(Early), 2), Alone(Pooled, 1), Alone(Independent, 1), Alone(Orderly(Shared), 1),
   Pair(Orderly(Server), Orderly(Server))}
InlineKind == {Alone(Orderly(Server), 0)}
SharedKind == {Alone(Orderly(Shared), 0)}
PooledKind == {Alone(Orderly(Pooled), 1)}
IndependentKind == {Alone(Independent, 1)}
=============================================================================
