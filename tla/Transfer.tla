------------------------------ MODULE Transfer ------------------------------
(***************************************************************************)
(* The receive and send loops of an asynchronous device (asio/io.h,        *)
(* asio/tls.h, asio/pipe.h, accept() of asio/net/socket.h) over a          *)
(* non-blocking descriptor: system call, EAGAIN, await of the signal of    *)
(* the direction, retry.  The kernel side is a send buffer of Cap bytes,   *)
(* bytes to read, and edge-triggered events the poller publishes later.    *)
(*                                                                         *)
(* One operation runs at a time; its byte k of chunk i is <<i, k>>.        *)
(***************************************************************************)
EXTENDS Integers, Sequences, SequencesExt, FiniteSetsExt

CONSTANTS
  Cap,         \* bytes the kernel buffers towards the peer
  Arrivals,    \* bound: bytes (connections) the peer sends
  MaxChunks,   \* writev_max_chunks
  Payloads     \* chunk sizes the operations are started with

ASSUME TransferAssumption ==
  Cap \in Nat \ {0} /\ Arrivals \in Nat /\ Payloads \subseteq Seq(Nat)

Receiving == {"recv", "imm_recv", "accept", "tls_read", "splice"}
Sending == {"send", "write", "sendto", "sendv", "send_file", "tls_write"}

\* recv() of a connection and write() of a span report every empty result, an
\* error, a refused await or nothing to move, as not_connected.
EmptyIsGone == {"recv", "write"}

VARIABLES
  op,        \* the operation under way, or the last one
  pc,        \* "idle", "try" a system call, "await" a signal, "asleep"
  waits,     \* the signal awaited, "IN" or "OUT"
  payload,   \* chunk sizes
  idx,       \* chunk being written
  offset,    \* bytes of it already written
  wire,      \* bytes of this operation the kernel accepted or delivered
  result,    \* size and error of the last operation
  queued,    \* bytes in the kernel's send buffer
  inbox,     \* bytes to read
  left,      \* bytes the peer may still send
  peer,      \* "open", "fin" or "rst"
  flen,      \* length of the file being sent
  ready,     \* events the poller has not published yet
  sig,       \* the two signals: "clear" or "set"
  stopped    \* the domain is cancelled, the signals are stopped

coroVars == <<op, pc, waits, payload, idx, offset, wire, result>>
kernelVars == <<queued, inbox, left, peer, flen, ready>>
transferVars == <<coroVars, kernelVars, sig, stopped>>

Bytes(p) == FlattenSeq([i \in DOMAIN p |-> [k \in 1..p[i] |-> <<i, k>>]])
Size(p) == Len(Bytes(p))

TransferInit ==
  /\ op = "recv" /\ pc = "idle" /\ waits = "IN"
  /\ payload = <<>> /\ idx = 1 /\ offset = 0 /\ wire = <<>>
  /\ result = [size |-> 0, err |-> "none"]
  /\ queued = 0 /\ inbox = 0 /\ left = Arrivals /\ peer = "open" /\ flen = 0
  /\ ready = {} /\ sig = [e \in {"IN", "OUT"} |-> "clear"] /\ stopped = FALSE

TransferTypeOK ==
  /\ op \in Receiving \cup Sending \cup {"connect"}
  /\ pc \in {"idle", "try", "await", "asleep"} /\ waits \in {"IN", "OUT"}
  /\ payload \in Payloads \cup {<<>>} /\ idx \in 1..(Len(payload) + 1)
  /\ offset \in 0..Size(payload)
  /\ result.size \in 0..(Size(payload) + Cap + Arrivals)
  /\ result.err \in {"none", "not_connected", "canceled", "again", "errno",
                     "io_error", "no_message", "invalid_argument"}
  /\ queued \in 0..Cap /\ inbox \in 0..Arrivals /\ left \in 0..Arrivals
  /\ peer \in {"open", "fin", "rst"} /\ flen \in Nat
  /\ ready \subseteq {"IN", "OUT"} /\ stopped \in BOOLEAN
  /\ sig \in [{"IN", "OUT"} -> {"clear", "set"}]

-----------------------------------------------------------------------------
(* What the loops share.                                                   *)

Return(n, e) ==
  /\ pc' = "idle"
  /\ result' = [size |-> n,
                 err |-> IF op \in EmptyIsGone /\ n = 0 THEN "not_connected" ELSE e]
  /\ idx' = 1 /\ offset' = 0 /\ waits' = "IN"
  /\ UNCHANGED <<op, payload>>

\* EAGAIN or SSL_ERROR_WANT_*: await the signal of direction e.
Again(e) ==
  /\ pc' = "await" /\ waits' = e
  /\ UNCHANGED <<op, payload, idx, offset, wire, result>>

\* The error of each loop whose signal yields false; accept() reports the
\* errno of the failed system call instead.
Refusal(o) ==
  CASE o \in {"tls_read", "tls_write"} -> "canceled"
    [] o = "accept" -> "again"
    [] OTHER -> "not_connected"

\* The loops of one chunk and writev start at the first byte; too many chunks,
\* nothing to write, or a file that does not open return at once.
Start(o, p, fileLen) ==
  /\ pc = "idle"
  /\ Len(p) = 1 \/ o = "sendv"
  /\ op' = o /\ waits' = "IN" /\ payload' = p /\ idx' = 1 /\ offset' = 0
  /\ wire' = <<>> /\ flen' = fileLen
  /\ \/ /\ pc' = "try" /\ result' = [size |-> 0, err |-> "none"]
        /\ o = "sendv" => Len(p) <= MaxChunks /\ Size(p) > 0
     \/ /\ pc' = "idle" /\ o \in {"sendv", "send_file"}
        /\ o = "sendv" => Len(p) > MaxChunks \/ Size(p) = 0
        /\ result' = [size |-> 0,
                      err |-> CASE o = "send_file" -> "errno"
                                [] Len(p) > MaxChunks -> "invalid_argument"
                                [] OTHER -> "none"]
  /\ UNCHANGED <<queued, inbox, left, peer, ready, sig, stopped>>

-----------------------------------------------------------------------------
(* Receiving.                                                              *)

\* The end of the stream, or no room to read into.
ReceivedNone(o) ==
  CASE o = "tls_read" -> "io_error"
    [] o = "accept" -> "errno"
    [] o = "splice" -> IF wire = <<>> THEN "no_message" ELSE "none"
    [] OTHER -> "none"

\* accept() looks whether the poller was shut down before it awaits.
AcceptAgain == IF stopped THEN Return(0, "canceled") /\ UNCHANGED wire ELSE Again("IN")

\* Data taken out of the inbox; splice goes on until the source is empty.
Take(n) ==
  /\ inbox' = inbox - n
  /\ wire' = wire \o [k \in 1..n |-> <<1, k>>]
  /\ IF op = "splice"
     THEN /\ queued' = queued + n
          /\ UNCHANGED <<op, pc, waits, payload, idx, offset, result>>
     ELSE Return(n, "none") /\ UNCHANGED queued
  /\ UNCHANGED <<left, peer, flen, ready, sig, stopped>>

TryReceive ==
  /\ op \in Receiving /\ pc = "try"
  /\ LET room == CASE op = "splice" -> Cap - queued
                   [] op = "accept" -> 1
                   [] OTHER -> Size(payload) IN
     \/ /\ inbox > 0 /\ room > 0
        /\ \E n \in 1..Min({inbox, room}) : Take(n)
     \/ /\ room = 0 /\ op # "splice"
        /\ Return(0, ReceivedNone(op))
        /\ UNCHANGED <<wire, kernelVars, sig, stopped>>
     \/ \* the peer reset the connection, or the call failed for its own reasons
        /\ Return(0, IF op = "tls_read" THEN "io_error" ELSE "errno")
        /\ UNCHANGED <<wire, kernelVars, sig, stopped>>
     \/ /\ peer = "fin" /\ inbox = 0
        /\ Return(Len(wire), ReceivedNone(op))
        /\ UNCHANGED <<wire, kernelVars, sig, stopped>>
     \/ \* EAGAIN; splice also meets it when its destination is full
        /\ (peer = "open" /\ inbox = 0 /\ room > 0)
             \/ (op = "splice" /\ room = 0)
        /\ IF op = "splice" /\ wire # <<>>
           THEN Return(Len(wire), "none") /\ UNCHANGED wire
           ELSE IF op = "accept" THEN AcceptAgain ELSE Again("IN")
        /\ UNCHANGED <<kernelVars, sig, stopped>>
     \/ \* a TLS record to be written first
        /\ op = "tls_read" /\ queued = Cap /\ Again("OUT")
        /\ UNCHANGED <<kernelVars, sig, stopped>>

-----------------------------------------------------------------------------
(* Sending.                                                                *)

\* The bytes the system call is given, from (idx, offset) on.
Rest == SubSeq(Bytes(payload), Size(SubSeq(payload, 1, idx - 1)) + offset + 1,
               Size(payload))

\* Mutant: the bytes of the chunks passed are not subtracted.
AdvanceKeepsOffset(o) ==
  LET End(j) == Size(SubSeq(payload, idx, j))
      j == Max({k \in (idx - 1)..Len(payload) : End(k) <= o})
  IN <<j + 1, IF j + 1 > Len(payload) THEN 0 ELSE o>>

\* The chunk and the offset o bytes after the start of chunk idx.
Advance(o) ==
  LET End(j) == Size(SubSeq(payload, idx, j))
      j == Max({k \in (idx - 1)..Len(payload) : End(k) <= o})
  IN <<j + 1, o - End(j)>>

Accept(n) ==
  /\ wire' = wire \o SubSeq(Rest, 1, n)
  /\ queued' = Min({queued + n, Cap})
  /\ IF Len(wire) + n = Size(payload) \/ op = "tls_write"
     THEN Return(Len(wire) + n, "none")
     ELSE /\ idx' = Advance(offset + n)[1] /\ offset' = Advance(offset + n)[2]
          /\ UNCHANGED <<op, pc, waits, payload, result>>
  /\ UNCHANGED <<inbox, left, peer, flen, ready, sig, stopped>>

\* How much one call may take: datagrams go whole, a file ends where it ends.
Takes ==
  CASE op = "sendto" -> {Len(Rest)}
    [] op = "send_file" -> 1..Min({Cap - queued, Len(Rest), flen - offset})
    [] OTHER -> 1..Min({Cap - queued, Len(Rest)})

\* Mutant: the tail of a shrunken file is taken as sent.
NothingTakenClaims == Return(Size(payload), "none")

\* The call returns 0: nothing was left, or the file is shorter than its hint.
NothingTaken ==
  Return(Len(wire), IF op = "send_file" /\ Rest = <<>> THEN "no_message"
                    ELSE "none")

\* SSL_write_ex: the peer closed the session, or owes a handshake record.
TlsWriteBlocked ==
  /\ IF peer = "fin" THEN Return(0, "not_connected") /\ UNCHANGED wire
     ELSE peer = "open" /\ inbox = 0 /\ Again("IN")
  /\ UNCHANGED <<kernelVars, sig, stopped>>

TrySend ==
  /\ op \in Sending /\ pc = "try"
  /\ \/ /\ peer # "rst" /\ queued < Cap /\ Rest # <<>>
        /\ \E n \in Takes : Accept(n)
     \/ /\ peer # "rst"
        /\ Rest = <<>> \/ (op = "send_file" /\ flen <= offset)
        /\ NothingTaken
        /\ UNCHANGED <<wire, kernelVars, sig, stopped>>
     \/ /\ Return(Len(wire), IF op = "tls_write" THEN "io_error" ELSE "errno")
        /\ UNCHANGED <<wire, kernelVars, sig, stopped>>
     \/ /\ peer # "rst" /\ queued = Cap /\ Rest # <<>>
        /\ op = "send_file" => flen > offset
        /\ Again("OUT")
        /\ UNCHANGED <<kernelVars, sig, stopped>>
     \/ op = "tls_write" /\ TlsWriteBlocked

-----------------------------------------------------------------------------
(* co_await of the signal.                                                 *)

\* Mutant: a signal that was already set is not seen.
AwaitBlind ==
  /\ pc = "await"
  /\ IF stopped
     THEN Return(Len(wire), Refusal(op)) /\ UNCHANGED <<sig, wire>>
     ELSE /\ pc' = "asleep"
          /\ UNCHANGED <<sig, op, waits, payload, idx, offset, wire, result>>
  /\ UNCHANGED <<kernelVars, stopped>>

Await ==
  /\ pc = "await"
  /\ IF stopped
     THEN Return(Len(wire), Refusal(op)) /\ UNCHANGED <<sig, wire>>
     ELSE /\ pc' = IF sig[waits] = "set" THEN "try" ELSE "asleep"
          /\ sig' = [sig EXCEPT ![waits] = "clear"]
          /\ UNCHANGED <<op, waits, payload, idx, offset, wire, result>>
  /\ UNCHANGED <<kernelVars, stopped>>

\* The poller publishes an event: the sleeper runs, or the signal stays set.
Publish(e) ==
  /\ e \in ready
  /\ ready' = ready \ {e}
  /\ IF pc = "asleep" /\ waits = e
     THEN pc' = "try" /\ UNCHANGED sig
     ELSE sig' = [sig EXCEPT ![e] = "set"] /\ UNCHANGED pc
  /\ UNCHANGED <<op, waits, payload, idx, offset, wire, result, queued, inbox,
                 left, peer, flen, stopped>>

\* stop() and cancellation: the sleeper's await yields false.
Stop ==
  /\ ~ stopped /\ stopped' = TRUE
  /\ pc' = IF pc = "asleep" THEN "await" ELSE pc
  /\ UNCHANGED <<op, waits, payload, idx, offset, wire, result, kernelVars,
                 sig>>

-----------------------------------------------------------------------------
(* The peer, and whoever else writes to the file.                          *)

PeerSends ==
  /\ peer = "open" /\ left > 0
  /\ inbox' = inbox + 1 /\ left' = left - 1 /\ ready' = ready \cup {"IN"}
  /\ UNCHANGED <<coroVars, queued, peer, flen, sig, stopped>>

PeerCloses ==
  /\ peer = "open" /\ peer' = "fin" /\ ready' = ready \cup {"IN"}
  /\ UNCHANGED <<coroVars, queued, inbox, left, flen, sig, stopped>>

\* A reset raises EPOLLHUP, for which the handler is deleted unpublished.
PeerResets ==
  /\ peer # "rst" /\ peer' = "rst" /\ ready' = {}
  /\ UNCHANGED <<coroVars, queued, inbox, left, flen, sig, stopped>>

PeerReads ==
  /\ queued > 0 /\ peer # "rst"
  /\ queued' = queued - 1
  /\ ready' = IF queued = Cap THEN ready \cup {"OUT"} ELSE ready
  /\ UNCHANGED <<coroVars, inbox, left, peer, flen, sig, stopped>>

FileShrinks ==
  /\ op = "send_file" /\ pc # "idle" /\ flen > offset
  /\ flen' = offset
  /\ UNCHANGED <<coroVars, queued, inbox, left, peer, ready, sig, stopped>>

Starts ==
  \E o \in Receiving \cup Sending, p \in Payloads :
    Start(o, p, IF o = "send_file" THEN Size(p) ELSE 0)

Calls == TryReceive \/ TrySend

Peer == PeerSends \/ PeerCloses \/ PeerResets \/ PeerReads

Signals == Await \/ Stop \/ \E e \in {"IN", "OUT"} : Publish(e)

-----------------------------------------------------------------------------
(* Properties.                                                             *)

(***************************************************************************)
(* What a sending operation has put on the wire is a prefix of its payload *)
(* at every moment: no byte twice, none skipped, whatever partial writes   *)
(* the kernel makes and wherever chunks end (io.h 282-424).                *)
(***************************************************************************)
WireExact ==
  op \in Sending /\ pc # "idle" =>
    /\ IsPrefix(wire, Bytes(payload))
    /\ Len(wire) = Size(SubSeq(payload, 1, idx - 1)) + offset

(***************************************************************************)
(* A result tells the truth, although a system call may fail after others  *)
(* moved a part: its size is what went over the wire whatever the error    *)
(* (splice alone forgets it), a send that reports no error is complete     *)
(* unless the file shrank or TLS took a part, and not_connected is said of *)
(* a connection that is gone or of a cancelled domain.  recv() and write() *)
(* also say it of any other failure, but only when nothing was moved       *)
(* (io.h 174-177, 310-320, 384, 423).                                      *)
(***************************************************************************)
ResultsHonest ==
  pc = "idle" =>
    /\ op # "splice" => result.size = Len(wire)
    /\ result.err = "none" /\ op \in Sending \ {"tls_write"} =>
         result.size = Size(payload) \/ (op = "send_file" /\ flen < Size(payload))
    /\ result.err = "not_connected" =>
         peer # "open" \/ stopped \/ (op \in EmptyIsGone /\ wire = <<>>)
=============================================================================
