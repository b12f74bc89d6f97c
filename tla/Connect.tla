------------------------------ MODULE Connect ------------------------------
(***************************************************************************)
(* A client (asio/net/socket.h): ca2 connects to one address, ca2_dyn to   *)
(* the answers of getaddrinfo in turn, and then the socket transfers.      *)
(* async_connect suspends on the same write signal the send loops use, and *)
(* re-initialises one device, asock, for every address it tries.           *)
(***************************************************************************)
EXTENDS Transfer

CONSTANTS
  NAddr,       \* answers of getaddrinfo
  Surprises    \* socket() may fail and connect() may succeed at once

ASSUME ConnectAssumption == NAddr \in Nat \ {0} /\ Surprises \in BOOLEAN

VARIABLES
  dyn,      \* ca2_dyn rather than ca2
  phase,    \* "resolving", "trying", "up", "failed", "threw"
  ai,       \* address being tried
  ec,       \* error of the last attempt
  fd,       \* the socket opened for each address
  held,     \* which one asock owns, 0 for none
  regs      \* sockets registered in the poller, all with asock as handler

connVars == <<dyn, phase, ai, ec, fd, held, regs>>
vars == <<transferVars, connVars>>

\* AddrInfos: the answers in the order of their list, freed with it.
Addr == 1..NAddr
LastAddr == IF dyn THEN NAddr ELSE 1

Init ==
  /\ TransferInit /\ dyn \in BOOLEAN
  /\ phase = "resolving" /\ ai = 1 /\ ec = "none"
  /\ fd = [a \in Addr |-> "none"] /\ held = 0 /\ regs = {}

TypeOK ==
  /\ TransferTypeOK /\ dyn \in BOOLEAN
  /\ phase \in {"resolving", "trying", "up", "failed", "threw"}
  /\ ai \in 1..(NAddr + 1) /\ ec \in {"none", "errno", "not_connected"}
  /\ fd \in [Addr -> {"none", "connecting", "up", "refused", "closed",
                      "leaked"}]
  /\ held \in 0..NAddr /\ regs \subseteq Addr

-----------------------------------------------------------------------------
\* resolve(): the name has an address list, or there is nothing to try.  The
\* single form is given its address.
Resolve ==
  /\ phase = "resolving" /\ phase' \in IF dyn THEN {"trying", "failed"} ELSE {"trying"}
  /\ UNCHANGED <<transferVars, dyn, ai, ec, fd, held, regs>>

\* emplace() of a composite constructs the part over the old one, which is not
\* destroyed: a descriptor held before is never closed.
Emplace(a) ==
  /\ fd' = [b \in Addr |-> CASE b = a -> "connecting"
                             [] b = held -> "leaked"
                             [] OTHER -> fd[b]]
  /\ held' = a

\* init_async_device: new descriptor and signals, and the handler is added
\* under the new descriptor.  When that fails the error is returned, and the
\* device keeps the descriptor, unknown to the poller, until the next emplace.
InitDevice ==
  /\ Emplace(ai) /\ sig' = [e \in {"IN", "OUT"} |-> "clear"]
  /\ \/ /\ regs' = regs \cup {ai}
        /\ op' = "connect" /\ pc' = "await" /\ waits' = "OUT"
        /\ UNCHANGED <<ec, ai>>
     \/ /\ ec' = "errno" /\ ai' = ai + 1
        /\ UNCHANGED <<regs, op, pc, waits>>

\* connect() failed, or succeeded at once: the local descriptor is closed.
\* When socket() fails, the dynamic form goes on and forgets about it.
Fails(e) ==
  /\ fd' = IF e = "no_socket" THEN fd ELSE [fd EXCEPT ![ai] = "closed"]
  /\ ec' = IF e # "no_socket" THEN e ELSE IF dyn THEN ec ELSE "errno"
  /\ ai' = ai + 1
  /\ UNCHANGED <<held, regs, sig, op, pc, waits>>

\* socket() and connect() for the next address.
TryAddress ==
  /\ phase = "trying" /\ pc = "idle" /\ ai <= LastAddr /\ held # ai
  /\ \/ \E e \in {"errno"} \cup (IF Surprises THEN {"none", "no_socket"} ELSE {}) : Fails(e)
     \/ InitDevice
  /\ UNCHANGED <<payload, idx, offset, wire, result, kernelVars, stopped, dyn,
                 phase>>

\* Mutant: SO_ERROR is not read.
CheckBlind ==
  /\ phase = "trying" /\ pc = "try" /\ pc' = "idle"
  /\ phase' = "up" /\ UNCHANGED <<ec, ai>>
  /\ UNCHANGED <<op, waits, payload, idx, offset, wire, result, kernelVars,
                 sig, stopped, dyn, fd, held, regs>>

(***************************************************************************)
(* The write signal fired: SO_ERROR tells.  ca2_impl leaves its loop and   *)
(* its coroutine without co_return, which is undefined: the caller finds   *)
(* a value or std::get throws on an empty result.                          *)
(***************************************************************************)
Check ==
  /\ phase = "trying" /\ pc = "try" /\ pc' = "idle"
  /\ IF fd[held] = "refused"
     THEN ec' = "errno" /\ ai' = ai + 1 /\ UNCHANGED phase
     ELSE /\ phase' \in IF dyn THEN {"up", "threw"} ELSE {"up"}
          /\ UNCHANGED <<ec, ai>>
  /\ UNCHANGED <<op, waits, payload, idx, offset, wire, result, kernelVars,
                 sig, stopped, dyn, fd, held, regs>>

\* The await yielded false (Await returned not_connected): the next address.
Cancelled ==
  /\ phase = "trying" /\ pc = "idle" /\ held = ai
  /\ ec' = "not_connected" /\ ai' = ai + 1
  /\ UNCHANGED <<transferVars, dyn, phase, fd, held, regs>>

\* No address is left: an error, or for the dynamic form what ec says.
Exhausted ==
  /\ phase = "trying" /\ pc = "idle" /\ ai > LastAddr
  /\ phase' \in IF dyn /\ ec = "none" THEN {"up", "threw"} ELSE {"failed"}
  /\ UNCHANGED <<transferVars, dyn, ai, ec, fd, held, regs>>

\* The network answers.  A refusal raises EPOLLHUP: the handler is deleted
\* and no signal is released (io.h 79-80).
Establish(a) ==
  /\ fd[a] = "connecting"
  /\ fd' = [fd EXCEPT ![a] = "up"]
  /\ ready' = IF a \in regs THEN ready \cup {"OUT"} ELSE ready
  /\ UNCHANGED <<coroVars, queued, inbox, left, peer, flen, sig, stopped, dyn,
                 phase, ai, ec, held, regs>>

Refuse(a) ==
  /\ phase = "trying" /\ fd[a] \in {"connecting", "up"}
  /\ fd' = [fd EXCEPT ![a] = "refused"]
  /\ regs' = regs \ {a}
  /\ UNCHANGED <<transferVars, dyn, phase, ai, ec, held>>

Connecting == Resolve \/ TryAddress \/ Check \/ Cancelled \/ Exhausted

Next ==
  \/ Connecting \/ \E a \in Addr : Establish(a) \/ Refuse(a)
  \/ Signals /\ UNCHANGED connVars
  \/ /\ phase = "up" /\ UNCHANGED connVars
     /\ Starts \/ Calls \/ Peer \/ FileShrinks

(***************************************************************************)
(* The coroutine and the poller keep running; a connected peer keeps       *)
(* reading, and sends what it still has or closes.                         *)
(***************************************************************************)
Fairness ==
  /\ WF_vars(Connecting)
  /\ WF_vars((Await \/ (phase = "up" /\ Calls)) /\ UNCHANGED connVars)
  /\ \A e \in {"IN", "OUT"} : WF_vars(Publish(e) /\ UNCHANGED connVars)
  /\ WF_vars(phase = "up" /\ PeerReads /\ UNCHANGED connVars)
  /\ WF_vars(phase = "up" /\ (PeerSends \/ PeerCloses) /\ UNCHANGED connVars)

Spec == Init /\ [][Next]_vars /\ Fairness

-----------------------------------------------------------------------------
(* The transfers are sound: typed, and exact on the wire (WireExact).      *)
TransfersSound == TypeOK /\ WireExact

(***************************************************************************)
(* A client that is told it is connected is: the device owns a descriptor, *)
(* that one, of all the attempts, is established, and the poller knows it  *)
(* (socket.h 112-133).                                                     *)
(***************************************************************************)
ConnectedIsUsable ==
  [][phase # "up" /\ phase' = "up" =>
       held # 0 /\ fd[held] = "up" /\ held \in regs]_vars

(***************************************************************************)
(* Every operation ends although events are edge-triggered and may come    *)
(* between the system call and the await, and every one ends on            *)
(* cancellation.  A reset or refusal is not announced (see IOContext), and *)
(* a splice into a full pipe waits for the wrong side.                     *)
(***************************************************************************)
OperationsEnd ==
  (pc # "idle" \/ phase = "trying") ~>
    \/ pc = "idle" /\ phase # "trying"
    \/ ~ stopped /\ (phase = "trying" \/ peer = "rst" \/ op = "splice")
=============================================================================
