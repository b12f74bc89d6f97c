----------------------------- MODULE HttpServer -----------------------------
(***************************************************************************)
(* An HTTP server on a group of pollers: a service is built, the group     *)
(* (asio/poller_group.h) starts a poller with an accept loop each          *)
(* (asio/http/server.h), connections serve requests (asio/http/conn.h)     *)
(* with the one service, and the group is stopped and joined.              *)
(*                                                                         *)
(* A poller is seen from outside here: "open", "cancelled" (its contexts   *)
(* are, cancel_contexts()), "stopped" (shutdown() has begun) or "closed";  *)
(* module IOContext has the inside.  Reading and writing a message are     *)
(* single steps, the subject of modules HttpMessage and Transfer.          *)
(***************************************************************************)
EXTENDS HttpService

CONSTANTS
  N,         \* number of pollers
  Scripts,   \* the sequences of calls of the ServiceBuilder considered
  Requests,  \* the requests clients may send
  MaxReq     \* bound: requests sent in all

ASSUME ServerAssumption == N \in Nat \ {0} /\ MaxReq \in Nat
Pollers == 1..N

VARIABLES
  script,   \* the calls that build the service
  built,    \* how many of them are done
  service,  \* HttpService, shared by all pollers
  main,     \* the thread that owns the group: [pc, k], k the poller it is at
  io,       \* io[p]: the IOContext
  thread,   \* thread[p]: "none", "run" or "returned"
  accept,   \* accept[p]: the accept loop: "none", "listen" or "ended"
  conn,     \* conn[p]: the connection of p: [pc, req, part, open]
  left      \* requests the clients may still send

vars == <<script, built, service, main, io, thread, accept, conn, left>>
building == <<script, built, service>>
serving == <<conn, left>>
polling == <<io, thread, accept>>

NoRequest == CHOOSE r \in Requests : TRUE
Idle == [pc |-> "none", req |-> NoRequest, part |-> ResponsePart(0), open |-> FALSE]

Init ==
  /\ script \in Scripts /\ built = 0 /\ service = EmptyService
  /\ main = [pc |-> "build", k |-> 1]
  /\ io = [p \in Pollers |-> "none"] /\ thread = io /\ accept = io
  /\ conn = [p \in Pollers |-> Idle] /\ left = MaxReq

-----------------------------------------------------------------------------
(* The builder. *)

Calling(call) == main.pc = "build" /\ built < Len(script) /\ script[built + 1].call = call
Call == script[built + 1]
Called(s) == service' = s /\ built' = built + 1 /\ UNCHANGED <<script, main, polling, serving>>

AddRoute == Calling("add_route") /\ Called(AddExact(service, Call.path, Call.handler, Call.method))
AddPrefixRoute == Calling("add_prefix") /\ Called(AddPrefix(service, Call.path, Call.handler))
\* create_static_handler() looks whether the configured path is a directory.
AddStatic == Calling("add_static") /\ Called(AddPrefix(service, Call.path, Call.handler))
Redirect == Calling("redirect") /\ Called(AddExact(service, Call.path, "redirect", Call.method))
SetStatus == Calling("set_status_handler") /\ Called(SetStatusHandler(service, Call.status, Call.handler))
Built == main.pc = "build" /\ built = Len(script) /\ main' = [main EXCEPT !.pc = "start"] /\ UNCHANGED <<building, polling, serving>>

-----------------------------------------------------------------------------
(* The owner of the group. *)

Advance(pc) == main' = IF main.k < N THEN [main EXCEPT !.k = @ + 1] ELSE [pc |-> pc, k |-> 1]

\* The setup task runs up to its first await on this thread, then the poller's
\* thread is spawned.
StartPoller ==
  /\ main.pc = "start"
  /\ io' = [io EXCEPT ![main.k] = "open"]
  /\ accept' = [accept EXCEPT ![main.k] = "listen"]
  /\ thread' = [thread EXCEPT ![main.k] = "run"]
  /\ Advance("serving")
  /\ UNCHANGED <<building, serving>>
\* asio_ctx() fails: start() returns with the pollers it has started.
StartFails == main.pc = "start" /\ main' = [pc |-> "serving", k |-> 1] /\ UNCHANGED <<building, polling, serving>>

CancelContexts(p) ==
  /\ main.pc = "serving" /\ io[p] = "open"
  /\ io' = [io EXCEPT ![p] = "cancelled"]
  /\ UNCHANGED <<building, main, thread, accept, serving>>

Stop == main.pc = "serving" /\ main' = [pc |-> "stop", k |-> 1] /\ UNCHANGED <<building, polling, serving>>
\* shutdown() of a poller: stopped_ is set first, then the handlers are dropped
\* and the descriptor is closed.
Shutdown ==
  /\ main.pc = "stop"
  /\ \/ /\ io[main.k] \in {"open", "cancelled"}
        /\ io' = [io EXCEPT ![main.k] = "stopped"]
        /\ UNCHANGED <<main, conn>>
     \/ /\ io[main.k] = "stopped"
        /\ io' = [io EXCEPT ![main.k] = "closed"]
        /\ conn' = [conn EXCEPT ![main.k].open = FALSE]
        /\ Advance("join")
     \/ /\ io[main.k] = "none"
        /\ Advance("join")
        /\ UNCHANGED <<io, conn>>
  /\ UNCHANGED <<building, thread, accept, left>>
Join ==
  /\ main.pc = "join" /\ thread[main.k] # "run"
  /\ Advance("done")
  /\ UNCHANGED <<building, polling, serving>>

\* run() ends when it finds the descriptor closed; handlers run on its thread.
RunReturns(p) ==
  /\ thread[p] = "run" /\ io[p] = "closed" /\ conn[p].pc # "serve"
  /\ thread' = [thread EXCEPT ![p] = "returned"]
  /\ UNCHANGED <<building, main, io, accept, serving>>

-----------------------------------------------------------------------------
(* The accept loop and its connections. *)

Stopped(p) == io[p] \in {"stopped", "closed"}

\* serve_connection(): a coroutine that owns the socket and shares the service.
ServeConnection == [Idle EXCEPT !.pc = "read", !.open = TRUE]
\* A connection is accepted, registered and served by a coroutine of its own.
Accept(p) ==
  /\ accept[p] = "listen" /\ conn[p].pc = "none" /\ io[p] # "closed"
  /\ conn' = [conn EXCEPT ![p] = ServeConnection]
  /\ UNCHANGED <<building, main, polling, left>>

\* Mutant: only the error decides whether to go on.
AcceptEndsOnError(p, e) == e \notin {"operation_would_block", "connection_aborted"}
AcceptEnds(p, e) == Stopped(p) \/ e \notin {"operation_would_block", "connection_aborted"}
\* accept() fails: the peer was gone; an await ended by cancellation, which
\* reports the error of the last attempt; a want of descriptors.
AcceptFails(p, e) ==
  /\ accept[p] = "listen"
  /\ e = "operation_would_block" => io[p] # "open"
  /\ accept' = IF AcceptEnds(p, e) THEN [accept EXCEPT ![p] = "ended"] ELSE accept
  /\ UNCHANGED <<building, main, io, thread, serving>>

\* read() of the next request.
Receive(p, r) ==
  /\ conn[p].pc = "read" /\ left > 0 /\ io[p] \in {"open", "cancelled", "stopped"}
  /\ conn' = [conn EXCEPT ![p].pc = "serve", ![p].req = [r EXCEPT !.method = FromStringView(@)]]
  /\ left' = left - 1
  /\ UNCHANGED <<building, main, polling>>
\* read() fails: the peer is gone, or the await was cancelled; deregister().
ReceiveFails(p) ==
  /\ conn[p].pc = "read"
  /\ conn' = [conn EXCEPT ![p].pc = "ended", ![p].open = FALSE]
  /\ UNCHANGED <<building, main, polling, left>>

\* The service answers.  A handler that throws ends the coroutine before
\* deregister(); an assertion ends the process.
Serve(p) ==
  /\ conn[p].pc = "serve"
  /\ \E o \in Answers(service, conn[p].req) :
       \/ /\ o.kind = "replied"
          /\ LET part == IF conn[p].req.close THEN Emplace(o.part, "Connection", "close", 0) ELSE o.part
             IN  conn' = [conn EXCEPT ![p].pc = "send", ![p].part = part]
          /\ UNCHANGED <<main, polling>>
       \/ /\ o.kind = "thrown"
          /\ conn' = [conn EXCEPT ![p] = [Idle EXCEPT !.pc = "died", !.open = conn[p].open]]
          /\ UNCHANGED <<main, polling>>
       \/ /\ o.kind = "aborted"
          /\ main' = [pc |-> "aborted", k |-> 1]
          /\ io' = [q \in Pollers |-> "none"] /\ thread' = io' /\ accept' = io'
          /\ conn' = [q \in Pollers |-> [Idle EXCEPT !.pc = "ended"]]
  /\ UNCHANGED <<building, left>>

\* sendto(): whether it succeeds or not, the loop goes on unless the client
\* asked to close.
Send(p) ==
  /\ conn[p].pc = "send"
  /\ conn' = [conn EXCEPT ![p] = IF conn[p].req.close THEN [Idle EXCEPT !.pc = "ended"] ELSE [Idle EXCEPT !.pc = "read", !.open = conn[p].open]]
  /\ UNCHANGED <<building, main, polling, left>>

Build == AddRoute \/ AddPrefixRoute \/ AddStatic \/ Redirect \/ SetStatus \/ Built
\* What a cancelled or stopped poller owes its coroutines: every await ends.
Woken(p) == io[p] # "open" /\ (AcceptFails(p, "operation_would_block") \/ ReceiveFails(p) \/ Send(p))
Errors == {"operation_would_block", "connection_aborted", "too_many_files_open"}
Next ==
  \/ Build
  \/ StartPoller \/ StartFails
  \/ Stop \/ Shutdown \/ Join
  \/ \E p \in Pollers : CancelContexts(p)
  \/ \E p \in Pollers : RunReturns(p)
  \/ \E p \in Pollers : Accept(p)
  \/ \E p \in Pollers, e \in Errors : AcceptFails(p, e)
  \/ \E p \in Pollers, r \in Requests : Receive(p, r)
  \/ \E p \in Pollers : ReceiveFails(p)
  \/ \E p \in Pollers : Serve(p)
  \/ \E p \in Pollers : Send(p)

\* An owner that stops the group goes on, poller threads run, handlers return.
\* No client owes the server anything, and nobody has to stop the group.
\* (HandlersReturn is WF_vars(Serve(p)) for every p: Serve(p) is enabled as long
\* as the connection is at "serve", and it alone leads away from there.)
HandlersReturn == \A p \in Pollers : []<>(conn[p].pc # "serve")
Spec == Init /\ [][Next]_vars
FairSpec ==
  /\ Spec
  /\ WF_vars(Shutdown \/ Join)
  /\ \A p \in Pollers : WF_vars(RunReturns(p)) /\ WF_vars(Woken(p))
  /\ HandlersReturn

-----------------------------------------------------------------------------
(* Properties. *)

\* The first of the calls at the given positions.
First(calls) == script[CHOOSE i \in calls : \A j \in calls : i <= j]
Exact(path) == {i \in 1..built : script[i].call \in {"add_route", "redirect"} /\ script[i].path = path}
Mounted(depth, path) ==
  {i \in 1..built : script[i].call \in {"add_prefix", "add_static"} /\ PrefixNode(script[i].path) = SubSeq(path, 1, depth)}
HandlerOf(call) == IF call.call = "redirect" THEN "redirect" ELSE call.handler
\* What a request is dispatched to, by the calls alone.
Expected(method, path) ==
  LET forMethod == {i \in Exact(path) : script[i].method = method}
      depths == {d \in 0..(Len(path) - 1) : Mounted(d, path) # {}}
      depth == CHOOSE d \in depths : \A e \in depths : e <= d
  IN  IF forMethod # {} THEN [handler |-> HandlerOf(First(forMethod)), rest |-> <<Last(path)>>]
      ELSE IF Exact(path) # {} THEN NoHandler("rt_assert")
      ELSE IF depths = {} THEN NoHandler("not found")
      ELSE [handler |-> HandlerOf(First(Mounted(depth, path))), rest |-> SubSeq(path, depth + 1, Len(path))]

\* The routes of the path have a handler for the method.
Served(method, path) == Expected(method, path).handler # "rt_assert"

Value(head, key) == (CHOOSE i \in DOMAIN head : head[i].key = key)
Has(head, key) == \E i \in DOMAIN head : head[i].key = key
\* What the request names, with the suffix of an encoding.
Named(req, suffix) ==
  LET to == Expected(req.method, req.path)
  IN  Lookup(IF to.handler = "file" THEN FilePath ELSE to.rest, suffix)
\* The file an answer with a Last-Modified must be.
Promised(req, head) ==
  LET f == Named(req, IF Has(head, "Content-Encoding") THEN EncodingToExtension[head[Value(head, "Content-Encoding")].value] ELSE "")
  IN  IF f.kind = "directory" THEN IndexOf(Expected(req.method, req.path).rest) ELSE f
Honest(req, answer) ==
  LET head == answer.head
      N0(key) == head[Value(head, key)].n
      f == Promised(req, head)
  IN  /\ ToIndex(answer.status) \in ReasonPhrases
      /\ \A i, j \in DOMAIN head : head[i].key = head[j].key => i = j
      /\ Has(head, "Date") /\ Has(head, "Server") /\ (Has(head, "Connection") <=> req.close)
      /\ answer.body > 0 => Has(head, "Content-Length") /\ N0("Content-Length") = answer.body
      /\ Has(head, "Last-Modified") =>
           /\ answer.status = 200 /\ f.kind = "regular"
           /\ N0("Content-Length") = f.size /\ N0("Last-Modified") = f.time
           /\ answer.body = IF req.method = "HEAD" THEN 0 ELSE f.size
           /\ req.accept # <<>> => Acceptable(req.accept, head[Value(head, "Content-Type")].value)
           /\ Has(head, "Content-Encoding") =>
                \E i \in DOMAIN req.encodings : req.encodings[i][1] = head[Value(head, "Content-Encoding")].value /\ req.encodings[i][2] # "0"
      /\ answer.status = 304 => req.condition = "modified" /\ req.since >= Named(req, "").time
\* What goes out on a connection is true of the request and the files: the
\* length announced is the length sent; a file is sent only when it is the
\* regular file the route and the Content-Encoding name, acceptable and in no
\* encoding the client refused; 304 only when what the path names has not
\* changed (of a directory, not its index); every header occurs once, and the
\* reason phrase exists.  What Content-Encoding says of other answers is the
\* matter of CompressionOptional.
AnswersHonest == \A p \in Pollers : conn[p].pc = "send" => Honest(conn[p].req, SendTo(conn[p].part))

\* Once the owner stops the group it gets through: every poller's run()
\* returns and is joined, no accept loop and no connection goes on, no socket
\* stays open; also when start() failed half way or contexts were cancelled
\* before.  Only the assertion in the dispatcher is excepted.  The shutdown() of
\* a poller is one step here; IOContext's NoSelfLock is about its return.
Ended(p) == accept[p] # "listen" /\ conn[p].pc \notin {"read", "serve", "send"} /\ ~conn[p].open
StopEnds == main.pc = "stop" ~> main.pc = "aborted" \/ (main.pc = "done" /\ \A p \in Pollers : Ended(p))

-----------------------------------------------------------------------------
(* What documents and comments say and the code does not keep. *)

\* "if the try_sendfile is successful, return" (static.h 118), else the next
\* encoding and at last the file itself: a file that is found without an
\* Accept-Encoding is found with one.  It is not: try_sendfile() answers 404 for
\* the missing compressed file and reports no failure, so that the 404 goes
\* out, labelled with the encoding.
CompressionOptional ==
  \A p \in Pollers : conn[p].pc = "send" /\ conn[p].part.status = 404 =>
    \A o \in Answers(service, [conn[p].req EXCEPT !.encodings = <<>>]) : o.part.status # 200

\* "path `/foo/` - match `/foo/(.*)`, such as `/foo/bar`, `/foo/bar/baz`"
\* (docs/http/route.md 10-13): a route that was added for a path with a slash
\* at its end is found for whatever is below it.  The router keeps it as an
\* exact route.
RoutesDocumented ==
  main.pc = "start" =>
    \A r \in Requests, i \in 1..built :
      script[i].call = "add_route" /\ Last(script[i].path) = "" /\ Front(script[i].path) \in {SubSeq(r.path, 1, n) : n \in 0..(Len(r.path) - 1)}
        => Dispatch(service, FromStringView(r.method), r.path).handler # "not found"

\* A route without a handler for the method "should return 405" instead of
\* going down with rt_assert (docs/migration-compose2-progress.md 111): the
\* server outlives every request.  It does not.
MethodsAnswered == main.pc # "aborted"
=============================================================================
