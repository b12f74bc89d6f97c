---------------------------- MODULE HttpService ----------------------------
(***************************************************************************)
(* What an HTTP service answers: the router (net/http/router.h), the       *)
(* service and its builder (asio/http/service.h), the handler context      *)
(* (context.h), the response (response.h, response.cpp) and the built-in   *)
(* handlers (component/static.h, redirect.h).                              *)
(*                                                                         *)
(* A path is the sequence of its segments: "/a/b" is <<"a", "b">>, "/a/"   *)
(* is <<"a", "">>, "/" is <<"">>, and "*" is <<>>.  An outcome of a handler *)
(* is "replied" (the context holds a response), "status" (a status is      *)
(* returned instead), "none" (neither), "thrown" or "aborted".             *)
(***************************************************************************)
EXTENDS Integers, Sequences, FiniteSets, SequencesExt, TLC

CONSTANTS
  Files,           \* <<path below the root, suffix>> -> [kind, inside, size, time],
                   \* inside: the canonical path is below the root
  Ext,             \* the extension of a segment that has one
  Encodings,       \* StaticFileConfig::compress_encodings
  InlineCapacity,  \* SmallHeaderMap::inline_capacity
  HeadCap          \* the lines that fit the head buffer of sendto()

ASSUME ServiceAssumption ==
  /\ Encodings \subseteq {"br", "gzip", "deflate"} /\ InlineCapacity \in Nat /\ HeadCap \in Nat
  /\ \A f \in DOMAIN Files : Files[f].kind \in {"regular", "directory", "special", "unresolved", "unreadable"}

-----------------------------------------------------------------------------
(* Protocol tables. *)

Methods == <<"EXT", "GET", "POST", "PUT", "DELETE", "HEAD", "OPTIONS", "TRACE", "CONNECT">>
FromStringView(name) == IF \E i \in DOMAIN Methods : Methods[i] = name THEN name ELSE "UNKNOWN"

StatusCodes == <<100, 101, 200, 201, 202, 203, 204, 205, 206, 300, 301, 302, 303, 304, 305, 307, 308,
  400, 401, 402, 403, 404, 405, 406, 407, 408, 409, 410, 411, 412, 413, 414, 415, 416, 417, 421, 422, 426,
  500, 501, 502, 503, 504, 505>>
\* HTTP_REASON_PHRASES has a phrase per code and none for the default index.
ReasonPhrases == 0..43
ToIndex(status) ==
  IF \E i \in DOMAIN StatusCodes : StatusCodes[i] = status THEN (CHOOSE i \in DOMAIN StatusCodes : StatusCodes[i] = status) - 1 ELSE 44

\* One media type of each sort: wildcards, a type with a short name, one whose
\* name exceeds value_buffer_size, and the default.
FullTypes == [any_any |-> <<"*", "*">>, text_any |-> <<"text", "*">>, text_html |-> <<"text", "html">>, text_css |-> <<"text", "css">>,
              document |-> <<"application", "document">>, application_octet_stream |-> <<"application", "octet-stream">>]
LongValues == {"document"}
ExtensionToMediaType == (".html" :> "text_html") @@ (".css" :> "text_css") @@ (".docx" :> "document")
FromExtension(ext) == IF ext \in DOMAIN ExtensionToMediaType THEN ExtensionToMediaType[ext] ELSE "application_octet_stream"
Extension(seg) == IF seg \in DOMAIN Ext THEN Ext[seg] ELSE ""
TypeIncludes(range, type) ==
  LET r == FullTypes[range]
      t == FullTypes[type]
  IN  r[1] = "*" \/ (r[1] = t[1] /\ (r[2] = "*" \/ r[2] = t[2]))

\* parse_accept(): the ranges in order, weights dropped; a comma at the end of
\* the header throws (substr past the end).
ParseThrows(accept) == accept # <<>> /\ Last(accept) = ","
Acceptable(accept, type) == \E i \in DOMAIN accept : TypeIncludes(accept[i], type)
\* parse_accept_encoding(): pairs of a name and a weight, "" where there is none;
\* it throws likewise.  sendfile() goes through the names without a weight only.
EncodingThrows(list) == list # <<>> /\ Last(list)[1] = ","
Unweighted(list) == [i \in DOMAIN SelectSeq(list, LAMBDA e : e[2] = "") |-> SelectSeq(list, LAMBDA e : e[2] = "")[i][1]]
EncodingToExtension == [br |-> ".br", gzip |-> ".gz", deflate |-> ".deflate"]

-----------------------------------------------------------------------------
(* Router and builder.  A node maps a last segment, or Prefix, to an id.   *)

Prefix == "*"
EmptyService == [tree |-> (<<>> :> <<>>), handlers |-> <<>>, status |-> <<>>, next |-> 1]
WithNodes(tree, node) ==
  LET nodes == DOMAIN tree \cup {SubSeq(node, 1, i) : i \in 0..Len(node)}
  IN  [n \in nodes |-> IF n \in DOMAIN tree THEN tree[n] ELSE <<>>]

\* add_handler() on the id the router returned: a new id unless it is set, and
\* emplace keeps the first handler of an id and method.
AddHandler(s, node, key, handler, method) ==
  LET tree == WithNodes(s.tree, node)
      set == key \in DOMAIN tree[node]
      id == IF set THEN tree[node][key] ELSE s.next
  IN  [s EXCEPT !.tree = [tree EXCEPT ![node] = @ @@ (key :> id)],
                !.next = IF set THEN @ ELSE @ + 1,
                !.handlers = @ @@ (<<id, method>> :> handler)]
AddExact(s, path, handler, method) == AddHandler(s, Front(path), Last(path), handler, method)
\* add_prefix(): "/a/" and "/a" are the same node, "/a//b" is below a child "".
PrefixNode(path) == IF Last(path) = "" THEN Front(path) ELSE path
AddPrefix(s, path, handler) == AddHandler(s, PrefixNode(path), Prefix, handler, "UNKNOWN")
SetStatusHandler(s, status, handler) == [s EXCEPT !.status = @ @@ (status :> handler)]

NotRouted == [id |-> 0, rest |-> <<>>]
\* Mutant: a child that does not route the rest hides the prefix above it.
RECURSIVE RouteGreedy(_, _, _)
RouteGreedy(tree, node, path) ==
  LET key == Head(path)
      child == Append(node, key)
  IN  IF Len(path) > 1 /\ child \in DOMAIN tree THEN RouteGreedy(tree, child, Tail(path))
      ELSE IF Len(path) = 1 /\ key \in DOMAIN tree[node] THEN [id |-> tree[node][key], rest |-> path]
      ELSE IF Prefix \in DOMAIN tree[node] THEN [id |-> tree[node][Prefix], rest |-> path]
      ELSE NotRouted
\* HttpRouteNode::route(); rest is what it leaves in current_path.
RECURSIVE Route(_, _, _)
Route(tree, node, path) ==
  LET key == Head(path)
      child == Append(node, key)
      below == IF Len(path) > 1 /\ child \in DOMAIN tree THEN Route(tree, child, Tail(path)) ELSE NotRouted
  IN  IF below # NotRouted THEN below
      ELSE IF Len(path) = 1 /\ key \in DOMAIN tree[node] THEN [id |-> tree[node][key], rest |-> path]
      ELSE IF Prefix \in DOMAIN tree[node] THEN [id |-> tree[node][Prefix], rest |-> path]
      ELSE NotRouted

\* The handler operator() calls, with the path it hands over.
NoHandler(name) == [handler |-> name, rest |-> <<>>]
Dispatch(s, method, path) ==
  LET r == IF path = <<>> THEN NotRouted ELSE Route(s.tree, <<>>, path)
      Found(m) == <<r.id, m>> \in DOMAIN s.handlers
      To(m) == [handler |-> s.handlers[<<r.id, m>>], rest |-> r.rest]
  IN  IF r = NotRouted THEN NoHandler("not found")
      ELSE IF Found(method) THEN To(method)
      ELSE IF Found("UNKNOWN") THEN To("UNKNOWN")
      ELSE NoHandler("rt_assert")

-----------------------------------------------------------------------------
(* Responses. *)

ResponsePart(status) == [status |-> status, slots |-> <<>>, overflow |-> <<>>, body |-> 0]
Entries(part) == part.slots \o part.overflow
HasHeader(part, key) == \E i \in DOMAIN Entries(part) : Entries(part)[i].key = key
\* SmallHeaderMap::emplace(): the first value of a key stays; long values and
\* entries beyond the capacity spill.
Emplace(part, key, value, n) ==
  LET e == [key |-> key, value |-> value, n |-> n]
  IN  IF HasHeader(part, key) THEN part
      ELSE IF Len(part.slots) < InlineCapacity /\ value \notin LongValues THEN [part EXCEPT !.slots = Append(@, e)]
      ELSE [part EXCEPT !.overflow = Append(@, e)]

\* resp() with a string for a body of n octets, and with a function that writes n.
WithString(part, n) == [Emplace(part, "Content-Length", "", n) EXCEPT !.body = n]
WithWriter(part, n) == [part EXCEPT !.body = n]
Text == 1  \* the length of the texts that go with built-in replies

\* render_head() gives up when a line does not fit, to_string() never does.
AllLines(part) ==
  Entries(part) \o (IF HasHeader(part, "Server") THEN <<>> ELSE <<[key |-> "Server", value |-> "", n |-> 0]>>)
RenderHead(part) == IF Len(AllLines(part)) > HeadCap THEN <<>> ELSE AllLines(part)
\* sendto(): the head, then the body.
SendTo(part) ==
  [status |-> part.status, head |-> IF RenderHead(part) = <<>> THEN AllLines(part) ELSE RenderHead(part), body |-> part.body]

Outcome(kind, status, part) == [kind |-> kind, status |-> status, part |-> part]
Replied(part) == Outcome("replied", part.status, part)
Returns(status) == Outcome("status", status, ResponsePart(status))
Failed(kind) == Outcome(kind, 0, ResponsePart(0))

-----------------------------------------------------------------------------
(* Static files. *)

Lookup(rest, suffix) ==
  IF <<rest, suffix>> \in DOMAIN Files THEN Files[<<rest, suffix>>] ELSE [kind |-> "missing", inside |-> TRUE, size |-> 0, time |-> 0]
SendRegular(req, f, type) ==
  LET part == Emplace(Emplace(Emplace(ResponsePart(200), "Content-Length", "", f.size), "Last-Modified", "", f.time), "Content-Type", type, 0)
  IN  Replied(IF req.method = "HEAD" THEN part ELSE WithWriter(part, f.size))
IndexOf(rest) == Lookup(Front(rest) \o <<"index.html">>, "")
\* The index of a directory is not looked at again for where it is.
TrySendfile(req, rest, f, type) ==
  CASE f.kind = "unresolved" -> Returns(500)
    [] f.kind # "unresolved" /\ ~f.inside -> Replied(WithString(ResponsePart(403), Text))
    [] f.kind = "missing" /\ f.inside -> Replied(WithString(ResponsePart(404), Text))
    [] f.kind \in {"unreadable", "special"} /\ f.inside -> Returns(500)
    [] f.kind = "regular" /\ f.inside -> SendRegular(req, f, type)
    [] f.kind = "directory" /\ f.inside /\ Last(rest) # "" -> Returns(403)
    [] f.kind = "directory" /\ f.inside /\ Last(rest) = "" ->
         CASE IndexOf(rest).kind = "regular" -> SendRegular(req, IndexOf(rest), type)
           [] IndexOf(rest).kind = "missing" -> Replied(WithString(ResponsePart(403), Text))
           [] OTHER -> Returns(500)

\* Mutant: the compressed file is sent without saying so.
LabelledNot(part, encoding) == part
Labelled(part, encoding) == Emplace(part, "Content-Encoding", encoding, 0)

\* The rounds of the encodings, then the file itself.  Any reply ends them, also
\* a refusal; otherwise the extension is taken off again, which
\* replace_extension() does not do where it is the whole name.
RECURSIVE TryEncodings(_, _, _, _, _)
TryEncodings(req, rest, type, encodings, suffix) ==
  IF encodings = <<>> THEN TrySendfile(req, rest, Lookup(rest, suffix), type)
  ELSE LET longer == suffix \o EncodingToExtension[Head(encodings)]
           t == TrySendfile(req, rest, Lookup(rest, longer), type)
       IN  IF t.kind = "replied" THEN Replied(Labelled(t.part, Head(encodings)))
           ELSE TryEncodings(req, rest, type, Tail(encodings), IF Last(rest) = "" /\ suffix = "" THEN longer ELSE suffix)

\* sendfile().  An encoding with a weight is skipped; without one the weight
\* compared with 0 was never written, so it may be skipped or not.
\* req.condition is the conditional header that decides: "none"; "match" for an
\* If-None-Match, which is not looked into and disables the other; "modified" for
\* an If-Modified-Since, "unparsable" for one that is no date.  last_write_time()
\* throws where the path has no status, before the date is parsed.
Sendfile(req, rest, type, encodings) ==
  LET f == Lookup(rest, "")
  IN  IF ParseThrows(req.accept) THEN {Failed("thrown")}
      ELSE IF req.accept # <<>> /\ ~Acceptable(req.accept, type) THEN {Returns(406)}
      ELSE IF req.condition \in {"modified", "unparsable"} /\ f.kind \in {"missing", "unresolved", "unreadable"} THEN {Failed("thrown")}
      ELSE IF req.condition = "modified" /\ req.since >= f.time THEN {Returns(304)}
      ELSE IF encodings # {} /\ EncodingThrows(req.encodings) THEN {Failed("thrown")}
      ELSE {TryEncodings(req, rest, type, SelectSeq(Unweighted(req.encodings), LAMBDA e : e \in tried), "") : tried \in SUBSET encodings}

FolderRouteHandler(req, rest) ==
  IF req.method \notin {"GET", "HEAD"}
  THEN {Replied(WithString(Emplace(ResponsePart(405), "Allow", "GET, HEAD", 0), Text))}
  ELSE Sendfile(req, rest, FromExtension(Extension(Last(rest))), Encodings)
\* A route to one file; it edits its path in place, so that encodings are left
\* out where several pollers share it.
FilePath == <<"f.html">>
FileRouteHandler(req) == Sendfile(req, FilePath, FromExtension(Extension(Last(FilePath))), {})
RedirectHandler == {Replied(Emplace(ResponsePart(301), "Location", "document", 0))}
\* A handler of the application: it replies, returns a status, or neither.
UserHandler == {Replied(WithString(ResponsePart(200), Text)), Returns(403), Failed("none")}

Invoke(handler, req, rest) ==
  CASE handler = "folder" -> FolderRouteHandler(req, rest)
    [] handler = "file" -> FileRouteHandler(req)
    [] handler = "redirect" -> RedirectHandler
    [] OTHER -> UserHandler

\* A returned status goes to its handler, whose own status is not looked at.
AfterStatus(s, o, req, rest) ==
  IF o.kind # "status" THEN {o}
  ELSE IF o.status \in DOMAIN s.status
  THEN {IF h.kind = "status" THEN Failed("none") ELSE h : h \in Invoke(s.status[o.status], req, rest)}
  ELSE {Replied(ResponsePart(o.status))}
\* checkout(): a context without a response is an error of the server, and
\* every response is dated.
Checkout(o) ==
  IF o.kind \in {"thrown", "aborted"} THEN o
  ELSE Replied(Emplace(IF o.kind = "none" THEN ResponsePart(500) ELSE o.part, "Date", "", 0))

\* HttpService::operator().
Answers(s, req) ==
  LET to == Dispatch(s, req.method, req.path)
      outcomes == CASE to.handler = "not found" -> {Replied(ResponsePart(404))}
                    [] to.handler = "rt_assert" -> {Failed("aborted")}
                    [] OTHER -> UNION {AfterStatus(s, o, req, to.rest) : o \in Invoke(to.handler, req, to.rest)}
  IN  {Checkout(o) : o \in outcomes}
=============================================================================
