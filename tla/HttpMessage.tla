----------------------------- MODULE HttpMessage -----------------------------
(***************************************************************************)
(* The head reader of an HTTP connection (asio/http/common.h), the parsers *)
(* it drives (net/http/msg.h, net/http/request/line.h), the request        *)
(* builder of the client (asio/http/request.h) that fills the other end of *)
(* the wire, and the serving loop of a connection (asio/http/conn.h).      *)
(*                                                                         *)
(* An octet is "x" (text), "!" (text that makes its line malformed), "r"   *)
(* or "n" (the CRLF that ends a line) or "0" (never written).  The blocks  *)
(* of a Message hold positions of the wire instead of octets, so that a    *)
(* view knows which octets it was taken from and can be compared with what *)
(* its memory holds later.                                                 *)
(***************************************************************************)
EXTENDS Integers, Sequences, FiniteSets

CONSTANTS
  BlockSize,   \* HTTP_BUFFER_BLOCK_SIZE
  Scripts      \* the sequences of requests the client may send

(* A request is [lines, bad, target, query, close]: the lengths of its      *)
(* request line and headers, the number of a malformed line or 0, the form  *)
(* of its target, the length of its query, and whether it says              *)
(* "Connection: close".  The forms: a path in the origin form, the same     *)
(* with an escape, an absolute URI with and without a path, an authority,   *)
(* "*", and a target that is none of these, which parse() lets pass.        *)
PathForms == {"origin", "encoded", "absolute"}
QueryForms == PathForms \cup {"bare"}
Targets == QueryForms \cup {"authority", "asterisk", "unmatched"}

\* No line is longer than a block, so that append() gets through.
Request == [lines : Seq(1..BlockSize), bad : Nat, target : Targets, query : Nat, close : BOOLEAN]

ASSUME MessageAssumption ==
  /\ BlockSize \in Nat \ {0}
  /\ Scripts \subseteq Seq(Request)
  /\ \A s \in Scripts : \A i \in DOMAIN s : Len(s[i].lines) > 0 /\ s[i].bad <= Len(s[i].lines)

VARIABLES
  script,  \* what the client sends
  build,   \* RequestPartBuilder: [blocks, offset]; put and out count the
           \* pieces appended and the blocks written
  sent,    \* requests the client has written completely
  wire,    \* the octets written so far
  taken,   \* how many of them the server has read
  mem,     \* the blocks ever allocated: positions of the wire, 0 for none
  buffer,  \* Message::buffer, indices into mem
  win,     \* [block, from, to]: win_block, win_begin and win_end, from 0
  line,    \* RequestLine: the view of the line, the path and the query
  raw,     \* RequestLine::_raw: [size, cap, gen]
  headers, \* MessageRestView::headers, as the views of the header lines
  pc,      \* where imm_serve_connection and Message::read are
  err,     \* what read() returned
  served   \* the requests answered, as positions of their first octet

client == <<script, build, sent, wire>>
window == <<taken, mem, buffer, win>>
parsed == <<line, raw, headers>>
vars == <<script, build, sent, wire, taken, mem, buffer, win, line, raw, headers, pc, err, served>>

Smaller(m, n) == IF m < n THEN m ELSE n
Lowest(S) == CHOOSE i \in S : \A j \in S : i <= j
Highest(S) == CHOOSE i \in S : \A j \in S : j <= i
NoBlock == [i \in 1..BlockSize |-> 0]
NoView == [blk |-> 1, at |-> 0, len |-> 0, pos |-> 0]
\* Where a string_view points: into a block, into _raw as it was when decoded,
\* or at a literal or nothing.
InBlock(v) == [in |-> "block", view |-> v, gen |-> 0]
InRaw(g) == [in |-> "raw", view |-> NoView, gen |-> g]
Static == [in |-> "static", view |-> NoView, gen |-> 0]

-----------------------------------------------------------------------------
(* The client. *)

Text(r, i) == [j \in 1..r.lines[i] |-> IF r.bad = i THEN "!" ELSE "x"]
EOL == <<"r", "n">>
\* What set_method, set_target, set_version and add_header append, line by
\* line; write() appends the empty line.
Pieces(r) ==
  [n \in 1..(2 * Len(r.lines) + 1) |-> IF n % 2 = 1 /\ n < 2 * Len(r.lines) THEN Text(r, (n + 1) \div 2) ELSE EOL]

FreshBlock == [i \in 1..BlockSize |-> "0"]
EmptyBuild == [blocks |-> <<FreshBlock>>, offset |-> 0, put |-> 0, out |-> 0]
PutAt(block, off, s) == [i \in 1..BlockSize |-> IF i > off /\ i <= off + Len(s) THEN s[i - off] ELSE block[i]]
PutLast(b, off, s) == [b EXCEPT !.blocks[Len(b.blocks)] = PutAt(@, off, s)]
\* check_append(): a full block is closed before the next octet.
CheckAppend(b) ==
  IF b.offset = BlockSize THEN [b EXCEPT !.blocks = Append(@, FreshBlock), !.offset = 0] ELSE b

\* append(string_view), for texts no longer than a block, which end in the
\* block after the current one (its loop over longer texts does not advance).
PutPiece(b0, s) ==
  LET b == CheckAppend(b0)
      room == BlockSize - b.offset
  IN  IF Len(s) <= room THEN [PutLast(b, b.offset, s) EXCEPT !.offset = @ + Len(s)]
      ELSE LET full == PutLast(b, b.offset, SubSeq(s, 1, room))
           IN  [PutLast([full EXCEPT !.blocks = Append(@, FreshBlock)], 0, SubSeq(s, room + 1, Len(s)))
                  EXCEPT !.offset = Len(s) - room]
ClientPieces == Pieces(script[sent + 1])
ClientAppend ==
  /\ sent < Len(script) /\ build.put < Len(ClientPieces)
  /\ build' = [PutPiece(build, ClientPieces[build.put + 1]) EXCEPT !.put = @ + 1]
  /\ UNCHANGED <<script, sent, wire, window, parsed, pc, err, served>>

\* write(): every block but the last in full, then the last one up to offset.
ClientWrite ==
  /\ sent < Len(script) /\ build.put = Len(ClientPieces)
  /\ LET n == build.out + 1
         last == n = Len(build.blocks)
     IN  /\ wire' = wire \o (IF last THEN SubSeq(build.blocks[n], 1, build.offset) ELSE build.blocks[n])
         /\ sent' = IF last THEN sent + 1 ELSE sent
         /\ build' = IF last THEN EmptyBuild ELSE [build EXCEPT !.out = n]
  /\ UNCHANGED <<script, window, parsed, pc, err, served>>

-----------------------------------------------------------------------------
(* The reader. *)

Active == buffer[win.block]
Window == [i \in 1..(win.to - win.from) |-> wire[mem[Active][win.from + i]]]
View(from, to) == [blk |-> Active, at |-> win.from + from - 1, len |-> to - from + 1, pos |-> mem[Active][win.from + from]]
Moved(to, from, n, src) == [i \in 1..BlockSize |-> IF i <= n THEN src[from + i] ELSE to[i]]
Full == win.to = BlockSize

\* Mutant: the leftover stays where it is in its block.
CompactInPlace ==
  /\ mem' = mem
  /\ buffer' = [buffer EXCEPT ![1] = Active, ![win.block] = buffer[1]]
  /\ win' = [block |-> 1, from |-> 0, to |-> win.to - win.from]
\* The entry compaction: the unconsumed rest of the window moves to the front
\* of its block, and that block becomes the first.
Compact ==
  /\ mem' = IF win.from = 0 THEN mem
            ELSE [mem EXCEPT ![Active] = Moved(@, win.from, win.to - win.from, @)]
  /\ buffer' = [buffer EXCEPT ![1] = Active, ![win.block] = buffer[1]]
  /\ win' = [block |-> 1, from |-> 0, to |-> win.to - win.from]

\* Message::read() begins; rest.clear().
Read ==
  /\ pc = "read"
  /\ Compact
  /\ headers' = {}
  /\ pc' = "line"
  /\ UNCHANGED <<client, taken, line, raw, err, served>>

\* percent_decode(): reserve() may move the string, and decoded text is
\* appended; one escape makes the text two octets shorter.
Reserve(r, n) ==
  IF r.size + n <= r.cap THEN r
  ELSE [r EXCEPT !.cap = IF r.size + n > 2 * r.cap THEN r.size + n ELSE 2 * r.cap, !.gen = @ + 1]
Decoded(r, n, escaped) == IF escaped THEN [Reserve(r, n) EXCEPT !.size = @ + n - 2] ELSE Reserve(r, n)

\* The sums of the first n elements of a sequence of numbers.
Sums(d) == LET s[n \in 0..Len(d)] == IF n = 0 THEN 0 ELSE s[n - 1] + d[n] IN s
\* How many octets of a head lie before its line i, how long the head is, and
\* where the head of request k begins on the wire.
LineAt(r, i) == Sums([j \in 1..Len(r.lines) |-> r.lines[j] + 2])[i - 1]
HeadLen(r) == LineAt(r, Len(r.lines) + 1) + 2
StartOf(k) == 1 + Sums([j \in 1..Len(script) |-> HeadLen(script[j])])[k - 1]
\* The request whose first octet is at a position.
RequestAt(pos) == IF \E k \in DOMAIN script : StartOf(k) = pos THEN script[CHOOSE k \in DOMAIN script : StartOf(k) = pos] ELSE script[1]

\* RequestLine::parse(): [ok | again | illegal].
LineEnds(w) == {i \in 1..(Len(w) - 1) : w[i] = "r" /\ w[i + 1] = "n"}
LineResult(w) ==
  IF LineEnds(w) = {} THEN "again"
  ELSE IF Lowest(LineEnds(w)) = 1 \/ "!" \in {w[i] : i \in 1..Lowest(LineEnds(w))} THEN "illegal"
  ELSE "ok"
\* The path and the query by the form of the target; a form without one
\* leaves what the request before left there.
PathOf(r, v, gen, old) ==
  CASE r.target \in {"origin", "absolute"} -> InBlock(v)
    [] r.target = "encoded" -> InRaw(gen)
    [] r.target \in {"bare", "asterisk"} -> Static
    [] OTHER -> old
QueryOf(r, v, old) ==
  CASE r.target \in QueryForms /\ r.query > 0 -> InBlock(v)
    [] r.target \in QueryForms /\ r.query = 0 -> Static
    [] OTHER -> old
ParseLine ==
  /\ pc = "line"
  /\ LET w == Window
         end == Lowest(LineEnds(w))
         v == View(1, end - 1)
         r == RequestAt(v.pos)
         afterPath == IF r.target \in PathForms THEN Decoded(raw, v.len, r.target = "encoded") ELSE raw
     IN  \/ /\ LineResult(w) = "ok"
            /\ line' = [view |-> v, path |-> PathOf(r, v, afterPath.gen, line.path), query |-> QueryOf(r, v, line.query)]
            /\ raw' = IF r.target \in QueryForms THEN Decoded(afterPath, r.query, FALSE) ELSE raw
            /\ win' = [win EXCEPT !.from = @ + end + 1]
            /\ pc' = "rest"
            /\ UNCHANGED err
         \/ /\ LineResult(w) = "again"
            /\ pc' = "fill_line"
            /\ UNCHANGED <<line, raw, win, err>>
         \/ /\ LineResult(w) = "illegal"
            /\ err' = "illegal_byte_sequence"
            /\ pc' = "close"
            /\ UNCHANGED <<line, raw, win>>
  /\ UNCHANGED <<client, taken, mem, buffer, headers, served>>

\* MessageRestView::parse(): the header lines up to the empty line, the first
\* malformed line or the end of the window.
LineStart(w, e) == 2 + Highest({-1} \cup {f \in LineEnds(w) : f < e})
IsEmpty(w, e) == LineStart(w, e) = e
IsBad(w, e) == "!" \in {w[i] : i \in LineStart(w, e)..e}
Stops(w) == {e \in LineEnds(w) : IsEmpty(w, e) \/ IsBad(w, e)}
HeaderEnds(w) == {e \in LineEnds(w) : \A s \in Stops(w) : e < s}
\* Mutant: an incomplete header line is parsed again from the window's start.
RestConsumedNone(w) == IF Stops(w) = {} THEN 0 ELSE Lowest(Stops(w)) + 1
\* The length parse() returns: what is consumed of the window.
RestConsumed(w) ==
  1 + (IF Stops(w) = {} THEN Highest({-1} \cup LineEnds(w)) ELSE Lowest(Stops(w)))
ParseRest ==
  /\ pc = "rest"
  /\ LET w == Window
         malformed == Stops(w) # {} /\ ~IsEmpty(w, Lowest(Stops(w)))
     IN  /\ headers' = headers \cup {View(LineStart(w, e), e - 1) : e \in HeaderEnds(w)}
         /\ \/ malformed /\ err' = "illegal_byte_sequence" /\ pc' = "close" /\ UNCHANGED win
            \/ /\ ~malformed
               /\ win' = [win EXCEPT !.from = @ + RestConsumed(w)]
               /\ pc' = IF Stops(w) = {} THEN "fill_rest" ELSE "serve"
               /\ UNCHANGED err
  /\ UNCHANGED <<client, taken, mem, buffer, line, raw, served>>

\* Mutant: a full window without a line end is not refused.
TooLongNever == FALSE
\* rotate() finds no room: the line fills the whole block.
TooLong == Full /\ win.from = 0
\* rotate(): the unconsumed tail moves to the next block, which is appended
\* if there is none.
Rotated ==
  IF ~Full THEN [mem |-> mem, buffer |-> buffer, win |-> win]
  ELSE LET tail == win.to - win.from
           fresh == win.block = Len(buffer)
           m == IF fresh THEN Append(mem, NoBlock) ELSE mem
           b == IF fresh THEN Append(buffer, Len(mem) + 1) ELSE buffer
       IN  [mem |-> [m EXCEPT ![b[win.block + 1]] = Moved(@, win.from, tail, m[Active])],
            buffer |-> b, win |-> [block |-> win.block + 1, from |-> 0, to |-> tail]]

Filling == pc \in {"fill_line", "fill_rest"}
\* fill(): rotate, then read at least one octet of what has arrived.
Fill(n) ==
  /\ Filling /\ ~TooLong
  /\ LET r == Rotated
         id == r.buffer[r.win.block]
     IN  /\ n <= Smaller(BlockSize - r.win.to, Len(wire) - taken)
         /\ mem' = [r.mem EXCEPT ![id] = [i \in 1..BlockSize |->
                      IF i > r.win.to /\ i <= r.win.to + n THEN taken + i - r.win.to ELSE @[i]]]
         /\ buffer' = r.buffer
         /\ win' = [r.win EXCEPT !.to = @ + n]
  /\ taken' = taken + n
  /\ pc' = IF pc = "fill_line" THEN "line" ELSE "rest"
  /\ UNCHANGED <<client, parsed, err, served>>
\* fill() fails: a line longer than a block, or the end of the stream.
FillFails(e) ==
  /\ Filling
  /\ e = "illegal_byte_sequence" <=> TooLong
  /\ e = "not_connected" => taken = Len(wire) /\ sent = Len(script)
  /\ err' = e
  /\ pc' = "close"
  /\ UNCHANGED <<client, window, parsed, served>>
\* fill() fails because the transport does, whatever has arrived.
FillReset ==
  /\ Filling /\ ~TooLong
  /\ err' = "connection_reset"
  /\ pc' = "close"
  /\ UNCHANGED <<client, window, parsed, served>>

-----------------------------------------------------------------------------
(* The serving loop: the response is sent, a failure is only logged, and the *)
(* loop ends after a request that asked to close.                            *)
Serve ==
  /\ pc = "serve"
  /\ served' = Append(served, line.view.pos)
  /\ pc' = IF RequestAt(line.view.pos).close THEN "close" ELSE "read"
  /\ UNCHANGED <<client, window, parsed, err>>

\* deregister() ends the connection.
Deregister == pc = "close" /\ pc' = "closed" /\ UNCHANGED <<client, window, parsed, err, served>>

Init ==
  /\ script \in Scripts
  /\ build = EmptyBuild /\ sent = 0 /\ wire = <<>> /\ taken = 0
  /\ mem = <<NoBlock>> /\ buffer = <<1>> /\ win = [block |-> 1, from |-> 0, to |-> 0]
  /\ line = [view |-> NoView, path |-> Static, query |-> Static]
  /\ raw = [size |-> 0, cap |-> BlockSize, gen |-> 0]
  /\ headers = {} /\ pc = "read" /\ err = "none" /\ served = <<>>

ServerStep ==
  \/ Read \/ ParseLine \/ ParseRest \/ Serve \/ Deregister
  \/ \E n \in 1..BlockSize : Fill(n)
  \/ \E e \in {"illegal_byte_sequence", "not_connected"} : FillFails(e)
ClientStep == ClientAppend \/ ClientWrite
Next == ClientStep \/ ServerStep \/ FillReset

\* The client writes on and the coroutine of the connection runs on: a reader
\* that waits is woken by data or by the end of the stream.  No error of the
\* transport is owed to it.
Spec == Init /\ [][Next]_vars
FairSpec == Spec /\ WF_vars(ClientStep) /\ WF_vars(ServerStep)

-----------------------------------------------------------------------------
(* Properties. *)

Intact(v) == \A i \in 1..v.len : mem[v.blk][v.at + i] = v.pos + i - 1
Current == Len(served) + 1
\* Where the lines of a request lie on the wire.
LineSpans(k) ==
  {[pos |-> StartOf(k) + LineAt(script[k], i), len |-> script[k].lines[i]] : i \in DOMAIN script[k].lines}
SpanOf(v) == [pos |-> v.pos, len |-> v.len]

TypeOK ==
  /\ win.block \in DOMAIN buffer /\ 0 <= win.from /\ win.from <= win.to /\ win.to <= BlockSize
  /\ {buffer[i] : i \in DOMAIN buffer} = DOMAIN mem /\ taken <= Len(wire)

\* A path or query is of a request: its octets lie in a block that still holds
\* them or in _raw where it was decoded, and they are the request's.
Fresh(p, k) ==
  /\ p.in = "block" => Intact(p.view) /\ p.view.pos = StartOf(k)
  /\ p.in = "raw" => p.gen = raw.gen

\* When the service runs, the request it sees is the next request the client
\* built, whole: the views of the request line, of every header and of the
\* path and the query its target has hold exactly the octets they were taken
\* from although blocks were rotated and tails moved while the head arrived;
\* nothing of the octets behind the head is lost, doubled or moved out of
\* order; and octets are never read from memory no read filled.
HeadsExact ==
  /\ TypeOK
  /\ "0" \notin {wire[i] : i \in DOMAIN wire}
  /\ pc = "serve" =>
       /\ {SpanOf(line.view)} \cup {SpanOf(h) : h \in headers} = LineSpans(Current)
       /\ line.view.pos = StartOf(Current)
       /\ Intact(line.view) /\ \A h \in headers : Intact(h)
       /\ script[Current].target \in PathForms => Fresh(line.path, Current)
       /\ script[Current].target \in QueryForms => Fresh(line.query, Current)
       /\ \A i \in 1..(win.to - win.from) : mem[Active][win.from + i] = StartOf(Current + 1) + i - 1
       /\ StartOf(Current + 1) + win.to - win.from = taken + 1

\* "the request path, default is "/"" and "the request query, default is
\* empty" (request/line.h 34-35): what a request does not say has its default,
\* and is no view of an earlier request.  It does not hold: serve_connection
\* keeps one Request for the connection, and parse() resets no field.
TargetDefaults == pc = "serve" => Fresh(line.path, Current) /\ Fresh(line.query, Current)

\* A request read() can deliver: every line well formed and no longer than a
\* block with its CRLF.
Deliverable(r) == r.bad = 0 /\ \A i \in DOMAIN r.lines : r.lines[i] + 2 <= BlockSize
Leading == {k \in DOMAIN script : \A j \in 1..k : Deliverable(script[j]) /\ (j < k => ~script[j].close)}
\* A connection that no error of the transport cut short has answered every
\* request up to the first one that cannot be delivered or that asked to
\* close, each once and in order; read() refuses nothing else.
AnswersComplete ==
  pc = "closed" /\ err # "connection_reset" =>
    /\ Len(served) = Cardinality(Leading)
    /\ \A k \in DOMAIN served : served[k] = StartOf(k)
    /\ err = "illegal_byte_sequence" <=> \E k \in DOMAIN script : k = Current /\ ~Deliverable(script[k])
                                            /\ \A j \in 1..(k - 1) : ~script[j].close

\* The connection ends: no wait for octets that never come, no loop on a
\* window that never grows.
ConnectionEnds == <>(pc = "closed")
=============================================================================
