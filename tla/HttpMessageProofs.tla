------------------------- MODULE HttpMessageProofs -------------------------
(***************************************************************************)
(* The head reader of a connection, for every block size and every script  *)
(* of requests: what the service sees of a request is the request the      *)
(* client built, and a connection answers all it can.                      *)
(*                                                                         *)
(* The inductive invariant follows the octets from end to end: the blocks  *)
(* of the builder and the wire hold the octets of the script's heads in    *)
(* order (ClientInv), the window holds the wire from the reader's position *)
(* on (WindowInv), and the position is the start of a line of the current  *)
(* request whose earlier lines have views that no later rotation touches   *)
(* (ReaderInv).                                                            *)
(***************************************************************************)
EXTENDS HttpMessage, FiniteSetTheorems, SequenceTheorems, WellFoundedInduction, TLAPS

Octets == {"x", "!", "r", "n"}

-----------------------------------------------------------------------------
(* The octets of a head.  Its lines are numbered from 1; the empty line      *)
(* behind the headers is the last.                                           *)

Lines(r) == 1..(Len(r.lines) + 1)
LineLen(r, i) == IF i <= Len(r.lines) THEN r.lines[i] ELSE 0
LineTo(r, i) == LineAt(r, i) + LineLen(r, i)
Octet(r, n) ==
  IF \E i \in Lines(r) : n = LineTo(r, i) + 1 THEN "r"
  ELSE IF \E i \in Lines(r) : n = LineTo(r, i) + 2 THEN "n"
  ELSE IF r.bad # 0 /\ LineAt(r, r.bad) < n /\ n <= LineTo(r, r.bad) THEN "!"
  ELSE "x"
\* The octets before piece p + 1.
PieceAt(r, p) ==
  IF p > 2 * Len(r.lines) THEN HeadLen(r)
  ELSE IF p % 2 = 0 THEN LineAt(r, p \div 2 + 1) ELSE LineTo(r, (p + 1) \div 2)

-----------------------------------------------------------------------------
(* The inductive invariant. *)

Block == [1..BlockSize -> Octets \cup {"0"}]
BlockAt(b) == (b - 1) * BlockSize
Building == [blocks : Seq(Block), offset : 0..BlockSize, put : Nat, out : Nat]
BuiltTo(b) == BlockAt(Len(b.blocks)) + b.offset
\* The blocks of b hold the head of r as far as they are filled.
Holds(b, r) ==
  /\ b \in Building /\ Len(b.blocks) > 0
  /\ \A c \in 1..Len(b.blocks), i \in 1..BlockSize :
       BlockAt(c) + i <= BuiltTo(b) => b.blocks[c][i] = Octet(r, BlockAt(c) + i)
BuildOK(r) ==
  /\ Holds(build, r) /\ BuiltTo(build) = PieceAt(r, build.put)
  /\ build.out < Len(build.blocks) /\ build.put <= Len(Pieces(r))
  /\ build.out > 0 => build.put = Len(Pieces(r))
WireOK ==
  /\ wire \in Seq(Octets)
  /\ Len(wire) = StartOf(sent + 1) - 1 + BlockAt(build.out + 1)
  /\ \A k \in 1..Len(script) : \A n \in 1..HeadLen(script[k]) :
       StartOf(k) - 1 + n <= Len(wire) => wire[StartOf(k) - 1 + n] = Octet(script[k], n)
ClientInv ==
  /\ script \in Scripts /\ sent \in 0..Len(script)
  /\ sent < Len(script) => BuildOK(script[sent + 1])
  /\ sent = Len(script) => build = EmptyBuild
  /\ WireOK

\* How many octets of the wire the reader has consumed.
Position == taken - (win.to - win.from)
WindowInv ==
  /\ mem \in Seq([1..BlockSize -> Nat]) /\ buffer \in Seq(Nat) /\ Len(buffer) = Len(mem)
  /\ \A i \in 1..Len(buffer) : buffer[i] \in 1..Len(mem)
  /\ \A i, j \in 1..Len(buffer) : buffer[i] = buffer[j] => i = j
  /\ \A a \in 1..Len(mem) : \E i \in 1..Len(buffer) : buffer[i] = a
  /\ win \in [block : 1..Len(buffer), from : 0..BlockSize, to : 0..BlockSize] /\ win.from <= win.to
  /\ taken \in Nat /\ taken <= Len(wire) /\ Position \in Nat
  /\ \A i \in 1..(win.to - win.from) : mem[Active][win.from + i] = Position + i

ViewType == [blk : Nat, at : Nat, len : Nat, pos : Nat]
\* A view that holds what it was taken from, in memory that the reader does
\* not write before the next request.
Kept(v) ==
  /\ v \in ViewType /\ v.at + v.len <= BlockSize /\ Intact(v)
  /\ \E b \in 1..win.block : buffer[b] = v.blk /\ (b = win.block => v.at + v.len <= win.from)
Span(k, i) == [pos |-> StartOf(k) + LineAt(script[k], i), len |-> script[k].lines[i]]
Fits(r, i) == r.bad # i /\ r.lines[i] + 2 <= BlockSize
\* The path and the query of request r, where its target has them, are views
\* of its line, or the path is in _raw.
PathHeld(r) ==
  r.target \in PathForms =>
    /\ line.path.in = "block" => line.path.view = line.view
    /\ line.path.in = "raw" => r.target = "encoded" /\ (r.query = 0 => line.path.gen = raw.gen)
QueryHeld(r) ==
  r.target \in QueryForms => line.query.in # "raw" /\ (line.query.in = "block" => line.query.view = line.view)
\* The first m lines of the current request are parsed.
Parsed(m) ==
  /\ Kept(line.view) /\ SpanOf(line.view) = Span(Current, 1)
  /\ \A h \in headers : Kept(h)
  /\ {SpanOf(h) : h \in headers} = {Span(Current, i) : i \in 2..m}
  /\ PathHeld(script[Current]) /\ QueryHeld(script[Current])
  /\ \A i \in 1..m : Fits(script[Current], i)

AtLine == pc \in {"read", "line", "fill_line"}
AtRest == pc \in {"rest", "fill_rest"}
AtClose == pc \in {"close", "closed"}
Answered ==
  /\ served \in Seq(Nat) /\ Len(served) <= Len(script)
  /\ \A k \in 1..Len(served) : served[k] = StartOf(k) /\ Deliverable(script[k]) /\ (k < Len(served) => ~script[k].close)
  /\ Len(served) > 0 /\ script[Len(served)].close => AtClose /\ err = "none"
Closing ==
  /\ err \in {"none", "illegal_byte_sequence", "not_connected", "connection_reset"}
  /\ ~AtClose => err = "none"
  /\ AtClose /\ err = "none" => Len(served) > 0 /\ script[Len(served)].close
  /\ err = "illegal_byte_sequence" => Current <= Len(script) /\ ~Deliverable(script[Current])
  /\ err = "not_connected" => Len(served) = Len(script)
ReaderInv ==
  /\ raw \in [size : Int, cap : Int, gen : Int] /\ raw.size <= raw.cap
  /\ AtLine \/ AtRest \/ pc = "serve" \/ AtClose
  /\ AtLine => Position = StartOf(Current) - 1 /\ (pc # "read" => headers = {})
  /\ AtRest => /\ Current <= Len(script)
               /\ \E m \in 1..Len(script[Current].lines) :
                    Parsed(m) /\ Position = StartOf(Current) - 1 + LineAt(script[Current], m + 1)
  /\ pc = "serve" => /\ Current <= Len(script) /\ Parsed(Len(script[Current].lines))
                     /\ script[Current].bad = 0 /\ Position = StartOf(Current + 1) - 1
  /\ Filling => LineEnds(Window) = {}

IInv == ClientInv /\ WindowInv /\ ReaderInv /\ Answered /\ Closing

-----------------------------------------------------------------------------
(* Induction, and sums. *)

\* The order of the naturals is well-founded.
LEMMA Least ==
  ASSUME NEW S \in SUBSET Nat, S # {}
  PROVE  \E m \in S : \A n \in S : m <= n
<1>1. PICK m \in S : \A y \in S : ~(<<y, m>> \in OpToRel(<, Nat))
  BY NatLessThanWellFounded, WFMin
<1>2. \A y \in S : ~(y < m)
  BY <1>1 DEF OpToRel
<1> QED BY <1>2

\* Induction, for a property given as the set of the numbers that have it.
LEMMA Induct ==
  ASSUME NEW T, 0 \in T, \A n \in Nat : n \in T => n + 1 \in T
  PROVE  Nat \subseteq T
<1> SUFFICES ASSUME Nat \ T # {} PROVE FALSE
  OBVIOUS
<1> DEFINE S == Nat \ T
<1>1. PICK m \in S : \A n \in S : m <= n
  <2> HIDE DEF S
  <2>1. S \in SUBSET Nat /\ S # {}
    BY DEF S
  <2> QED BY <2>1, Least
<1>2. m # 0 /\ m - 1 \in Nat /\ m - 1 \notin S
  BY <1>1
<1> QED BY <1>2

\* The smallest element Lowest() chooses.
LEMMA LowestLemma ==
  ASSUME NEW S \in SUBSET Nat, S # {}
  PROVE  Lowest(S) \in S /\ \A n \in S : Lowest(S) <= n
BY Least DEF Lowest

\* The largest element Highest() chooses.
LEMMA HighestLemma ==
  ASSUME NEW S \in SUBSET Int, S # {}, NEW top \in Int, \A n \in S : n <= top
  PROVE  Highest(S) \in S /\ \A n \in S : n <= Highest(S)
<1> DEFINE D == {n \in Nat : top - n \in S}
<1>1. D \in SUBSET Nat /\ D # {}
  <2>1. PICK n \in S : TRUE
    OBVIOUS
  <2>2. top - n \in D
    BY <2>1
  <2> QED BY <2>2
<1>2. PICK m \in D : \A n \in D : m <= n
  <2> HIDE DEF D
  <2> QED BY <1>1, Least
<1>3. \A n \in S : top - n \in D
  OBVIOUS
<1>4. top - m \in S /\ \A n \in S : n <= top - m
  BY <1>2, <1>3
<1> QED BY <1>4 DEF Highest

\* The recursion of Sums has a solution, so Sums is one.
LEMMA SumsLemma ==
  ASSUME NEW d \in Seq(Nat)
  PROVE  /\ Sums(d) \in [0..Len(d) -> Nat] /\ Sums(d)[0] = 0
         /\ \A n \in 1..Len(d) : Sums(d)[n] = Sums(d)[n - 1] + d[n]
<1> DEFINE Solves(s, m) == s[0] = 0 /\ \A n \in 1..m : s[n] = s[n - 1] + d[n]
           Solvable(m) == m <= Len(d) => \E s \in [0..m -> Nat] : Solves(s, m)
           T == {m \in Nat : Solvable(m)}
<1>1. \A m \in Nat : Solvable(m)
  <2>1. Solvable(0)
    <3>1. [n \in 0..0 |-> 0] \in [0..0 -> Nat] /\ Solves([n \in 0..0 |-> 0], 0)
      OBVIOUS
    <3> QED BY <3>1
  <2>2. ASSUME NEW m \in Nat, Solvable(m)
        PROVE  Solvable(m + 1)
    <3> SUFFICES ASSUME m + 1 <= Len(d)
                 PROVE  \E s \in [0..(m + 1) -> Nat] : Solves(s, m + 1)
      OBVIOUS
    <3>1. PICK s \in [0..m -> Nat] : Solves(s, m)
      <4>1. m <= Len(d)
        BY LenProperties
      <4> HIDE DEF Solves
      <4> QED BY <2>2, <4>1
    <3> DEFINE t == [n \in 0..(m + 1) |-> IF n <= m THEN s[n] ELSE s[m] + d[m + 1]]
    <3>2. t \in [0..(m + 1) -> Nat]
      <4>1. s[m] \in Nat /\ d[m + 1] \in Nat
        OBVIOUS
      <4> QED BY <4>1
    <3>3. Solves(t, m + 1)
      BY <3>1
    <3> QED BY <3>2, <3>3
  <2> HIDE DEF Solvable
  <2>3. 0 \in T /\ \A n \in Nat : n \in T => n + 1 \in T
    BY <2>1, <2>2
  <2>4. Nat \subseteq T
    <3> HIDE DEF T
    <3> QED BY <2>3, Induct
  <2> QED BY <2>4
<1>2. PICK s \in [0..Len(d) -> Nat] : Solves(s, Len(d))
  BY <1>1
<1>3. s = [n \in 0..Len(d) |-> IF n = 0 THEN 0 ELSE s[n - 1] + d[n]]
  BY <1>2
<1> DEFINE U == CHOOSE u : u = [n \in 0..Len(d) |-> IF n = 0 THEN 0 ELSE u[n - 1] + d[n]]
<1>4. U = [n \in 0..Len(d) |-> IF n = 0 THEN 0 ELSE U[n - 1] + d[n]]
  BY <1>3
<1>5. Sums(d) = U
  BY DEF Sums
<1> HIDE DEF U
<1>6. U[0] = 0 /\ \A n \in 1..Len(d) : U[n] = U[n - 1] + d[n]
  <2>1. Len(d) \in Nat
    OBVIOUS
  <2> DEFINE l == Len(d)
  <2>2. U = [n \in 0..l |-> IF n = 0 THEN 0 ELSE U[n - 1] + d[n]] /\ l \in Nat
    BY <1>4, <2>1
  <2> HIDE DEF l
  <2>3. \A n \in 0..l : U[n] = IF n = 0 THEN 0 ELSE U[n - 1] + d[n]
    BY <2>2
  <2>4. 0 \in 0..l /\ \A n \in 1..l : n \in 0..l /\ n # 0
    BY <2>2
  <2> QED BY <2>3, <2>4 DEF l
<1> DEFINE V == {m \in Nat : m <= Len(d) => U[m] \in Nat}
<1>7. Nat \subseteq V
  <2>1. 0 \in V
    BY <1>6
  <2>2. ASSUME NEW m \in Nat, m \in V PROVE m + 1 \in V
    <3> SUFFICES ASSUME m + 1 <= Len(d) PROVE U[m + 1] \in Nat
      OBVIOUS
    <3>1. m + 1 \in 1..Len(d) /\ m <= Len(d) /\ (m + 1) - 1 = m
      OBVIOUS
    <3>2. U[m + 1] = U[m] + d[m + 1]
      BY <1>6, <3>1
    <3>3. U[m] \in Nat /\ d[m + 1] \in Nat
      BY <2>2, <3>1
    <3> QED BY <3>2, <3>3
  <2> HIDE DEF V
  <2> QED BY <2>1, <2>2, Induct
<1>8. U \in [0..Len(d) -> Nat]
  <2>1. \A m \in 0..Len(d) : U[m] \in Nat
    BY <1>7
  <2>2. DOMAIN U = 0..Len(d)
    BY <1>4
  <2>3. U = [n \in 0..Len(d) |-> U[n]]
    BY <1>4, <2>2
  <2> QED BY <2>1, <2>3
<1> QED BY <1>5, <1>6, <1>8

\* A later sum contains every earlier one and the element behind it.
LEMMA SumsGrow ==
  ASSUME NEW d \in Seq(Nat), NEW i \in 0..Len(d), NEW j \in 0..Len(d), i < j
  PROVE  Sums(d)[i] + d[i + 1] <= Sums(d)[j]
<1> DEFINE U == Sums(d)
           V == {m \in Nat : i + 1 + m <= Len(d) => U[i + 1] <= U[i + 1 + m]}
<1>1. /\ U \in [0..Len(d) -> Nat]
      /\ \A n \in 1..Len(d) : U[n] = U[n - 1] + d[n]
  BY SumsLemma
<1> HIDE DEF U
<1>2. Nat \subseteq V
  <2>1. 0 \in V
    <3>1. i + 1 + 0 = i + 1 /\ i + 1 \in 0..Len(d)
      OBVIOUS
    <3>2. U[i + 1] \in Nat
      BY <1>1, <3>1
    <3>3. U[i + 1] <= U[i + 1]
      BY <3>2
    <3>4. U[i + 1] <= U[i + 1 + 0]
      BY <3>1, <3>3, Zenon
    <3> QED BY <3>4
  <2>2. ASSUME NEW m \in Nat, m \in V
        PROVE  m + 1 \in V
    <3> SUFFICES ASSUME i + 1 + (m + 1) <= Len(d)
                 PROVE  U[i + 1] <= U[i + 1 + (m + 1)]
      OBVIOUS
    <3>1. i + 1 + (m + 1) \in 1..Len(d) /\ i + 1 \in 0..Len(d) /\ i + 1 + m \in 0..Len(d)
      OBVIOUS
    <3>2. U[i + 1 + (m + 1)] = U[i + 1 + m] + d[i + 1 + (m + 1)]
      BY <1>1, <3>1
    <3>3. U[i + 1] <= U[i + 1 + m]
      BY <2>2, <3>1
    <3>4. U[i + 1] \in Nat /\ U[i + 1 + m] \in Nat /\ d[i + 1 + (m + 1)] \in Nat
      <4>1. d \in [1..Len(d) -> Nat]
        OBVIOUS
      <4>2. i + 1 + m \in 0..Len(d)
        BY <3>1
      <4> QED BY <1>1, <3>1, <4>1, <4>2
    <3> DEFINE g == U[i + 1]
               h == U[i + 1 + m]
               e == d[i + 1 + (m + 1)]
               z == U[i + 1 + (m + 1)]
    <3>5. g \in Nat /\ h \in Nat /\ e \in Nat /\ g <= h /\ z = h + e
      BY <3>2, <3>3, <3>4
    <3> HIDE DEF g, h, e, z
    <3>6. g <= z
      BY <3>5
    <3> QED BY <3>6 DEF g, z
  <2> HIDE DEF V
  <2> QED BY <2>1, <2>2, Induct
<1>3. j - (i + 1) \in Nat /\ i + 1 + (j - (i + 1)) = j
  OBVIOUS
<1>4. U[i + 1] <= U[j]
  <2>1. j - (i + 1) \in V
    BY <1>2, <1>3
  <2> QED BY <1>3, <2>1
<1>5. U[i + 1] = U[i] + d[i + 1]
  BY <1>1
<1> QED BY <1>4, <1>5 DEF U

-----------------------------------------------------------------------------
(* Where lines and heads lie. *)

Whole(r) == r \in Request /\ Len(r.lines) > 0 /\ r.bad <= Len(r.lines)

\* Where the lines of a head begin and end.
LEMMA LinesLemma ==
  ASSUME NEW r, Whole(r)
  PROVE  /\ Len(r.lines) \in Nat \ {0} /\ r.bad \in 0..Len(r.lines)
         /\ \A i \in 1..Len(r.lines) : r.lines[i] \in 1..BlockSize
         /\ \A i \in Lines(r) : LineAt(r, i) \in Nat /\ LineLen(r, i) \in Nat /\ LineTo(r, i) \in Nat
         /\ LineAt(r, 1) = 0
         /\ \A i \in 1..Len(r.lines) : LineAt(r, i + 1) = LineTo(r, i) + 2
         /\ HeadLen(r) = LineTo(r, Len(r.lines) + 1) + 2
         /\ \A i, j \in Lines(r) : i < j => LineTo(r, i) + 2 <= LineAt(r, j)
         /\ \A i \in Lines(r) : LineTo(r, i) + 2 <= HeadLen(r)
<1> DEFINE L == Len(r.lines)
           d == [j \in 1..L |-> r.lines[j] + 2]
<1>1. /\ L \in Nat \ {0} /\ r.bad \in 0..L
      /\ \A i \in 1..L : r.lines[i] \in 1..BlockSize
  BY MessageAssumption DEF Whole, Request
<1>2. d \in Seq(Nat) /\ Len(d) = L /\ \A i \in 1..L : d[i] = r.lines[i] + 2
  <2>1. \A i \in 1..L : r.lines[i] + 2 \in Nat
    BY <1>1, MessageAssumption
  <2> HIDE DEF L
  <2>2. d \in [1..L -> Nat]
    BY <2>1
  <2> QED BY <1>1, <2>2, IsASeq, LenProperties
<1> HIDE DEF d
<1>3. \A i : LineAt(r, i) = Sums(d)[i - 1]
  BY DEF LineAt, d
<1>4. /\ Sums(d) \in [0..L -> Nat] /\ Sums(d)[0] = 0
      /\ \A n \in 1..L : Sums(d)[n] = Sums(d)[n - 1] + d[n]
      /\ \A i, j \in 0..L : i < j => Sums(d)[i] + d[i + 1] <= Sums(d)[j]
  BY <1>2, SumsLemma, SumsGrow
<1> HIDE DEF L
<1>5. \A i \in 1..(L + 1) : LineAt(r, i) \in Nat /\ LineLen(r, i) \in Nat /\ LineTo(r, i) \in Nat
  <2>1. \A i \in 1..(L + 1) : i - 1 \in 0..L
    BY <1>1
  <2>2. \A i \in 1..(L + 1) : LineAt(r, i) \in Nat
    BY <1>3, <1>4, <2>1
  <2>3. \A i \in 1..(L + 1) : LineLen(r, i) \in Nat
    BY <1>1, MessageAssumption DEF LineLen, L
  <2> QED BY <2>2, <2>3 DEF LineTo
<1>6. LineAt(r, 1) = 0
  BY <1>3, <1>4
<1>7. \A i \in 1..L : LineAt(r, i + 1) = LineTo(r, i) + 2
  <2> SUFFICES ASSUME NEW i \in 1..L
               PROVE  LineAt(r, i + 1) = LineTo(r, i) + 2
    OBVIOUS
  <2>1. LineAt(r, i + 1) = Sums(d)[i]
    BY <1>1, <1>3
  <2>2. LineAt(r, i) = Sums(d)[i - 1] /\ LineAt(r, i) \in Nat
    BY <1>1, <1>3, <1>5
  <2>3. Sums(d)[i] = Sums(d)[i - 1] + (r.lines[i] + 2)
    BY <1>2, <1>4
  <2>4. LineLen(r, i) = r.lines[i]
    BY <1>1 DEF LineLen, L
  <2>5. r.lines[i] \in Nat
    BY <1>1, MessageAssumption
  <2>6. LineAt(r, i + 1) = LineAt(r, i) + (LineLen(r, i) + 2)
    BY <2>1, <2>2, <2>3, <2>4
  <2> QED BY <2>2, <2>4, <2>5, <2>6 DEF LineTo
<1>8. HeadLen(r) = LineTo(r, L + 1) + 2
  BY <1>1, <1>5 DEF HeadLen, LineTo, LineLen, L
<1>9. \A i, j \in 1..(L + 1) : i < j => LineTo(r, i) + 2 <= LineAt(r, j)
  <2> SUFFICES ASSUME NEW i \in 1..(L + 1), NEW j \in 1..(L + 1), i < j
               PROVE  LineTo(r, i) + 2 <= LineAt(r, j)
    OBVIOUS
  <2>1. LineAt(r, i) = Sums(d)[i - 1] /\ LineAt(r, j) = Sums(d)[j - 1]
    BY <1>3
  <2>2. i - 1 \in 0..L /\ j - 1 \in 0..L /\ i - 1 < j - 1 /\ i \in 1..L /\ (i - 1) + 1 = i
    BY <1>1
  <2>3. Sums(d)[i - 1] + d[i] <= Sums(d)[j - 1]
    BY <1>4, <2>2
  <2>4. LineLen(r, i) = r.lines[i] /\ d[i] = r.lines[i] + 2 /\ r.lines[i] \in Nat
    BY <1>1, <1>2, <2>2, MessageAssumption DEF LineLen, L
  <2>5. LineAt(r, i) \in Nat
    BY <1>5
  <2> QED BY <2>1, <2>3, <2>4, <2>5 DEF LineTo
<1>10. \A i \in 1..(L + 1) : LineTo(r, i) + 2 <= HeadLen(r)
  <2> SUFFICES ASSUME NEW i \in 1..(L + 1)
               PROVE  LineTo(r, i) + 2 <= HeadLen(r)
    OBVIOUS
  <2>1. CASE i = L + 1
    BY <1>5, <1>8, <2>1
  <2>2. CASE i < L + 1
    <3>1. LineTo(r, i) + 2 <= LineAt(r, L + 1)
      BY <1>1, <1>9, <2>2
    <3>2. LineAt(r, L + 1) <= LineTo(r, L + 1)
      BY <1>1, <1>5 DEF LineTo
    <3> QED BY <1>1, <1>5, <1>8, <3>1, <3>2
  <2> QED BY <1>1, <2>1, <2>2
<1> QED BY <1>1, <1>5, <1>6, <1>7, <1>8, <1>9, <1>10 DEF Lines, L

\* What the octets of a line are.
LEMMA OctetLemma ==
  ASSUME NEW r, Whole(r), NEW i \in Lines(r)
  PROVE  /\ Octet(r, LineTo(r, i) + 1) = "r"
         /\ Octet(r, LineTo(r, i) + 2) = "n"
         /\ \A n \in Int : LineAt(r, i) < n /\ n <= LineTo(r, i) => Octet(r, n) = IF r.bad = i THEN "!" ELSE "x"
<1>1. \A j \in Lines(r) : j < i => LineTo(r, j) + 2 <= LineAt(r, i)
  BY LinesLemma
<1>2. \A j \in Lines(r) : i < j => LineTo(r, i) + 2 <= LineTo(r, j)
  BY LinesLemma DEF LineTo
<1>3. \A j \in Lines(r) : LineAt(r, j) \in Nat /\ LineTo(r, j) \in Nat /\ LineAt(r, j) <= LineTo(r, j) /\ j \in Nat
  BY LinesLemma DEF LineTo, Lines
<1>4. \A j \in Lines(r) : LineTo(r, j) + 1 # LineTo(r, i) + 2
  BY <1>1, <1>2, <1>3
<1>5. \A n \in Int : LineAt(r, i) < n /\ n <= LineTo(r, i) =>
        \A j \in Lines(r) : n # LineTo(r, j) + 1 /\ n # LineTo(r, j) + 2
  BY <1>1, <1>2, <1>3
<1>6. \A n \in Int : LineAt(r, i) < n /\ n <= LineTo(r, i) /\ r.bad # 0 /\ r.bad # i =>
        ~(LineAt(r, r.bad) < n /\ n <= LineTo(r, r.bad))
  <2> SUFFICES ASSUME NEW n \in Int, LineAt(r, i) < n, n <= LineTo(r, i), r.bad # 0, r.bad # i,
                      LineAt(r, r.bad) < n, n <= LineTo(r, r.bad)
               PROVE  FALSE
    OBVIOUS
  <2>1. r.bad \in Lines(r) /\ (r.bad < i \/ i < r.bad)
    <3>1. r.bad \in 0..Len(r.lines) /\ Len(r.lines) \in Nat
      BY LinesLemma
    <3> QED BY <3>1 DEF Lines
  <2>2. r.bad < i => LineTo(r, r.bad) + 2 <= LineAt(r, i)
    BY <1>1, <2>1
  <2>3. i < r.bad => LineTo(r, i) + 2 <= LineAt(r, r.bad)
    BY <2>1, LinesLemma
  <2> QED BY <1>3, <2>1, <2>2, <2>3
<1>7. i # 0
  BY DEF Lines
<1> QED BY <1>4, <1>5, <1>6, <1>7 DEF Octet

\* The heads of a script lie one behind the other.
LEMMA StartLemma ==
  ASSUME script \in Scripts
  PROVE  /\ Len(script) \in Nat
         /\ \A k \in 1..(Len(script) + 1) : StartOf(k) \in Nat
         /\ StartOf(1) = 1
         /\ \A k \in 1..Len(script) : /\ Whole(script[k])
                                      /\ HeadLen(script[k]) \in Nat /\ HeadLen(script[k]) > 1
                                      /\ StartOf(k + 1) = StartOf(k) + HeadLen(script[k])
         /\ \A j, k \in 1..(Len(script) + 1) : j < k => StartOf(j) + HeadLen(script[j]) <= StartOf(k)
<1> DEFINE L == Len(script)
           d == [j \in 1..L |-> HeadLen(script[j])]
<1>1. script \in Seq(Request) /\ L \in Nat /\ \A k \in 1..L : script[k] \in Request /\ Whole(script[k])
  BY MessageAssumption DEF Whole
<1>2. \A k \in 1..L : HeadLen(script[k]) \in Nat /\ HeadLen(script[k]) > 1
  <2> SUFFICES ASSUME NEW k \in 1..L
               PROVE  HeadLen(script[k]) \in Nat /\ HeadLen(script[k]) > 1
    OBVIOUS
  <2> DEFINE r == script[k]
  <2>1. Whole(r)
    BY <1>1
  <2> HIDE DEF r
  <2>2. Len(r.lines) + 1 \in Lines(r)
    BY <2>1, LinesLemma DEF Lines
  <2>3. LineTo(r, Len(r.lines) + 1) \in Nat /\ HeadLen(r) = LineTo(r, Len(r.lines) + 1) + 2
    BY <2>1, <2>2, LinesLemma
  <2>4. HeadLen(r) \in Nat /\ HeadLen(r) > 1
    BY <2>3
  <2> QED BY <2>4 DEF r
<1>3. d \in Seq(Nat) /\ Len(d) = L /\ \A k \in 1..L : d[k] = HeadLen(script[k])
  <2> HIDE DEF L
  <2>1. d \in [1..L -> Nat]
    BY <1>2
  <2> QED BY <1>1, <2>1, IsASeq, LenProperties
<1> HIDE DEF d
<1>4. \A k : StartOf(k) = 1 + Sums(d)[k - 1]
  BY DEF StartOf, d
<1>5. /\ Sums(d) \in [0..L -> Nat] /\ Sums(d)[0] = 0
      /\ \A n \in 1..L : Sums(d)[n] = Sums(d)[n - 1] + d[n]
      /\ \A i, j \in 0..L : i < j => Sums(d)[i] + d[i + 1] <= Sums(d)[j]
  BY <1>3, SumsLemma, SumsGrow
<1> HIDE DEF L
<1>6. \A k \in 1..(L + 1) : k - 1 \in 0..L /\ Sums(d)[k - 1] \in Nat
  <2>1. \A k \in 1..(L + 1) : k - 1 \in 0..L
    BY <1>1
  <2> QED BY <1>5, <2>1
<1>7. \A k \in 1..(L + 1) : StartOf(k) \in Nat
  BY <1>4, <1>6
<1>8. StartOf(1) = 1
  BY <1>4, <1>5
<1>9. \A k \in 1..L : StartOf(k + 1) = StartOf(k) + HeadLen(script[k])
  <2> SUFFICES ASSUME NEW k \in 1..L
               PROVE  StartOf(k + 1) = StartOf(k) + HeadLen(script[k])
    OBVIOUS
  <2>1. StartOf(k + 1) = 1 + Sums(d)[k] /\ StartOf(k) = 1 + Sums(d)[k - 1]
    BY <1>1, <1>4
  <2>2. Sums(d)[k] = Sums(d)[k - 1] + HeadLen(script[k])
    BY <1>3, <1>5
  <2>3. Sums(d)[k - 1] \in Nat /\ HeadLen(script[k]) \in Nat
    BY <1>1, <1>2, <1>6
  <2> QED BY <2>1, <2>2, <2>3
<1>10. \A j, k \in 1..(L + 1) : j < k => StartOf(j) + HeadLen(script[j]) <= StartOf(k)
  <2> SUFFICES ASSUME NEW j \in 1..(L + 1), NEW k \in 1..(L + 1), j < k
               PROVE  StartOf(j) + HeadLen(script[j]) <= StartOf(k)
    OBVIOUS
  <2>1. StartOf(j) = 1 + Sums(d)[j - 1] /\ StartOf(k) = 1 + Sums(d)[k - 1]
    BY <1>4
  <2>2. j \in 1..L /\ j - 1 \in 0..L /\ k - 1 \in 0..L /\ j - 1 < k - 1 /\ (j - 1) + 1 = j
    BY <1>1
  <2>3. Sums(d)[j - 1] + d[j] <= Sums(d)[k - 1]
    BY <1>5, <2>2
  <2>4. d[j] = HeadLen(script[j]) /\ HeadLen(script[j]) \in Nat
    BY <1>2, <1>3, <2>2
  <2>5. Sums(d)[j - 1] \in Nat /\ Sums(d)[k - 1] \in Nat
    BY <1>6
  <2> QED BY <2>1, <2>3, <2>4, <2>5
<1> QED BY <1>1, <1>2, <1>7, <1>8, <1>9, <1>10 DEF L

\* The wire begins at position 1.
LEMMA StartPositive ==
  ASSUME script \in Scripts, NEW k \in 1..(Len(script) + 1)
  PROVE  StartOf(k) \in Nat /\ StartOf(k) > 0
<1>1. Len(script) \in Nat /\ StartOf(k) \in Nat /\ StartOf(1) = 1
  BY StartLemma
<1>2. CASE k = 1
  BY <1>1, <1>2
<1>3. CASE k # 1
  <2>1. 1 \in 1..Len(script) /\ 1 \in 1..(Len(script) + 1) /\ 1 < k
    BY <1>1, <1>3
  <2>2. StartOf(1) + HeadLen(script[1]) <= StartOf(k) /\ HeadLen(script[1]) \in Nat
    BY <2>1, StartLemma
  <2> QED BY <1>1, <2>2
<1> QED BY <1>2, <1>3

\* The request RequestAt() finds at the start of a head.
LEMMA RequestAtLemma ==
  ASSUME script \in Scripts, NEW k \in 1..Len(script)
  PROVE  RequestAt(StartOf(k)) = script[k]
<1> DEFINE L == Len(script)
<1>1. L \in Nat /\ DOMAIN script = 1..L
  BY MessageAssumption
<1>2. \A j \in 1..L : StartOf(j) = StartOf(k) => j = k
  <2> SUFFICES ASSUME NEW j \in 1..L, StartOf(j) = StartOf(k), j # k
               PROVE  FALSE
    OBVIOUS
  <2>1. j \in 1..(L + 1) /\ k \in 1..(L + 1) /\ (j < k \/ k < j)
    BY <1>1
  <2>2. j < k => StartOf(j) + HeadLen(script[j]) <= StartOf(k)
    BY <2>1, StartLemma
  <2>3. k < j => StartOf(k) + HeadLen(script[k]) <= StartOf(j)
    BY <2>1, StartLemma
  <2>4. /\ StartOf(k) \in Nat /\ StartOf(j) \in Nat
        /\ HeadLen(script[j]) \in Nat /\ HeadLen(script[j]) > 1
        /\ HeadLen(script[k]) \in Nat /\ HeadLen(script[k]) > 1
    BY <2>1, StartLemma
  <2> QED BY <2>1, <2>2, <2>3, <2>4
<1> DEFINE c == CHOOSE j \in DOMAIN script : StartOf(j) = StartOf(k)
<1>3. c \in 1..L /\ StartOf(c) = StartOf(k)
  BY <1>1
<1>4. c = k
  BY <1>2, <1>3
<1> QED BY <1>1, <1>4 DEF RequestAt

-----------------------------------------------------------------------------
(* The builder of the client. *)

\* Piece by piece the builder gets the octets of the head.
LEMMA PiecesLemma ==
  ASSUME NEW r, Whole(r)
  PROVE  /\ Len(Pieces(r)) = 2 * Len(r.lines) + 1
         /\ PieceAt(r, 0) = 0 /\ PieceAt(r, Len(Pieces(r))) = HeadLen(r)
         /\ \A p \in 0..(2 * Len(r.lines)) :
              /\ PieceAt(r, p) \in Nat
              /\ Pieces(r)[p + 1] \in Seq(Octets)
              /\ Len(Pieces(r)[p + 1]) \in 1..(BlockSize + 1)
              /\ PieceAt(r, p + 1) = PieceAt(r, p) + Len(Pieces(r)[p + 1])
              /\ \A j \in 1..Len(Pieces(r)[p + 1]) : Pieces(r)[p + 1][j] = Octet(r, PieceAt(r, p) + j)
<1> DEFINE L == Len(r.lines)
<1>1. L \in Nat \ {0}
  BY LinesLemma
<1>2. Len(Pieces(r)) = 2 * L + 1 /\ \A n \in 1..(2 * L + 1) : Pieces(r)[n] = IF n % 2 = 1 /\ n < 2 * L THEN Text(r, (n + 1) \div 2) ELSE EOL
  <2> HIDE DEF L
  <2> QED BY <1>1 DEF Pieces, L
<1>3. PieceAt(r, 0) = 0
  BY <1>1, LinesLemma DEF PieceAt
<1>4. PieceAt(r, 2 * L + 1) = HeadLen(r)
  <2> HIDE DEF L
  <2>1. 2 * L + 1 > 2 * L
    BY <1>1
  <2> QED BY <2>1 DEF PieceAt, L
<1>5. ASSUME NEW i \in 1..L
      PROVE  /\ Text(r, i) \in Seq(Octets) /\ Len(Text(r, i)) = LineLen(r, i) /\ LineLen(r, i) \in 1..BlockSize
             /\ \A j \in 1..LineLen(r, i) : Text(r, i)[j] = Octet(r, LineAt(r, i) + j)
  <2>1. i \in Lines(r) /\ LineLen(r, i) = r.lines[i] /\ LineLen(r, i) \in 1..BlockSize /\ LineAt(r, i) \in Nat
    BY <1>1, LinesLemma DEF LineLen, Lines
  <2>2. Text(r, i) \in [1..LineLen(r, i) -> Octets]
    BY <2>1 DEF Text, Octets
  <2>3. LineLen(r, i) \in Nat
    BY <2>1, MessageAssumption
  <2>4. Text(r, i) \in Seq(Octets) /\ Len(Text(r, i)) = LineLen(r, i)
    BY <2>2, <2>3, IsASeq, LenProperties
  <2>5. ASSUME NEW j \in 1..LineLen(r, i)
        PROVE  Text(r, i)[j] = Octet(r, LineAt(r, i) + j)
    <3>1. LineAt(r, i) + j \in Int /\ LineAt(r, i) < LineAt(r, i) + j /\ LineAt(r, i) + j <= LineTo(r, i)
      BY <2>1, <2>3 DEF LineTo
    <3>2. Octet(r, LineAt(r, i) + j) = IF r.bad = i THEN "!" ELSE "x"
      BY <2>1, <3>1, OctetLemma
    <3>3. Text(r, i)[j] = IF r.bad = i THEN "!" ELSE "x"
      BY <2>1 DEF Text
    <3> QED BY <3>2, <3>3
  <2> QED BY <2>1, <2>4, <2>5
<1>6. EOL \in Seq(Octets) /\ Len(EOL) = 2 /\ EOL[1] = "r" /\ EOL[2] = "n" /\ Len(EOL) \in 1..(BlockSize + 1)
  BY MessageAssumption DEF EOL, Octets
<1>7. ASSUME NEW i \in Lines(r)
      PROVE  \A j \in 1..Len(EOL) : EOL[j] = Octet(r, LineTo(r, i) + j)
  BY <1>6, OctetLemma
<1>8. ASSUME NEW p \in 0..(2 * L)
      PROVE  /\ PieceAt(r, p) \in Nat
             /\ Pieces(r)[p + 1] \in Seq(Octets)
             /\ Len(Pieces(r)[p + 1]) \in 1..(BlockSize + 1)
             /\ PieceAt(r, p + 1) = PieceAt(r, p) + Len(Pieces(r)[p + 1])
             /\ \A j \in 1..Len(Pieces(r)[p + 1]) : Pieces(r)[p + 1][j] = Octet(r, PieceAt(r, p) + j)
  <2> DEFINE i == p \div 2 + 1
  <2>1. CASE p % 2 = 0 /\ p < 2 * L
    <3>1. i \in 1..L /\ p + 1 \in 1..(2 * L + 1) /\ (p + 1) % 2 = 1 /\ p + 1 < 2 * L /\ (p + 2) \div 2 = i /\ ~(p > 2 * L) /\ ~(p + 1 > 2 * L)
      BY <1>1, <2>1
    <3> HIDE DEF i
    <3>2. Pieces(r)[p + 1] = Text(r, i)
      BY <1>1, <1>2, <3>1
    <3>3. PieceAt(r, p) = LineAt(r, i)
      BY <2>1, <3>1 DEF PieceAt, i
    <3>4. PieceAt(r, p + 1) = LineTo(r, i)
      BY <1>1, <3>1 DEF PieceAt
    <3>5. i \in Lines(r) /\ LineAt(r, i) \in Nat
      BY <1>1, <3>1, LinesLemma DEF Lines
    <3> DEFINE P == Pieces(r)[p + 1]
    <3>6. /\ P \in Seq(Octets) /\ Len(P) = LineLen(r, i) /\ LineLen(r, i) \in 1..BlockSize
          /\ \A j \in 1..LineLen(r, i) : P[j] = Octet(r, LineAt(r, i) + j)
      BY <1>5, <3>1, <3>2
    <3> HIDE DEF P
    <3>7. Len(P) \in 1..(BlockSize + 1)
      BY <3>6, MessageAssumption
    <3>8. PieceAt(r, p + 1) = PieceAt(r, p) + Len(P)
      BY <3>3, <3>4, <3>6 DEF LineTo
    <3>9. \A j \in 1..Len(P) : P[j] = Octet(r, PieceAt(r, p) + j)
      BY <3>3, <3>6
    <3> QED BY <3>3, <3>5, <3>6, <3>7, <3>8, <3>9 DEF P
  <2>2. CASE p % 2 = 1
    <3>1. i \in 1..L /\ p + 1 \in 1..(2 * L + 1) /\ (p + 1) % 2 = 0 /\ (p + 1) % 2 # 1 /\ (p + 1) \div 2 = i /\ ~(p > 2 * L) /\ ~(p + 1 > 2 * L) /\ p % 2 # 0
      BY <1>1, <2>2
    <3> HIDE DEF i
    <3>2. Pieces(r)[p + 1] = EOL
      BY <1>1, <1>2, <3>1
    <3>3. PieceAt(r, p) = LineTo(r, i)
      BY <2>2, <3>1 DEF PieceAt
    <3>4. PieceAt(r, p + 1) = LineAt(r, i + 1)
      BY <1>1, <3>1 DEF PieceAt
    <3>5. i \in Lines(r) /\ LineTo(r, i) \in Nat /\ LineAt(r, i + 1) = LineTo(r, i) + 2
      BY <1>1, <3>1, LinesLemma DEF Lines
    <3> QED BY <1>6, <1>7, <3>2, <3>3, <3>4, <3>5
  <2>3. CASE p = 2 * L
    <3>1. i = L + 1 /\ p + 1 \in 1..(2 * L + 1) /\ ~(p > 2 * L) /\ p % 2 = 0 /\ p + 1 > 2 * L /\ ~(p + 1 < 2 * L)
      <4> HIDE DEF L
      <4>1. p % 2 = 0 /\ p \div 2 = L
        BY <1>1, <2>3
      <4>2. p + 1 \in 1..(2 * L + 1) /\ ~(p > 2 * L) /\ p + 1 > 2 * L /\ ~(p + 1 < 2 * L)
        BY <1>1, <2>3
      <4> QED BY <4>1, <4>2
    <3> HIDE DEF i
    <3>2. Pieces(r)[p + 1] = EOL
      BY <1>1, <1>2, <3>1
    <3>3. PieceAt(r, p) = LineAt(r, i)
      BY <3>1 DEF PieceAt, i
    <3>4. PieceAt(r, p + 1) = HeadLen(r)
      BY <3>1 DEF PieceAt
    <3>5. i \in Lines(r) /\ LineTo(r, i) \in Nat /\ HeadLen(r) = LineTo(r, i) + 2 /\ LineAt(r, i) \in Nat
      BY <1>1, <3>1, LinesLemma DEF Lines
    <3>6. LineTo(r, i) = LineAt(r, i)
      BY <1>1, <3>1, <3>5 DEF LineTo, LineLen
    <3> QED BY <1>6, <1>7, <3>2, <3>3, <3>4, <3>5, <3>6
  <2> QED BY <1>1, <2>1, <2>2, <2>3
<1> QED BY <1>2, <1>3, <1>4, <1>8

\* Blocks follow each other without gaps.
LEMMA BlockAtLemma ==
  /\ BlockAt(1) = 0
  /\ \A b \in Nat : BlockAt(b + 1) = BlockAt(b) + BlockSize /\ BlockAt(b) \in Int
  /\ \A b \in Nat \ {0} : BlockAt(b) \in Nat
  /\ \A b, c \in Nat : b < c => BlockAt(b) + BlockSize <= BlockAt(c)
<1> DEFINE B == BlockSize
<1>0. B \in Nat \ {0}
  BY MessageAssumption
<1> HIDE DEF B
<1>1. \A b \in Nat : (b - 1) * B \in Int
  BY <1>0
<1>2. \A b \in Nat : ((b + 1) - 1) * B = (b - 1) * B + B
  BY <1>0
<1>3. \A b \in Nat \ {0} : (b - 1) * B \in Nat
  BY <1>0
<1>4. ASSUME NEW b \in Nat, NEW c \in Nat, b < c
      PROVE  (b - 1) * B + B <= (c - 1) * B
  <2> DEFINE e == c - b - 1
  <2>1. e \in Nat /\ c - 1 = (b - 1) + 1 + e
    BY <1>4
  <2> HIDE DEF e
  <2>2. (c - 1) * B = (b - 1) * B + B + e * B
    BY <1>0, <2>1
  <2>3. e * B \in Nat /\ (b - 1) * B \in Int
    BY <1>0, <2>1
  <2>4. ASSUME NEW x \in Int, NEW y \in Nat
        PROVE  x + B <= x + B + y
    BY <1>0
  <2> QED BY <2>2, <2>3, <2>4
<1>5. (1 - 1) * B = 0
  BY <1>0
<1> QED BY <1>1, <1>2, <1>3, <1>4, <1>5 DEF BlockAt, B

Written(b, s) == [PutLast(b, b.offset, s) EXCEPT !.offset = @ + Len(s)]

\* PutLast() as a record.
LEMMA PutLastIs ==
  ASSUME NEW b \in Building, Len(b.blocks) > 0, NEW off \in 0..BlockSize, NEW s \in Seq(Octets)
  PROVE  /\ PutLast(b, off, s) = [blocks |-> [b.blocks EXCEPT ![Len(b.blocks)] = PutAt(@, off, s)],
                                  offset |-> b.offset, put |-> b.put, out |-> b.out]
         /\ PutLast(b, off, s) \in Building /\ Len(PutLast(b, off, s).blocks) = Len(b.blocks)
         /\ \A c \in 1..Len(b.blocks), i \in 1..BlockSize :
              PutLast(b, off, s).blocks[c][i] =
                IF c = Len(b.blocks) /\ i > off /\ i <= off + Len(s) THEN s[i - off] ELSE b.blocks[c][i]
<1> DEFINE L == Len(b.blocks)
           last == PutAt(b.blocks[L], off, s)
           bs == [b.blocks EXCEPT ![L] = last]
<1>1. b.blocks \in Seq(Block) /\ L \in Nat /\ L \in 1..L /\ b.blocks[L] \in Block /\ b.offset \in 0..BlockSize /\ b.put \in Nat /\ b.out \in Nat
  BY DEF Building
<1>2. PutLast(b, off, s) = [blocks |-> bs, offset |-> b.offset, put |-> b.put, out |-> b.out]
  BY DEF PutLast, Building
<1>3. \A i \in 1..BlockSize : i > off /\ i <= off + Len(s) => s[i - off] \in Octets
  BY MessageAssumption
<1>4. last \in Block
  BY <1>1, <1>3 DEF PutAt, Block
<1>5. \A i \in 1..BlockSize : last[i] = IF i > off /\ i <= off + Len(s) THEN s[i - off] ELSE b.blocks[L][i]
  BY DEF PutAt
<1> HIDE DEF last
<1>6. bs \in Seq(Block) /\ Len(bs) = L /\ \A c \in 1..L : bs[c] = IF c = L THEN last ELSE b.blocks[c]
  BY <1>1, <1>4
<1> HIDE DEF bs
<1>7. PutLast(b, off, s) \in Building
  BY <1>1, <1>2, <1>6 DEF Building
<1>8. \A c \in 1..L, i \in 1..BlockSize :
        bs[c][i] = IF c = L /\ i > off /\ i <= off + Len(s) THEN s[i - off] ELSE b.blocks[c][i]
  BY <1>5, <1>6
<1> QED BY <1>2, <1>6, <1>7, <1>8 DEF bs, last

\* A text that fits is written behind what is there.
LEMMA WrittenLemma ==
  ASSUME NEW b, NEW r, Holds(b, r), NEW s \in Seq(Octets), b.offset + Len(s) <= BlockSize,
         \A j \in 1..Len(s) : s[j] = Octet(r, BuiltTo(b) + j)
  PROVE  /\ Holds(Written(b, s), r) /\ BuiltTo(Written(b, s)) = BuiltTo(b) + Len(s)
         /\ Written(b, s).offset = b.offset + Len(s)
         /\ Written(b, s).put = b.put /\ Written(b, s).out = b.out
         /\ Len(Written(b, s).blocks) = Len(b.blocks)
         /\ Written(b, s) = [PutLast(b, b.offset, s) EXCEPT !.offset = b.offset + Len(s)]
<1> DEFINE L == Len(b.blocks)
           p == PutLast(b, b.offset, s)
           w == Written(b, s)
<1>1. b \in Building /\ L \in Nat \ {0} /\ b.offset \in 0..BlockSize /\ Len(s) \in Nat
  BY DEF Holds, Building
<1>2. /\ p = [blocks |-> p.blocks, offset |-> b.offset, put |-> b.put, out |-> b.out]
      /\ p \in Building /\ Len(p.blocks) = L
      /\ \A c \in 1..L, i \in 1..BlockSize :
           p.blocks[c][i] = IF c = L /\ i > b.offset /\ i <= b.offset + Len(s) THEN s[i - b.offset] ELSE b.blocks[c][i]
  BY <1>1, PutLastIs
<1> HIDE DEF p
<1>3. w = [blocks |-> p.blocks, offset |-> b.offset + Len(s), put |-> b.put, out |-> b.out]
  BY <1>2 DEF Written, p
<1>4. w = [p EXCEPT !.offset = b.offset + Len(s)]
  BY <1>2, <1>3
<1> HIDE DEF w
<1>5. w \in Building /\ w.offset = b.offset + Len(s) /\ w.put = b.put /\ w.out = b.out /\ w.blocks = p.blocks /\ Len(w.blocks) = L
  <2>1. b.offset + Len(s) \in 0..BlockSize
    BY <1>1, MessageAssumption
  <2>2. p.blocks \in Seq(Block) /\ b.put \in Nat /\ b.out \in Nat
    BY <1>1, <1>2 DEF Building
  <2> QED BY <1>2, <1>3, <2>1, <2>2 DEF Building
<1>6. BuiltTo(b) = BlockAt(L) + b.offset /\ BlockAt(L) \in Nat
  BY <1>1, BlockAtLemma DEF BuiltTo
<1>7. BuiltTo(w) = BuiltTo(b) + Len(s)
  BY <1>1, <1>5, <1>6 DEF BuiltTo
<1>8. ASSUME NEW c \in 1..L, NEW i \in 1..BlockSize, BlockAt(c) + i <= BuiltTo(w)
      PROVE  w.blocks[c][i] = Octet(r, BlockAt(c) + i)
  <2>1. w.blocks[c][i] = IF c = L /\ i > b.offset /\ i <= b.offset + Len(s) THEN s[i - b.offset] ELSE b.blocks[c][i]
    BY <1>2, <1>5
  <2>2. BlockAt(c) + i <= BuiltTo(b) => b.blocks[c][i] = Octet(r, BlockAt(c) + i)
    BY DEF Holds
  <2>3. CASE c < L
    <3>1. BlockAt(c) + BlockSize <= BlockAt(L) /\ BlockAt(c) \in Nat
      <4>1. c \in Nat \ {0} /\ c \in Nat /\ L \in Nat
        BY <1>1
      <4> HIDE DEF L
      <4> QED BY <2>3, <4>1, BlockAtLemma
    <3>2. BlockAt(c) + i <= BuiltTo(b)
      BY <1>1, <1>6, <3>1, MessageAssumption
    <3> QED BY <1>1, <2>1, <2>2, <2>3, <3>2
  <2>4. CASE c = L /\ i <= b.offset
    BY <1>1, <1>6, <2>1, <2>2, <2>4
  <2>5. CASE c = L /\ i > b.offset
    <3>1. i <= b.offset + Len(s) /\ i - b.offset \in 1..Len(s)
      BY <1>1, <1>6, <1>7, <1>8, <2>5
    <3>2. BlockAt(c) + i = BuiltTo(b) + (i - b.offset)
      BY <1>1, <1>6, <2>5
    <3> QED BY <2>1, <2>5, <3>1, <3>2
  <2> QED BY <1>1, <2>3, <2>4, <2>5
<1> QED BY <1>1, <1>4, <1>5, <1>7, <1>8 DEF Holds, w, p

\* Closing a full block changes nothing of what is held.
LEMMA CheckAppendLemma ==
  ASSUME NEW b, NEW r, Holds(b, r)
  PROVE  /\ Holds(CheckAppend(b), r) /\ BuiltTo(CheckAppend(b)) = BuiltTo(b)
         /\ CheckAppend(b).put = b.put /\ CheckAppend(b).out = b.out
         /\ CheckAppend(b).offset < BlockSize /\ Len(CheckAppend(b).blocks) >= Len(b.blocks)
<1> DEFINE L == Len(b.blocks)
           w == CheckAppend(b)
<1>1. b \in Building /\ L \in Nat \ {0} /\ b.offset \in 0..BlockSize
  BY DEF Holds, Building
<1>2. CASE b.offset # BlockSize
  BY <1>1, <1>2, MessageAssumption DEF CheckAppend
<1>3. CASE b.offset = BlockSize
  <2>1. w = [blocks |-> Append(b.blocks, FreshBlock), offset |-> 0, put |-> b.put, out |-> b.out]
    BY <1>1, <1>3 DEF CheckAppend, Building
  <2> HIDE DEF w
  <2>2. FreshBlock \in Block
    BY DEF FreshBlock, Block
  <2>3. w \in Building /\ Len(w.blocks) = L + 1 /\ \A c \in 1..L : w.blocks[c] = b.blocks[c]
    BY <1>1, <2>1, <2>2, MessageAssumption DEF Building
  <2>4. BlockAt(L + 1) = BlockAt(L) + BlockSize /\ BlockAt(L) \in Nat
    BY <1>1, BlockAtLemma
  <2>5. BuiltTo(w) = BuiltTo(b) /\ BuiltTo(b) = BlockAt(L + 1)
    BY <1>3, <2>1, <2>3, <2>4, MessageAssumption DEF BuiltTo
  <2>6. ASSUME NEW c \in 1..(L + 1), NEW i \in 1..BlockSize, BlockAt(c) + i <= BuiltTo(w)
        PROVE  w.blocks[c][i] = Octet(r, BlockAt(c) + i)
    <3>1. c # L + 1
      BY <2>4, <2>5, <2>6, MessageAssumption
    <3>2. c \in 1..L
      BY <1>1, <3>1
    <3> QED BY <2>3, <2>5, <2>6, <3>2 DEF Holds
  <2>7. Holds(w, r)
    BY <1>1, <2>3, <2>6 DEF Holds
  <2>8. w.put = b.put /\ w.out = b.out /\ w.offset < BlockSize /\ Len(w.blocks) >= L
    BY <1>1, <2>1, <2>3, MessageAssumption
  <2> QED BY <2>5, <2>7, <2>8 DEF w
<1> QED BY <1>2, <1>3

\* How much a builder holds is a number.
LEMMA BuiltToLemma ==
  ASSUME NEW b, NEW r, Holds(b, r)
  PROVE  BuiltTo(b) \in Nat
<1>1. Len(b.blocks) \in Nat \ {0} /\ b.offset \in Nat
  BY MessageAssumption DEF Holds, Building
<1>2. BlockAt(Len(b.blocks)) \in Nat
  BY <1>1, BlockAtLemma
<1> QED BY <1>1, <1>2 DEF BuiltTo

\* A builder with other blocks, as a record.
LEMMA OpenedIs ==
  ASSUME NEW f \in Building, NEW bs
  PROVE  [f EXCEPT !.blocks = bs] = [blocks |-> bs, offset |-> f.offset, put |-> f.put, out |-> f.out]
BY DEF Building

\* append() writes a text behind what is there, over the end of a block too.
LEMMA PutPieceLemma ==
  ASSUME NEW b0, NEW r, Holds(b0, r), NEW s \in Seq(Octets), Len(s) \in 1..(BlockSize + 1),
         \A j \in 1..Len(s) : s[j] = Octet(r, BuiltTo(b0) + j)
  PROVE  /\ Holds(PutPiece(b0, s), r) /\ BuiltTo(PutPiece(b0, s)) = BuiltTo(b0) + Len(s)
         /\ PutPiece(b0, s).put = b0.put /\ PutPiece(b0, s).out = b0.out
         /\ Len(PutPiece(b0, s).blocks) >= Len(b0.blocks)
<1> DEFINE b == CheckAppend(b0)
           room == BlockSize - b.offset
<1>1. /\ Holds(b, r) /\ BuiltTo(b) = BuiltTo(b0) /\ b.put = b0.put /\ b.out = b0.out
      /\ b.offset < BlockSize /\ Len(b.blocks) >= Len(b0.blocks)
  BY CheckAppendLemma
<1>2. Len(s) \in Nat /\ b \in Building /\ b.offset \in 0..BlockSize /\ BlockSize \in Nat /\ Len(b.blocks) \in Nat \ {0} /\ Len(b0.blocks) \in Nat
  <2>1. b \in Building /\ b0 \in Building
    BY <1>1 DEF Holds
  <2>2. Len(b.blocks) > 0
    BY <1>1 DEF Holds
  <2> HIDE DEF b
  <2> QED BY <2>1, <2>2, MessageAssumption DEF Building
<1>3. CASE Len(s) <= room
  <2>1. PutPiece(b0, s) = Written(b, s)
    BY <1>3 DEF PutPiece, Written
  <2> HIDE DEF b
  <2>2. b.offset + Len(s) <= BlockSize
    BY <1>2, <1>3
  <2>3. \A j \in 1..Len(s) : s[j] = Octet(r, BuiltTo(b) + j)
    BY <1>1
  <2>4. /\ Holds(Written(b, s), r) /\ BuiltTo(Written(b, s)) = BuiltTo(b) + Len(s)
        /\ Written(b, s).put = b.put /\ Written(b, s).out = b.out
        /\ Len(Written(b, s).blocks) = Len(b.blocks)
    BY <1>1, <2>2, <2>3, WrittenLemma
  <2> QED BY <1>1, <2>1, <2>4
<1>4. CASE ~(Len(s) <= room)
  <2> DEFINE s1 == SubSeq(s, 1, room)
             s2 == SubSeq(s, room + 1, Len(s))
             full == PutLast(b, b.offset, s1)
             g == [full EXCEPT !.blocks = Append(@, FreshBlock)]
             w1 == Written(b, s1)
             c == CheckAppend(w1)
             w2 == Written(c, s2)
             P == [PutLast(g, 0, s2) EXCEPT !.offset = Len(s) - room]
  <2>1. PutPiece(b0, s) = P
    BY <1>4 DEF PutPiece
  <2> HIDE DEF b
  <2>2. room \in Nat \ {0} /\ room < Len(s) /\ Len(s) - room <= BlockSize /\ b.offset + room = BlockSize /\ Len(s) - room \in Nat
    BY <1>1, <1>2, <1>4
  <2> HIDE DEF room
  <2>3. s1 \in Seq(Octets) /\ Len(s1) = room /\ \A j \in 1..room : s1[j] = s[j]
    BY <2>2, SubSeqProperties
  <2>4. s2 \in Seq(Octets) /\ Len(s2) = Len(s) - room /\ \A j \in 1..(Len(s) - room) : s2[j] = s[room + j]
    BY <2>2, SubSeqProperties
  <2> HIDE DEF s1, s2
  <2>5. /\ full = [blocks |-> full.blocks, offset |-> b.offset, put |-> b.put, out |-> b.out]
        /\ full \in Building /\ Len(full.blocks) = Len(b.blocks)
    <3>1. /\ full = [blocks |-> [b.blocks EXCEPT ![Len(b.blocks)] = PutAt(@, b.offset, s1)],
                    offset |-> b.offset, put |-> b.put, out |-> b.out]
          /\ full \in Building /\ Len(full.blocks) = Len(b.blocks)
      <4>1. b \in Building /\ Len(b.blocks) > 0 /\ b.offset \in 0..BlockSize /\ s1 \in Seq(Octets)
        BY <1>2, <2>3
      <4> HIDE DEF full
      <4>2. full = PutLast(b, b.offset, s1)
        BY DEF full
      <4> QED BY <4>1, <4>2, PutLastIs
    <3>2. full.blocks = [b.blocks EXCEPT ![Len(b.blocks)] = PutAt(@, b.offset, s1)]
      BY <3>1
    <3> QED BY <3>1, <3>2
  <2>6. /\ Holds(w1, r) /\ BuiltTo(w1) = BuiltTo(b) + room
        /\ w1.offset = BlockSize /\ w1.put = b.put /\ w1.out = b.out
        /\ Len(w1.blocks) = Len(b.blocks)
        /\ w1 = [full EXCEPT !.offset = BlockSize]
    <3>1. \A j \in 1..Len(s1) : s1[j] = Octet(r, BuiltTo(b) + j)
      BY <1>1, <1>2, <2>2, <2>3
    <3>2. b.offset + Len(s1) = BlockSize
      BY <2>2, <2>3
    <3> QED BY <1>1, <1>2, <2>3, <3>1, <3>2, WrittenLemma
  <2> HIDE DEF full
  <2>7. w1.blocks = full.blocks
    BY <2>5, <2>6
  <2> HIDE DEF w1
  <2>8. /\ Holds(c, r) /\ BuiltTo(c) = BuiltTo(w1) /\ c.put = w1.put /\ c.out = w1.out
        /\ Len(c.blocks) >= Len(w1.blocks)
    BY <2>6, CheckAppendLemma
  <2>9. c = [blocks |-> Append(full.blocks, FreshBlock), offset |-> 0, put |-> b.put, out |-> b.out]
    BY <2>5, <2>6 DEF CheckAppend
  <2> HIDE DEF c
  <2>10. /\ Holds(w2, r) /\ BuiltTo(w2) = BuiltTo(c) + Len(s2)
         /\ w2.put = c.put /\ w2.out = c.out /\ Len(w2.blocks) = Len(c.blocks)
         /\ w2 = [PutLast(c, c.offset, s2) EXCEPT !.offset = c.offset + Len(s2)]
    <3>1. \A j \in 1..Len(s2) : s2[j] = Octet(r, BuiltTo(c) + j)
      <4> SUFFICES ASSUME NEW j \in 1..Len(s2)
                   PROVE  s2[j] = Octet(r, BuiltTo(c) + j)
        OBVIOUS
      <4>1. BuiltTo(b0) \in Int
        BY BuiltToLemma
      <4>2. room + j \in 1..Len(s) /\ s2[j] = s[room + j]
        BY <1>2, <2>2, <2>4
      <4>3. BuiltTo(c) + j = BuiltTo(b0) + (room + j)
        BY <1>1, <2>2, <2>4, <2>6, <2>8, <4>1
      <4> QED BY <4>2, <4>3
    <3>2. c.offset + Len(s2) <= BlockSize
      BY <2>2, <2>4, <2>9
    <3> QED BY <2>4, <2>8, <3>1, <3>2, WrittenLemma
  <2>11. P = w2
    <3>1. c \in Building /\ Len(c.blocks) > 0
      BY <2>8 DEF Holds
    <3> DEFINE X == [c.blocks EXCEPT ![Len(c.blocks)] = PutAt(@, 0, s2)]
               fb == full.blocks
    <3>2. PutLast(c, 0, s2) = [blocks |-> X, offset |-> c.offset, put |-> c.put, out |-> c.out]
      BY <2>4, <3>1, PutLastIs, MessageAssumption
    <3>3. g = [blocks |-> Append(fb, FreshBlock), offset |-> b.offset, put |-> b.put, out |-> b.out]
      <4>1. full = [blocks |-> fb, offset |-> b.offset, put |-> b.put, out |-> b.out]
        BY <2>5
      <4> HIDE DEF fb
      <4>2. full \in Building /\ full.blocks = fb /\ full.offset = b.offset /\ full.put = b.put /\ full.out = b.out
        BY <2>5 DEF fb
      <4>3. g = [blocks |-> Append(full.blocks, FreshBlock), offset |-> full.offset, put |-> full.put, out |-> full.out]
        BY <4>2, OpenedIs, Zenon
      <4> QED BY <4>2, <4>3
    <3> HIDE DEF g
    <3>4. g \in Building /\ g.blocks = c.blocks /\ g.offset = b.offset /\ g.put = b.put /\ g.out = b.out
      BY <1>2, <2>9, <3>1, <3>3 DEF Building
    <3>5. PutLast(g, 0, s2) = [blocks |-> X, offset |-> b.offset, put |-> b.put, out |-> b.out]
      <4>1. PutLast(g, 0, s2) = [blocks |-> [g.blocks EXCEPT ![Len(g.blocks)] = PutAt(@, 0, s2)], offset |-> g.offset, put |-> g.put, out |-> g.out]
        <5>1. g \in Building /\ Len(g.blocks) > 0 /\ 0 \in 0..BlockSize /\ s2 \in Seq(Octets)
          BY <2>4, <3>1, <3>4, MessageAssumption
        <5> QED BY <5>1, PutLastIs
      <4> QED BY <3>4, <4>1
    <3> HIDE DEF X
    <3>6. P = [blocks |-> X, offset |-> Len(s) - room, put |-> b.put, out |-> b.out]
      BY <3>5
    <3>7. c.offset = 0 /\ c.put = b.put /\ c.out = b.out /\ c.offset + Len(s2) = Len(s) - room
      BY <2>2, <2>4, <2>9
    <3>8. w2 = [blocks |-> X, offset |-> Len(s) - room, put |-> b.put, out |-> b.out]
      BY <2>10, <3>2, <3>7
    <3> QED BY <3>6, <3>8
  <2> HIDE DEF P, w2
  <2>12. BuiltTo(w2) = BuiltTo(b0) + Len(s)
    <3>1. BuiltTo(b0) \in Int
      BY BuiltToLemma
    <3> QED BY <1>1, <1>2, <2>2, <2>4, <2>6, <2>8, <2>10, <3>1
  <2>13. Len(w2.blocks) >= Len(b0.blocks)
    <3>1. Len(c.blocks) \in Nat
      BY <2>8 DEF Holds, Building
    <3> QED BY <1>1, <1>2, <2>6, <2>8, <2>10, <3>1
  <2> QED BY <1>1, <2>1, <2>6, <2>8, <2>10, <2>11, <2>12, <2>13
<1> QED BY <1>3, <1>4

-----------------------------------------------------------------------------
(* The client keeps the wire in step with the script. *)

\* A sequence holds the octets of the script's heads, one behind the other.
Carries(w) ==
  /\ w \in Seq(Octets)
  /\ \A k \in 1..Len(script) : \A n \in 1..HeadLen(script[k]) :
       StartOf(k) - 1 + n <= Len(w) => w[StartOf(k) - 1 + n] = Octet(script[k], n)
\* A chunk has the next octets of the head of request k.
Continues(k, base, len, chunk) ==
  /\ k \in 1..Len(script) /\ base \in Nat /\ len \in Nat
  /\ Len(wire) = StartOf(k) - 1 + base /\ base + len <= HeadLen(script[k])
  /\ DOMAIN chunk = 1..len /\ chunk \in Seq(Octets \cup {"0"})
  /\ \A i \in 1..len : chunk[i] = Octet(script[k], base + i)

\* With such a chunk behind it the wire still carries the script.
LEMMA WireGrows ==
  ASSUME ClientInv, NEW k, NEW base, NEW len, NEW chunk, Continues(k, base, len, chunk)
  PROVE  Carries(wire \o chunk) /\ Len(wire \o chunk) = Len(wire) + len
<1>0. /\ k \in 1..Len(script) /\ base \in Nat /\ len \in Nat
      /\ Len(wire) = StartOf(k) - 1 + base /\ base + len <= HeadLen(script[k])
      /\ DOMAIN chunk = 1..len /\ chunk \in Seq(Octets \cup {"0"})
      /\ \A i \in 1..len : chunk[i] = Octet(script[k], base + i)
  BY DEF Continues
<1> USE <1>0
<1>1. \A r, n : Octet(r, n) \in Octets
  BY DEF Octet, Octets
<1>2. Len(chunk) = len /\ chunk \in [1..len -> Octets]
  <2>1. \A i \in 1..len : chunk[i] \in Octets
    BY <1>1
  <2>2. Len(chunk) \in Nat /\ DOMAIN chunk = 1..Len(chunk) /\ chunk = [i \in 1..Len(chunk) |-> chunk[i]]
    BY LenProperties
  <2>3. Len(chunk) = len
    BY <2>2
  <2> QED BY <2>1, <2>2, <2>3
<1>3. chunk \in Seq(Octets)
  BY <1>2, IsASeq
<1>4. wire \in Seq(Octets) /\ Len(wire) \in Nat
  BY DEF ClientInv, WireOK
<1>5. wire \o chunk \in Seq(Octets) /\ Len(wire \o chunk) = Len(wire) + len
  BY <1>2, <1>3, <1>4, ConcatProperties
<1>6. \A p \in 1..(Len(wire) + len) : (wire \o chunk)[p] = IF p <= Len(wire) THEN wire[p] ELSE chunk[p - Len(wire)]
  BY <1>2, <1>3, <1>4, ConcatProperties
<1>7. ASSUME NEW j \in 1..Len(script), NEW n \in 1..HeadLen(script[j]), StartOf(j) - 1 + n <= Len(wire) + len
      PROVE  (wire \o chunk)[StartOf(j) - 1 + n] = Octet(script[j], n)
  <2> DEFINE p == StartOf(j) - 1 + n
             L == Len(script)
  <2>1. script \in Scripts
    BY DEF ClientInv
  <2>2. L \in Nat
    BY <2>1, StartLemma
  <2>3. j \in 1..(L + 1) /\ k \in 1..(L + 1) /\ L + 1 \in Nat
    BY <2>2
  <2>4. StartOf(j) \in Nat /\ StartOf(k) \in Nat /\ HeadLen(script[k]) \in Nat /\ HeadLen(script[j]) \in Nat
    BY <2>1, <2>3, StartLemma
  <2>5. j < k => StartOf(j) + HeadLen(script[j]) <= StartOf(k)
    BY <2>1, <2>3, StartLemma
  <2>6. k < j => StartOf(k) + HeadLen(script[k]) <= StartOf(j)
    BY <2>1, <2>3, StartLemma
  <2>7. StartOf(j) > 0
    BY <2>1, <2>3, StartPositive
  <2> DEFINE sj == StartOf(j)
             sk == StartOf(k)
             hj == HeadLen(script[j])
             hk == HeadLen(script[k])
             lw == Len(wire)
  <2>8. /\ sj \in Nat /\ sj > 0 /\ sk \in Nat /\ hj \in Nat /\ hk \in Nat /\ lw \in Nat /\ n \in 1..hj /\ p = sj - 1 + n
        /\ lw = sk - 1 + base /\ base + len <= hk /\ p <= lw + len
        /\ (j < k => sj + hj <= sk) /\ (k < j => sk + hk <= sj) /\ j \in Nat /\ k \in Nat
    BY <1>4, <1>7, <2>3, <2>4, <2>5, <2>6, <2>7
  <2> HIDE DEF p, sj, sk, hj, hk, lw
  <2>9. p \in 1..(lw + len)
    BY <2>8
  <2>10. p > lw => j = k /\ p - lw \in 1..len /\ base + (p - lw) = n
    <3> SUFFICES ASSUME p > lw
                 PROVE  j = k /\ p - lw \in 1..len /\ base + (p - lw) = n
      OBVIOUS
    <3>1. ~(j < k)
      BY <2>8
    <3>2. ~(k < j)
      BY <2>8
    <3>3. j = k
      BY <2>8, <3>1, <3>2
    <3>4. sj = sk
      BY <3>3 DEF sj, sk
    <3> QED BY <2>8, <2>9, <3>3, <3>4
  <2>11. (wire \o chunk)[p] = IF p <= lw THEN wire[p] ELSE chunk[p - lw]
    BY <1>6, <2>9 DEF lw
  <2>12. p <= lw => wire[p] = Octet(script[j], n)
    BY DEF ClientInv, WireOK, p, lw
  <2>13. CASE p <= lw
    BY <2>11, <2>12, <2>13 DEF p
  <2>14. CASE p > lw
    <3>1. j = k /\ p - lw \in 1..len /\ base + (p - lw) = n
      BY <2>10, <2>14
    <3>2. chunk[p - lw] = Octet(script[k], n)
      BY <3>1
    <3>3. (wire \o chunk)[p] = chunk[p - lw]
      BY <2>8, <2>9, <2>11, <2>14
    <3> QED BY <3>1, <3>2, <3>3 DEF p
  <2>15. p <= lw \/ p > lw
    BY <2>8, <2>9
  <2> QED BY <2>13, <2>14, <2>15
<1> QED BY <1>5, <1>7 DEF Carries

\* A step that keeps the script keeps where its heads lie.
LEMMA ScriptStays ==
  ASSUME script' = script
  PROVE  \A k : StartOf(k)' = StartOf(k)
BY DEF StartOf

\* A builder without blocks in use.
LEMMA EmptyHolds ==
  ASSUME NEW r, Whole(r)
  PROVE  /\ Holds(EmptyBuild, r) /\ BuiltTo(EmptyBuild) = PieceAt(r, 0)
         /\ EmptyBuild.put = 0 /\ EmptyBuild.out = 0 /\ Len(EmptyBuild.blocks) = 1 /\ 0 <= Len(Pieces(r))
<1> DEFINE e == EmptyBuild
<1>1. e = [blocks |-> <<FreshBlock>>, offset |-> 0, put |-> 0, out |-> 0]
  BY DEF EmptyBuild
<1> HIDE DEF e
<1>2. FreshBlock \in Block
  BY DEF FreshBlock, Block
<1>3. e \in Building /\ Len(e.blocks) = 1 /\ e.put = 0 /\ e.out = 0 /\ e.offset = 0
  BY <1>1, <1>2, MessageAssumption DEF Building
<1>4. BuiltTo(e) = 0
  BY <1>3, BlockAtLemma DEF BuiltTo
<1>5. \A c \in 1..Len(e.blocks), i \in 1..BlockSize : ~(BlockAt(c) + i <= BuiltTo(e))
  BY <1>3, <1>4, BlockAtLemma
<1>6. PieceAt(r, 0) = 0 /\ 0 <= Len(Pieces(r))
  BY PiecesLemma, LinesLemma
<1> QED BY <1>3, <1>4, <1>5, <1>6 DEF Holds, e

\* A piece is appended.
LEMMA ClientAppendKeeps ==
  ASSUME ClientInv, ClientAppend
  PROVE  ClientInv'
<1> DEFINE r == script[sent + 1]
           s == Pieces(r)[build.put + 1]
           P == PutPiece(build, s)
<1>1. script \in Scripts /\ sent \in 0..Len(script) /\ sent < Len(script) /\ script' = script /\ sent' = sent /\ wire' = wire
  BY DEF ClientInv, ClientAppend
<1>2. Len(script) \in Nat /\ sent + 1 \in 1..Len(script) /\ Whole(r)
  <2>1. Len(script) \in Nat
    BY <1>1, StartLemma
  <2>2. sent + 1 \in 1..Len(script)
    BY <1>1, <2>1
  <2> QED BY <1>1, <2>1, <2>2, StartLemma
<1>3. BuildOK(r)
  BY <1>1 DEF ClientInv
<1>4. build.put < Len(Pieces(r)) /\ build' = [P EXCEPT !.put = @ + 1]
  BY DEF ClientAppend, ClientPieces
<1> HIDE DEF r
<1>5. /\ Holds(build, r) /\ BuiltTo(build) = PieceAt(r, build.put)
      /\ build.out < Len(build.blocks) /\ build.out = 0 /\ build.put \in 0..(2 * Len(r.lines))
      /\ Len(Pieces(r)) = 2 * Len(r.lines) + 1 /\ Len(r.lines) \in Nat
  <2>1. build \in Building
    BY <1>3 DEF BuildOK, Holds
  <2>2. build.put \in Nat /\ build.out \in Nat
    BY <2>1 DEF Building
  <2>3. Len(Pieces(r)) = 2 * Len(r.lines) + 1 /\ Len(r.lines) \in Nat
    BY <1>2, PiecesLemma, LinesLemma
  <2>4. build.out = 0
    BY <1>3, <1>4, <2>2, <2>3 DEF BuildOK
  <2>5. build.put \in 0..(2 * Len(r.lines))
    BY <1>4, <2>2, <2>3
  <2> QED BY <1>3, <2>3, <2>4, <2>5 DEF BuildOK
<1>6. /\ s \in Seq(Octets) /\ Len(s) \in 1..(BlockSize + 1)
      /\ PieceAt(r, build.put + 1) = PieceAt(r, build.put) + Len(s)
      /\ \A j \in 1..Len(s) : s[j] = Octet(r, PieceAt(r, build.put) + j)
  BY <1>2, <1>5, PiecesLemma
<1> HIDE DEF s
<1>7. /\ Holds(P, r) /\ BuiltTo(P) = BuiltTo(build) + Len(s)
      /\ P.put = build.put /\ P.out = build.out /\ Len(P.blocks) >= Len(build.blocks)
  BY <1>5, <1>6, PutPieceLemma
<1> HIDE DEF P
<1>8. P \in Building
  BY <1>7 DEF Holds
<1>9. build' = [blocks |-> P.blocks, offset |-> P.offset, put |-> P.put + 1, out |-> P.out]
  BY <1>4, <1>8 DEF Building
<1>10. build' \in Building /\ build'.blocks = P.blocks /\ build'.offset = P.offset /\ build'.put = build.put + 1 /\ build'.out = build.out
  BY <1>7, <1>8, <1>9 DEF Building
<1>11. BuiltTo(build') = BuiltTo(P)
  BY <1>10 DEF BuiltTo
<1>12. Holds(build', r)
  BY <1>7, <1>10, <1>11 DEF Holds
<1>13. BuildOK(r)'
  <2>1. BuiltTo(build') = PieceAt(r, build'.put)
    BY <1>5, <1>6, <1>7, <1>10, <1>11
  <2>2. build'.put <= Len(Pieces(r))
    BY <1>5, <1>10
  <2>3. build'.out = 0 /\ build'.out < Len(build'.blocks)
    <3>1. Len(build.blocks) \in Nat /\ Len(P.blocks) \in Nat
      BY <1>5, <1>8 DEF Holds, Building
    <3> QED BY <1>5, <1>7, <1>10, <3>1
  <2>4. r' = r
    BY <1>1 DEF r
  <2> QED BY <1>12, <2>1, <2>2, <2>3, <2>4 DEF BuildOK
<1>14. WireOK'
  BY <1>1, <1>10, ScriptStays DEF ClientInv, WireOK
<1> QED BY <1>1, <1>13, <1>14 DEF ClientInv, r

\* A block is written out.
LEMMA ClientWriteKeeps ==
  ASSUME ClientInv, ClientWrite
  PROVE  ClientInv' /\ Len(wire') >= Len(wire) /\ \A p \in 1..Len(wire) : wire'[p] = wire[p]
<1> DEFINE r == script[sent + 1]
           n == build.out + 1
           last == n = Len(build.blocks)
           len == IF last THEN build.offset ELSE BlockSize
           chunk == IF last THEN SubSeq(build.blocks[n], 1, build.offset) ELSE build.blocks[n]
<1>1. script \in Scripts /\ sent \in 0..Len(script) /\ sent < Len(script) /\ script' = script
  BY DEF ClientInv, ClientWrite
<1>2. Len(script) \in Nat /\ sent + 1 \in 1..Len(script) /\ Whole(r)
  <2>1. Len(script) \in Nat
    BY <1>1, StartLemma
  <2>2. sent + 1 \in 1..Len(script)
    BY <1>1, <2>1
  <2> QED BY <1>1, <2>1, <2>2, StartLemma
<1>3. BuildOK(r)
  BY <1>1 DEF ClientInv
<1>4. /\ build.put = Len(Pieces(r)) /\ wire' = wire \o chunk
      /\ sent' = IF last THEN sent + 1 ELSE sent
      /\ build' = IF last THEN EmptyBuild ELSE [build EXCEPT !.out = n]
  BY DEF ClientWrite, ClientPieces
<1>5. /\ build \in Building /\ build.out \in Nat /\ build.offset \in 0..BlockSize /\ build.blocks \in Seq(Block)
      /\ Len(build.blocks) \in Nat /\ n \in 1..Len(build.blocks) /\ build.blocks[n] \in Block
  <2>1. build \in Building /\ build.out < Len(build.blocks)
    BY <1>3 DEF BuildOK, Holds
  <2>2. build.out \in Nat /\ build.offset \in 0..BlockSize /\ build.blocks \in Seq(Block) /\ Len(build.blocks) \in Nat
    BY <2>1 DEF Building
  <2>3. n \in 1..Len(build.blocks)
    BY <2>1, <2>2
  <2> QED BY <2>1, <2>2, <2>3
<1>6. BuiltTo(build) = HeadLen(r)
  BY <1>2, <1>3, <1>4, PiecesLemma DEF BuildOK
<1>7. BlockAt(n) + len <= HeadLen(r) /\ BlockAt(n) \in Nat /\ (last => BlockAt(n) + len = HeadLen(r)) /\ len \in 0..BlockSize
  <2>1. BlockAt(n) \in Nat /\ BlockAt(Len(build.blocks)) \in Nat
    <3>1. n \in Nat \ {0} /\ Len(build.blocks) \in Nat \ {0}
      BY <1>5
    <3> HIDE DEF n
    <3>2. BlockAt(n) \in Nat
      BY <3>1, BlockAtLemma
    <3>3. BlockAt(Len(build.blocks)) \in Nat
      BY <3>1, BlockAtLemma
    <3> QED BY <3>2, <3>3
  <2>2. CASE last
    BY <1>5, <1>6, <2>1, <2>2 DEF BuiltTo
  <2>3. CASE ~last
    <3>1. n \in Nat /\ n < Len(build.blocks)
      BY <1>5, <2>3
    <3>2. BlockAt(n) + BlockSize <= BlockAt(Len(build.blocks))
      BY <1>5, <3>1, BlockAtLemma
    <3> QED BY <1>5, <1>6, <2>1, <2>3, <3>2, MessageAssumption DEF BuiltTo
  <2> QED BY <2>2, <2>3
<1>8. DOMAIN chunk = 1..len /\ chunk \in Seq(Octets \cup {"0"}) /\ \A i \in 1..len : chunk[i] = build.blocks[n][i]
  <2>1. build.blocks[n] \in [1..BlockSize -> Octets \cup {"0"}] /\ BlockSize \in Nat
    BY <1>5, MessageAssumption DEF Block
  <2>2. build.blocks[n] \in Seq(Octets \cup {"0"}) /\ Len(build.blocks[n]) = BlockSize /\ DOMAIN build.blocks[n] = 1..BlockSize
    BY <2>1, IsASeq, LenProperties
  <2>3. CASE last
    <3> DEFINE b == build.blocks[n]
               o == build.offset
    <3>1. b \in Seq(Octets \cup {"0"}) /\ o \in 0..Len(b) /\ Len(b) \in Nat
      BY <1>5, <2>1, <2>2
    <3>2. chunk = SubSeq(b, 1, o) /\ len = o
      BY <2>3
    <3> HIDE DEF b, o, chunk, len
    <3>3. SubSeq(b, 1, o) \in Seq(Octets \cup {"0"}) /\ DOMAIN SubSeq(b, 1, o) = 1..o /\ \A i \in 1..o : SubSeq(b, 1, o)[i] = b[i]
      BY <3>1, SubSeqProperties
    <3> QED BY <3>2, <3>3 DEF b
  <2>4. CASE ~last
    BY <2>2, <2>4
  <2> QED BY <2>3, <2>4
<1>9. \A i \in 1..len : chunk[i] = Octet(r, BlockAt(n) + i)
  <2> SUFFICES ASSUME NEW i \in 1..len
               PROVE  build.blocks[n][i] = Octet(r, BlockAt(n) + i)
    BY <1>8
  <2>1. i \in 1..BlockSize /\ BlockAt(n) + i <= BuiltTo(build)
    <3> HIDE DEF len, n
    <3>1. HeadLen(r) \in Nat
      BY <1>1, <1>2, StartLemma
    <3> QED BY <1>6, <1>7, <3>1, MessageAssumption
  <2> QED BY <1>3, <1>5, <2>1 DEF BuildOK, Holds
<1>10. Len(wire) = StartOf(sent + 1) - 1 + BlockAt(n) /\ wire \in Seq(Octets)
  BY DEF ClientInv, WireOK
<1>11. len \in Nat
  BY <1>7, MessageAssumption
<1> HIDE DEF chunk, len
<1>12. /\ wire' \in Seq(Octets) /\ Len(wire') = Len(wire) + len
       /\ \A j \in 1..Len(script) : \A m \in 1..HeadLen(script[j]) :
            StartOf(j) - 1 + m <= Len(wire') => wire'[StartOf(j) - 1 + m] = Octet(script[j], m)
  <2> DEFINE k == sent + 1
             base == BlockAt(n)
  <2>1. Continues(k, base, len, chunk)
    BY <1>2, <1>7, <1>8, <1>9, <1>10, <1>11 DEF Continues
  <2> HIDE DEF k, base
  <2>2. Carries(wire \o chunk) /\ Len(wire \o chunk) = Len(wire) + len
    BY <2>1, WireGrows
  <2> QED BY <1>4, <2>2 DEF Carries
<1>13. Len(wire') >= Len(wire) /\ \A p \in 1..Len(wire) : wire'[p] = wire[p]
  <2>1. chunk \in Seq(Octets \cup {"0"}) /\ wire \in Seq(Octets \cup {"0"})
    BY <1>8, <1>10
  <2>2. \A p \in 1..Len(wire) : (wire \o chunk)[p] = wire[p]
    BY <2>1, ConcatProperties
  <2> QED BY <1>4, <1>10, <1>11, <1>12, <2>2
<1>14. Len(wire') = StartOf(sent' + 1) - 1 + BlockAt(build'.out + 1)
  <2>1. StartOf(sent + 1) \in Nat /\ HeadLen(r) \in Nat /\ StartOf((sent + 1) + 1) = StartOf(sent + 1) + HeadLen(r)
    <3>1. sent + 1 \in 1..(Len(script) + 1)
      BY <1>2
    <3> QED BY <1>1, <1>2, <3>1, StartLemma
  <2>2. CASE last
    <3>1. build'.out = 0 /\ sent' = sent + 1 /\ BlockAt(0 + 1) = 0
      BY <1>2, <1>4, <2>2, EmptyHolds, BlockAtLemma
    <3>2. BlockAt(n) + len = HeadLen(r)
      BY <1>7, <2>2
    <3>3. Len(wire') = StartOf(sent + 1) - 1 + HeadLen(r)
      <4> HIDE DEF n
      <4> QED BY <1>7, <1>10, <1>11, <1>12, <2>1, <3>2
    <3> QED BY <2>1, <3>1, <3>3
  <2>3. CASE ~last
    <3>1. build'.out = n /\ sent' = sent /\ len = BlockSize
      BY <1>4, <1>5, <2>3 DEF len, Building
    <3>2. BlockAt(n + 1) = BlockAt(n) + BlockSize
      <4>1. n \in Nat
        BY <1>5
      <4> HIDE DEF n
      <4> QED BY <4>1, BlockAtLemma
    <3> QED
      <4> HIDE DEF n
      <4> QED BY <1>7, <1>10, <1>11, <1>12, <2>1, <3>1, <3>2
  <2> QED BY <2>2, <2>3
<1>15. WireOK'
  BY <1>1, <1>12, <1>14, ScriptStays DEF WireOK
<1>16. CASE last
  <2>1. sent' = sent + 1 /\ build' = EmptyBuild /\ sent' \in 0..Len(script')
    BY <1>1, <1>2, <1>4, <1>16
  <2>2. sent' < Len(script') => BuildOK(script[sent + 1])'
    <3> SUFFICES ASSUME sent' < Len(script)
                 PROVE  BuildOK(script[sent + 1])'
      BY <1>1
    <3> DEFINE q == script[sent' + 1]
    <3>1. Whole(q)
      <4>1. sent' + 1 \in 1..Len(script)
        BY <1>2, <2>1
      <4> QED BY <1>1, <4>1, StartLemma
    <3>2. script'[sent' + 1] = q
      BY <1>1
    <3> HIDE DEF q
    <3>3. /\ Holds(EmptyBuild, q) /\ BuiltTo(EmptyBuild) = PieceAt(q, 0)
          /\ EmptyBuild.put = 0 /\ EmptyBuild.out = 0 /\ Len(EmptyBuild.blocks) = 1 /\ 0 <= Len(Pieces(q))
      BY <3>1, EmptyHolds
    <3>4. /\ Holds(build', q) /\ BuiltTo(build') = PieceAt(q, 0)
          /\ build'.put = 0 /\ build'.out = 0 /\ Len(build'.blocks) = 1
      BY <2>1, <3>3, Zenon
    <3> QED BY <3>2, <3>3, <3>4 DEF BuildOK
  <2> QED BY <1>1, <1>13, <1>15, <2>1, <2>2 DEF ClientInv
<1>17. CASE ~last
  <2>1. sent' = sent /\ build' = [build EXCEPT !.out = n]
    BY <1>4, <1>17
  <2>2. build' \in Building /\ build'.blocks = build.blocks /\ build'.offset = build.offset /\ build'.put = build.put /\ build'.out = n
    BY <1>5, <2>1 DEF Building
  <2>3. BuiltTo(build') = BuiltTo(build)
    BY <2>2 DEF BuiltTo
  <2>4. Holds(build', r)
    BY <1>3, <2>2, <2>3 DEF Holds, BuildOK
  <2>5. n < Len(build.blocks)
    BY <1>5, <1>17
  <2>6. BuildOK(r)'
    <3>1. r' = r
      BY <1>1, <2>1
    <3> HIDE DEF r
    <3> QED BY <1>3, <1>4, <2>2, <2>3, <2>4, <2>5, <3>1 DEF BuildOK
  <2> QED BY <1>1, <1>13, <1>15, <2>1, <2>6 DEF ClientInv
<1> QED BY <1>16, <1>17

-----------------------------------------------------------------------------
(* What the parsers find in a window that begins with line m of a request.   *)

Reads(w, r, m) ==
  /\ Whole(r) /\ m \in Lines(r) /\ Len(w) \in Nat
  /\ \A n \in 1..Len(w) : LineAt(r, m) + n <= HeadLen(r) => w[n] = Octet(r, LineAt(r, m) + n)
\* Where line i begins in the window, and where its CRLF is.
BeginAt(r, m, i) == LineAt(r, i) - LineAt(r, m) + 1
EndAt(r, m, i) == LineTo(r, i) - LineAt(r, m) + 1
\* Line i is one of those the window can hold.
After(r, m, i) == i \in Lines(r) /\ m <= i

\* The lines of a window follow each other.
LEMMA WindowLines ==
  ASSUME NEW w, NEW r, NEW m, Reads(w, r, m)
  PROVE  /\ HeadLen(r) \in Nat /\ LineAt(r, m) \in Nat /\ m \in Nat /\ Len(r.lines) \in Nat /\ Len(r.lines) > 0 /\ BeginAt(r, m, m) = 1
         /\ \A i : After(r, m, i) =>
              /\ i \in Nat /\ BeginAt(r, m, i) \in Nat \ {0} /\ EndAt(r, m, i) \in Nat \ {0}
              /\ EndAt(r, m, i) = BeginAt(r, m, i) + LineLen(r, i) /\ LineLen(r, i) \in Nat
              /\ EndAt(r, m, i) + 1 <= HeadLen(r) - LineAt(r, m)
         /\ \A i, j : After(r, m, i) /\ After(r, m, j) /\ i < j => EndAt(r, m, i) + 2 <= BeginAt(r, m, j)
         /\ \A i : After(r, m, i) /\ i # m => /\ After(r, m, i - 1) /\ BeginAt(r, m, i) = EndAt(r, m, i - 1) + 2
<1> DEFINE L == Len(r.lines)
<1>1. Whole(r) /\ m \in Lines(r)
  BY DEF Reads
<1>2. /\ L \in Nat \ {0}
      /\ \A i \in Lines(r) : LineAt(r, i) \in Nat /\ LineLen(r, i) \in Nat /\ LineTo(r, i) \in Nat
      /\ \A i \in 1..L : LineAt(r, i + 1) = LineTo(r, i) + 2
      /\ HeadLen(r) = LineTo(r, L + 1) + 2
      /\ \A i, j \in Lines(r) : i < j => LineTo(r, i) + 2 <= LineAt(r, j)
      /\ \A i \in Lines(r) : LineTo(r, i) + 2 <= HeadLen(r)
  BY <1>1, LinesLemma
<1>3. Lines(r) = 1..(L + 1)
  BY DEF Lines
<1>4. \A i : LineTo(r, i) = LineAt(r, i) + LineLen(r, i)
  BY DEF LineTo
<1> HIDE DEF L
<1>5. m \in Nat /\ LineAt(r, m) \in Nat /\ HeadLen(r) \in Nat
  <2>1. L + 1 \in Lines(r)
    BY <1>2, <1>3
  <2>2. LineTo(r, L + 1) \in Nat
    BY <1>2, <2>1
  <2> QED BY <1>1, <1>2, <1>3, <2>2
<1>6. ASSUME NEW i, After(r, m, i)
      PROVE  /\ i \in Nat /\ BeginAt(r, m, i) \in Nat \ {0} /\ EndAt(r, m, i) \in Nat \ {0}
             /\ EndAt(r, m, i) = BeginAt(r, m, i) + LineLen(r, i) /\ LineLen(r, i) \in Nat
             /\ EndAt(r, m, i) + 1 <= HeadLen(r) - LineAt(r, m)
  <2>1. i \in Lines(r) /\ i \in Nat /\ m <= i
    BY <1>2, <1>3, <1>6 DEF After
  <2>2. LineAt(r, i) \in Nat /\ LineLen(r, i) \in Nat /\ LineTo(r, i) \in Nat /\ LineTo(r, i) = LineAt(r, i) + LineLen(r, i)
    BY <1>2, <1>4, <2>1
  <2>3. LineAt(r, m) <= LineAt(r, i)
    <3>1. CASE i = m
      BY <1>5, <3>1
    <3>2. CASE m < i
      <4>1. LineTo(r, m) + 2 <= LineAt(r, i) /\ LineTo(r, m) = LineAt(r, m) + LineLen(r, m) /\ LineLen(r, m) \in Nat
        BY <1>1, <1>2, <1>4, <2>1, <3>2
      <4> QED BY <1>5, <2>2, <4>1
    <3> QED BY <1>5, <2>1, <3>1, <3>2
  <2>4. LineTo(r, i) + 2 <= HeadLen(r)
    BY <1>2, <2>1
  <2> QED BY <1>5, <2>1, <2>2, <2>3, <2>4 DEF BeginAt, EndAt
<1>7. ASSUME NEW i, NEW j, After(r, m, i), After(r, m, j), i < j
      PROVE  EndAt(r, m, i) + 2 <= BeginAt(r, m, j)
  <2>1. i \in Lines(r) /\ j \in Lines(r)
    BY <1>7 DEF After
  <2>2. LineTo(r, i) + 2 <= LineAt(r, j) /\ LineTo(r, i) \in Nat /\ LineAt(r, j) \in Nat
    BY <1>2, <1>7, <2>1
  <2> QED BY <1>5, <2>2 DEF BeginAt, EndAt
<1>8. ASSUME NEW i, After(r, m, i), i # m
      PROVE  After(r, m, i - 1) /\ BeginAt(r, m, i) = EndAt(r, m, i - 1) + 2
  <2>1. i \in Lines(r) /\ m <= i
    BY <1>8 DEF After
  <2>2. i - 1 \in 1..L /\ i - 1 \in Lines(r) /\ m <= i - 1 /\ (i - 1) + 1 = i
    <3>1. i \in 1..(L + 1) /\ m \in 1..(L + 1) /\ L \in Nat /\ m <= i /\ i # m
      BY <1>1, <1>2, <1>3, <1>8, <2>1
    <3>2. i - 1 \in 1..L /\ i - 1 \in 1..(L + 1) /\ m <= i - 1 /\ (i - 1) + 1 = i
      BY <3>1
    <3> QED BY <1>3, <3>2
  <2>3. LineAt(r, (i - 1) + 1) = LineTo(r, i - 1) + 2
    BY <1>2, <2>2
  <2>4. LineTo(r, i - 1) \in Nat /\ LineAt(r, i) \in Nat
    BY <1>2, <2>1, <2>2
  <2>5. LineAt(r, i) = LineTo(r, i - 1) + 2
    BY <2>2, <2>3
  <2> QED BY <1>5, <2>2, <2>4, <2>5 DEF After, BeginAt, EndAt
<1>9. BeginAt(r, m, m) = 1
  BY <1>5 DEF BeginAt
<1> QED BY <1>2, <1>5, <1>6, <1>7, <1>8, <1>9 DEF L

\* The octets of a line in the window.
LEMMA WindowOctets ==
  ASSUME NEW w, NEW r, NEW m, Reads(w, r, m), NEW i, After(r, m, i), EndAt(r, m, i) + 1 <= Len(w)
  PROVE  /\ w[EndAt(r, m, i)] = "r" /\ w[EndAt(r, m, i) + 1] = "n"
         /\ \A n \in Nat : BeginAt(r, m, i) <= n /\ n < EndAt(r, m, i) => w[n] = IF r.bad = i THEN "!" ELSE "x"
<1> DEFINE a == LineAt(r, m)
           e == EndAt(r, m, i)
           b == BeginAt(r, m, i)
<1>1. /\ Whole(r) /\ i \in Lines(r) /\ Len(w) \in Nat
      /\ \A n \in 1..Len(w) : a + n <= HeadLen(r) => w[n] = Octet(r, a + n)
  BY DEF Reads, After
<1>2. /\ HeadLen(r) \in Nat /\ a \in Nat /\ b \in Nat \ {0} /\ e \in Nat \ {0} /\ e = b + LineLen(r, i) /\ LineLen(r, i) \in Nat
      /\ e + 1 <= HeadLen(r) - a /\ e + 1 <= Len(w)
  BY WindowLines
<1>3. /\ Octet(r, LineTo(r, i) + 1) = "r" /\ Octet(r, LineTo(r, i) + 2) = "n"
      /\ \A n \in Int : LineAt(r, i) < n /\ n <= LineTo(r, i) => Octet(r, n) = IF r.bad = i THEN "!" ELSE "x"
  BY <1>1, OctetLemma
<1>4. LineAt(r, i) \in Nat /\ LineTo(r, i) \in Nat
  BY <1>1, LinesLemma
<1>5. e = LineTo(r, i) - a + 1 /\ b = LineAt(r, i) - a + 1
  BY DEF EndAt, BeginAt
<1> DEFINE lt == LineTo(r, i)
           la == LineAt(r, i)
           h == HeadLen(r)
           k == Len(w)
<1>a. /\ h \in Nat /\ a \in Nat /\ b \in Nat \ {0} /\ e \in Nat \ {0} /\ la \in Nat /\ lt \in Nat /\ k \in Nat
      /\ e + 1 <= h - a /\ e + 1 <= k /\ e = lt - a + 1 /\ b = la - a + 1
  BY <1>1, <1>2, <1>4, <1>5
<1> HIDE DEF a, e, b, lt, la, h, k
<1>6. e \in 1..k /\ a + e <= h /\ a + e = lt + 1
  BY <1>a
<1>7. e + 1 \in 1..k /\ a + (e + 1) <= h /\ a + (e + 1) = lt + 2
  BY <1>a
<1>8. ASSUME NEW n \in Nat, b <= n, n < e
      PROVE  w[n] = IF r.bad = i THEN "!" ELSE "x"
  <2>1. n \in 1..k /\ a + n <= h /\ a + n \in Int /\ la < a + n /\ a + n <= lt
    BY <1>a, <1>8
  <2> QED BY <1>1, <1>3, <2>1 DEF k, h, la, lt
<1>9. w[e] = "r"
  BY <1>1, <1>3, <1>6 DEF k, h, lt
<1>10. w[e + 1] = "n"
  BY <1>1, <1>3, <1>7 DEF k, h, lt
<1> QED BY <1>8, <1>9, <1>10 DEF e, b

\* The line ends of the window: one behind each of the lines it holds whole,
\* and none between them.
LEMMA WindowEnds ==
  ASSUME NEW w, NEW r, NEW m, Reads(w, r, m)
  PROVE  /\ \A e \in LineEnds(w) : e \in Nat \ {0} /\ e + 1 <= Len(w)
         /\ \A i : After(r, m, i) /\ EndAt(r, m, i) + 1 <= Len(w) => EndAt(r, m, i) \in LineEnds(w)
         /\ \A e \in LineEnds(w) : e <= EndAt(r, m, Len(r.lines) + 1) => \E i : After(r, m, i) /\ e = EndAt(r, m, i)
         /\ LineEnds(w) = {} <=> Len(w) < EndAt(r, m, m) + 1
         /\ EndAt(r, m, m) + 1 <= Len(w) => Lowest(LineEnds(w)) = EndAt(r, m, m)
<1> DEFINE L == Len(r.lines)
           a == LineAt(r, m)
<1>1. /\ Whole(r) /\ m \in Lines(r) /\ Len(w) \in Nat
      /\ \A n \in 1..Len(w) : a + n <= HeadLen(r) => w[n] = Octet(r, a + n)
  BY DEF Reads
<1>2. /\ HeadLen(r) \in Nat /\ a \in Nat /\ L \in Nat /\ m \in Nat /\ m \in 1..(L + 1)
  BY <1>1, WindowLines DEF Lines
<1>3. \A e \in LineEnds(w) : e \in Nat \ {0} /\ e + 1 <= Len(w) /\ w[e] = "r"
  BY <1>1 DEF LineEnds
<1>4. \A i : After(r, m, i) /\ EndAt(r, m, i) + 1 <= Len(w) => EndAt(r, m, i) \in LineEnds(w)
  <2> SUFFICES ASSUME NEW i, After(r, m, i), EndAt(r, m, i) + 1 <= Len(w)
               PROVE  EndAt(r, m, i) \in LineEnds(w)
    OBVIOUS
  <2>1. w[EndAt(r, m, i)] = "r" /\ w[EndAt(r, m, i) + 1] = "n"
    BY WindowOctets
  <2>2. EndAt(r, m, i) \in Nat \ {0}
    BY WindowLines
  <2> HIDE DEF a, L
  <2>3. EndAt(r, m, i) \in 1..(Len(w) - 1)
    BY <1>1, <2>2
  <2> QED BY <2>1, <2>3 DEF LineEnds
<1>5. After(r, m, m) /\ After(r, m, L + 1)
  BY <1>1, <1>2 DEF After, Lines
<1>6. ASSUME NEW e \in LineEnds(w), e <= EndAt(r, m, L + 1)
      PROVE  \E i : After(r, m, i) /\ e = EndAt(r, m, i)
  <2> DEFINE h == HeadLen(r)
             t == EndAt(r, m, L + 1)
             k == Len(w)
  <2>1. /\ e \in Nat \ {0} /\ e + 1 <= k /\ k \in Nat /\ t \in Nat /\ t + 1 <= h - a /\ h \in Nat /\ a \in Nat /\ e <= t
    BY <1>1, <1>2, <1>3, <1>5, <1>6, WindowLines
  <2> HIDE DEF h, t, k, a, L
  <2>2. e \in 1..k /\ a + e <= h
    BY <2>1
  <2>3. Octet(r, a + e) = "r"
    BY <1>1, <1>3, <2>2 DEF k, h
  <2>4. PICK i \in Lines(r) : a + e = LineTo(r, i) + 1
    BY <2>3 DEF Octet
  <2>5. /\ LineTo(r, i) \in Nat /\ i \in 1..(L + 1) /\ (i < m => LineTo(r, i) + 2 <= a)
    BY <1>1, <2>4, LinesLemma DEF Lines, a, L
  <2>6. m <= i
    <3> DEFINE lt == LineTo(r, i)
    <3>1. lt \in Nat /\ a + e = lt + 1 /\ (i < m => lt + 2 <= a)
      BY <2>4, <2>5
    <3> HIDE DEF lt
    <3>2. ~(i < m)
      BY <2>1, <3>1
    <3> QED BY <1>2, <2>5, <3>2
  <2>7. e = EndAt(r, m, i)
    <3> DEFINE lt == LineTo(r, i)
    <3>1. lt \in Nat /\ a + e = lt + 1 /\ EndAt(r, m, i) = lt - a + 1
      BY <2>4, <2>5 DEF EndAt, a
    <3> HIDE DEF lt
    <3> QED BY <2>1, <3>1
  <2> QED BY <2>4, <2>6, <2>7 DEF After
<1> DEFINE first == EndAt(r, m, m)
<1>7. first \in Nat \ {0} /\ \A i : After(r, m, i) => first <= EndAt(r, m, i) /\ EndAt(r, m, i) \in Nat
  <2>1. first \in Nat \ {0}
    BY <1>5, WindowLines
  <2> SUFFICES ASSUME NEW i, After(r, m, i)
               PROVE  first <= EndAt(r, m, i) /\ EndAt(r, m, i) \in Nat
    BY <2>1
  <2>2. /\ EndAt(r, m, i) \in Nat /\ BeginAt(r, m, i) \in Nat /\ EndAt(r, m, i) = BeginAt(r, m, i) + LineLen(r, i) /\ LineLen(r, i) \in Nat
        /\ i \in Nat /\ (m < i => first + 2 <= BeginAt(r, m, i))
    BY <1>5, WindowLines
  <2>3. m <= i
    BY DEF After
  <2>4. CASE i = m
    BY <2>1, <2>4
  <2>5. CASE m < i
    <3> DEFINE x == EndAt(r, m, i)
               y == BeginAt(r, m, i)
               z == LineLen(r, i)
    <3>1. first \in Nat /\ x \in Nat /\ y \in Nat /\ z \in Nat /\ x = y + z /\ first + 2 <= y
      BY <2>1, <2>2, <2>5
    <3> HIDE DEF x, y, z, first
    <3>2. first <= x
      BY <3>1
    <3> QED BY <3>1, <3>2 DEF x
  <2> QED BY <1>2, <2>2, <2>3, <2>4, <2>5
<1>8. \A e \in LineEnds(w) : first <= e
  <2> SUFFICES ASSUME NEW e \in LineEnds(w), ~(first <= e)
               PROVE  FALSE
    OBVIOUS
  <2>1. first <= EndAt(r, m, L + 1) /\ EndAt(r, m, L + 1) \in Nat
    BY <1>5, <1>7
  <2> HIDE DEF first, L
  <2>2. e <= EndAt(r, m, L + 1)
    BY <1>3, <1>7, <2>1
  <2>3. PICK i : After(r, m, i) /\ e = EndAt(r, m, i)
    BY <1>6, <2>2
  <2> QED BY <1>7, <2>3
<1>9. first + 1 <= Len(w) => first \in LineEnds(w)
  BY <1>4, <1>5
<1> HIDE DEF first, L
<1>10. LineEnds(w) = {} <=> Len(w) < first + 1
  <2>1. ASSUME NEW e \in LineEnds(w) PROVE first + 1 <= Len(w)
    BY <1>1, <1>3, <1>7, <1>8, <2>1
  <2> QED BY <1>1, <1>7, <1>9, <2>1
<1>11. first + 1 <= Len(w) => Lowest(LineEnds(w)) = first
  <2> SUFFICES ASSUME first + 1 <= Len(w)
               PROVE  Lowest(LineEnds(w)) = first
    OBVIOUS
  <2>1. LineEnds(w) \in SUBSET Nat /\ first \in LineEnds(w)
    BY <1>3, <1>9
  <2>2. Lowest(LineEnds(w)) \in LineEnds(w) /\ Lowest(LineEnds(w)) <= first
    BY <2>1, LowestLemma
  <2>3. first <= Lowest(LineEnds(w)) /\ Lowest(LineEnds(w)) \in Nat
    BY <1>8, <2>1, <2>2
  <2> QED BY <1>7, <2>2, <2>3
<1> QED BY <1>3, <1>4, <1>6, <1>10, <1>11 DEF first, L

\* A later line ends later.
LEMMA EndsRise ==
  ASSUME NEW w, NEW r, NEW m, Reads(w, r, m), NEW i, NEW j, After(r, m, i), After(r, m, j)
  PROVE  /\ EndAt(r, m, i) \in Nat \ {0} /\ EndAt(r, m, j) \in Nat \ {0}
         /\ i < j => EndAt(r, m, i) + 2 <= EndAt(r, m, j)
         /\ EndAt(r, m, i) < EndAt(r, m, j) => i < j
<1> DEFINE x == EndAt(r, m, i)
           y == EndAt(r, m, j)
           bx == BeginAt(r, m, i)
           by == BeginAt(r, m, j)
<1>1. /\ i \in Nat /\ j \in Nat /\ x \in Nat \ {0} /\ y \in Nat \ {0} /\ bx \in Nat /\ by \in Nat
      /\ x = bx + LineLen(r, i) /\ LineLen(r, i) \in Nat /\ y = by + LineLen(r, j) /\ LineLen(r, j) \in Nat
      /\ (i < j => x + 2 <= by) /\ (j < i => y + 2 <= bx) /\ (i = j => x = y)
  <2>1. i \in Nat /\ x \in Nat \ {0} /\ bx \in Nat /\ x = bx + LineLen(r, i) /\ LineLen(r, i) \in Nat
    BY WindowLines
  <2>2. j \in Nat /\ y \in Nat \ {0} /\ by \in Nat /\ y = by + LineLen(r, j) /\ LineLen(r, j) \in Nat
    BY WindowLines
  <2>3. i < j => x + 2 <= by
    BY WindowLines
  <2>4. j < i => y + 2 <= bx
    BY WindowLines
  <2> QED BY <2>1, <2>2, <2>3, <2>4
<1> DEFINE li == LineLen(r, i)
           lj == LineLen(r, j)
<1>2. x = bx + li /\ li \in Nat /\ y = by + lj /\ lj \in Nat
  BY <1>1
<1> HIDE DEF x, y, bx, by, li, lj
<1>3. i < j => x + 2 <= y
  BY <1>1, <1>2
<1>4. j < i => y + 2 <= x
  BY <1>1, <1>2
<1>5. x < y => i < j
  BY <1>1, <1>4
<1> QED BY <1>1, <1>3, <1>5 DEF x, y

\* LineStart() finds the start of a line the window holds whole; only the
\* line behind the headers is empty, and the malformed line is found out.
LEMMA LineStartIs ==
  ASSUME NEW w, NEW r, NEW m, Reads(w, r, m), NEW i, After(r, m, i), EndAt(r, m, i) + 1 <= Len(w)
  PROVE  /\ LineStart(w, EndAt(r, m, i)) = BeginAt(r, m, i)
         /\ IsEmpty(w, EndAt(r, m, i)) <=> i = Len(r.lines) + 1
         /\ IsBad(w, EndAt(r, m, i)) <=> r.bad = i
<1> DEFINE e == EndAt(r, m, i)
           b == BeginAt(r, m, i)
           L == Len(r.lines)
           S == {-1} \cup {f \in LineEnds(w) : f < e}
<1>1. /\ e \in Nat \ {0} /\ b \in Nat \ {0} /\ e = b + LineLen(r, i) /\ LineLen(r, i) \in Nat /\ L \in Nat /\ L > 0 /\ i \in Nat
      /\ BeginAt(r, m, m) = 1
  BY WindowLines
<1>2. Whole(r) /\ m \in Lines(r) /\ Len(w) \in Nat /\ i \in Lines(r) /\ m <= i
  BY DEF Reads, After
<1>3. \A f \in LineEnds(w) : f \in Nat
  BY WindowEnds
<1>4. After(r, m, L + 1) /\ i <= L + 1
  BY <1>1, <1>2 DEF After, Lines
<1>5. e <= EndAt(r, m, L + 1)
  <2>1. i < L + 1 => e + 2 <= EndAt(r, m, L + 1)
    BY <1>4, EndsRise
  <2>2. EndAt(r, m, L + 1) \in Nat
    BY <1>4, EndsRise
  <2>3. i = L + 1 => e = EndAt(r, m, L + 1)
    OBVIOUS
  <2> DEFINE t == EndAt(r, m, L + 1)
  <2>a. e \in Nat /\ t \in Nat /\ i \in Nat /\ L \in Nat /\ i <= L + 1 /\ (i < L + 1 => e + 2 <= t) /\ (i = L + 1 => e = t)
    BY <1>1, <1>4, <2>1, <2>2, <2>3
  <2> HIDE DEF e, t, L
  <2>4. e <= t
    BY <2>a
  <2> QED BY <2>4 DEF t
<1>6. ASSUME NEW f \in LineEnds(w), f < e
      PROVE  \E j : After(r, m, j) /\ f = EndAt(r, m, j) /\ j < i
  <2>1. f <= EndAt(r, m, L + 1)
    <3>1. EndAt(r, m, L + 1) \in Nat
      BY <1>4, EndsRise
    <3> HIDE DEF e, L
    <3> QED BY <1>1, <1>3, <1>5, <1>6, <3>1
  <2>2. PICK j : After(r, m, j) /\ f = EndAt(r, m, j)
    BY <2>1, WindowEnds
  <2>3. j < i
    BY <1>6, <2>2, EndsRise
  <2> QED BY <2>2, <2>3
<1>7. S \in SUBSET Int /\ -1 \in S /\ \A n \in S : n <= e
  <2>1. e \in Int /\ -1 <= e
    BY <1>1
  <2> HIDE DEF e
  <2> QED BY <1>3, <2>1
<1>8. Highest(S) \in S /\ \A n \in S : n <= Highest(S)
  <2>1. e \in Int /\ S # {}
    BY <1>1, <1>7
  <2> HIDE DEF e, S
  <2> QED BY <1>7, <2>1, HighestLemma
<1>9. LineStart(w, e) = 2 + Highest(S)
  BY DEF LineStart
<1>10. LineStart(w, e) = b
  <2>1. CASE i = m
    <3>1. S = {-1}
      <4>1. ASSUME NEW f \in LineEnds(w), f < e PROVE FALSE
        <5>1. PICK j : After(r, m, j) /\ j < i
          BY <1>6, <4>1
        <5>2. j \in Nat /\ m <= j
          BY <5>1, WindowLines DEF After
        <5> QED BY <1>1, <2>1, <5>1, <5>2
      <4> HIDE DEF e
      <4> QED BY <4>1
    <3>2. b = 1
      BY <1>1, <2>1
    <3> HIDE DEF S
    <3> QED BY <1>8, <1>9, <3>1, <3>2
  <2>2. CASE i # m
    <3>1. After(r, m, i - 1) /\ b = EndAt(r, m, i - 1) + 2
      BY <2>2, WindowLines
    <3> DEFINE p == EndAt(r, m, i - 1)
    <3>2. p \in Nat \ {0} /\ p + 2 <= e
      <4>1. i - 1 < i
        BY <1>1
      <4> QED BY <3>1, <4>1, EndsRise
    <3>3. p \in LineEnds(w) /\ p < e
      <4>1. p + 1 <= Len(w) /\ p < e
        <5> DEFINE k == Len(w)
        <5>1. p \in Nat /\ e \in Nat /\ k \in Nat /\ p + 2 <= e /\ e + 1 <= k
          BY <1>1, <1>2, <3>2
        <5> HIDE DEF p, e, k
        <5>2. p + 1 <= k /\ p < e
          BY <5>1
        <5> QED BY <5>2 DEF k
      <4>2. p \in LineEnds(w)
        BY <3>1, <4>1, WindowEnds
      <4> QED BY <4>1, <4>2
    <3>4. p \in S
      BY <3>3
    <3>5. ASSUME NEW n \in S PROVE n <= p
      <4>1. CASE n = -1
        BY <3>2, <4>1
      <4>2. CASE n \in LineEnds(w) /\ n < e
        <5>1. PICK j : After(r, m, j) /\ n = EndAt(r, m, j) /\ j < i
          BY <1>6, <4>2
        <5>2. j \in Nat /\ (j < i - 1 => n + 2 <= p) /\ (j = i - 1 => n = p) /\ n \in Nat
          <6>1. j \in Nat
            BY <5>1, WindowLines
          <6>2. (j < i - 1 => n + 2 <= p) /\ n \in Nat
            BY <3>1, <5>1, EndsRise
          <6> QED BY <5>1, <6>1, <6>2
        <5>3. n \in Nat /\ p \in Nat /\ i \in Nat /\ j \in Nat /\ j < i /\ (j < i - 1 => n + 2 <= p) /\ (j = i - 1 => n = p)
          BY <1>1, <3>2, <5>1, <5>2
        <5> HIDE DEF p
        <5> QED BY <5>3
      <4> QED BY <3>5, <4>1, <4>2
    <3>6. Highest(S) = p
      <4> HIDE DEF S, p
      <4>1. p <= Highest(S) /\ Highest(S) <= p /\ Highest(S) \in Int
        BY <1>7, <1>8, <3>4, <3>5
      <4> QED BY <3>2, <4>1
    <3> HIDE DEF p, S
    <3>7. b = p + 2
      BY <3>1 DEF p
    <3> QED BY <1>9, <3>2, <3>6, <3>7
  <2> QED BY <2>1, <2>2
<1>11. IsEmpty(w, e) <=> i = L + 1
  <2>1. LineLen(r, i) = 0 <=> i = L + 1
    <3>1. i <= L => r.lines[i] \in 1..BlockSize
      <4>1. i <= L => i \in 1..L
        BY <1>1, <1>2 DEF Lines
      <4> QED BY <1>2, <4>1, LinesLemma
    <3> QED BY <1>1, <1>4, <3>1 DEF LineLen
  <2> DEFINE ll == LineLen(r, i)
  <2>2. ll \in Nat /\ e = b + ll /\ (ll = 0 <=> i = L + 1)
    BY <1>1, <2>1
  <2> HIDE DEF e, b, ll, L
  <2>3. b = e <=> ll = 0
    BY <1>1, <2>2
  <2> QED BY <1>10, <2>2, <2>3 DEF IsEmpty
<1>12. /\ w[e] = "r"
       /\ \A n \in Nat : b <= n /\ n < e => w[n] = IF r.bad = i THEN "!" ELSE "x"
  BY WindowOctets
<1>13. IsBad(w, e) <=> r.bad = i
  <2>1. IsBad(w, e) <=> \E n \in b..e : w[n] = "!"
    BY <1>10 DEF IsBad
  <2>2. ASSUME NEW n \in b..e, w[n] = "!" PROVE r.bad = i
    <3>1. n \in Nat /\ b <= n /\ n <= e /\ n # e
      <4> HIDE DEF e, b
      <4> QED BY <1>1, <1>12, <2>2
    <3>2. n < e
      <4> HIDE DEF e, b
      <4> QED BY <1>1, <3>1
    <3>3. w[n] = IF r.bad = i THEN "!" ELSE "x"
      BY <1>12, <3>1, <3>2
    <3> QED BY <2>2, <3>3
  <2>3. ASSUME r.bad = i PROVE \E n \in b..e : w[n] = "!"
    <3>1. i \in 1..L
      <4>1. r.bad \in 0..L /\ i \in 1..(L + 1)
        BY <1>2, LinesLemma DEF Lines
      <4> QED BY <1>1, <2>3, <4>1
    <3>2. LineLen(r, i) >= 1
      <4>1. r.lines[i] \in 1..BlockSize
        BY <1>2, <3>1, LinesLemma
      <4>2. i <= L
        BY <3>1
      <4>3. LineLen(r, i) = r.lines[i]
        BY <4>2 DEF LineLen
      <4> QED BY <4>1, <4>3, MessageAssumption
    <3>3. b \in b..e /\ b \in Nat /\ b <= b /\ b < e
      <4> DEFINE ll == LineLen(r, i)
      <4>1. ll \in Nat /\ e = b + ll /\ ll >= 1
        BY <1>1, <3>2
      <4> HIDE DEF e, b, ll
      <4> QED BY <1>1, <4>1
    <3>4. w[b] = "!"
      BY <1>12, <2>3, <3>3
    <3> QED BY <3>3, <3>4
  <2> QED BY <2>1, <2>2, <2>3
<1> QED BY <1>10, <1>11, <1>13

\* RequestLine::parse() waits for the end of the request line, and refuses
\* the line only if it is malformed.
LEMMA LineFound ==
  ASSUME NEW w, NEW r, Reads(w, r, 1)
  PROVE  /\ r.lines[1] \in Nat
         /\ Len(w) < r.lines[1] + 2 => LineResult(w) = "again" /\ LineEnds(w) = {}
         /\ r.lines[1] + 2 <= Len(w) => /\ Lowest(LineEnds(w)) = r.lines[1] + 1
                                        /\ LineResult(w) = IF r.bad = 1 THEN "illegal" ELSE "ok"
<1> DEFINE e == EndAt(r, 1, 1)
           n1 == r.lines[1]
<1>1. Whole(r) /\ Len(w) \in Nat /\ After(r, 1, 1) /\ BeginAt(r, 1, 1) = 1
  BY WindowLines DEF Reads, After
<1>2. n1 \in Nat \ {0} /\ LineLen(r, 1) = n1
  <2>1. Len(r.lines) \in Nat \ {0} /\ \A i \in 1..Len(r.lines) : r.lines[i] \in 1..BlockSize
    BY <1>1, LinesLemma
  <2>2. 1 \in 1..Len(r.lines) /\ 1 <= Len(r.lines)
    BY <2>1
  <2>3. n1 \in 1..BlockSize
    BY <2>1, <2>2
  <2> QED BY <2>2, <2>3, MessageAssumption DEF LineLen
<1>3. e = n1 + 1
  <2>1. e = BeginAt(r, 1, 1) + LineLen(r, 1)
    BY <1>1, WindowLines
  <2> QED BY <1>1, <1>2, <2>1
<1>4. /\ LineEnds(w) = {} <=> Len(w) < e + 1
      /\ e + 1 <= Len(w) => Lowest(LineEnds(w)) = e
  BY WindowEnds
<1>5. e + 1 = n1 + 2
  BY <1>2, <1>3
<1>6. Len(w) < n1 + 2 => LineResult(w) = "again" /\ LineEnds(w) = {}
  BY <1>4, <1>5 DEF LineResult
<1>7. ASSUME n1 + 2 <= Len(w)
      PROVE  Lowest(LineEnds(w)) = n1 + 1 /\ LineResult(w) = IF r.bad = 1 THEN "illegal" ELSE "ok"
  <2>1. e + 1 <= Len(w) /\ Lowest(LineEnds(w)) = n1 + 1 /\ LineEnds(w) # {}
    <3>1. e + 1 <= Len(w)
      BY <1>5, <1>7
    <3>2. Lowest(LineEnds(w)) = e
      BY <1>4, <3>1
    <3>3. e \in LineEnds(w)
      BY <1>1, <3>1, WindowEnds
    <3> QED BY <1>3, <3>1, <3>2, <3>3
  <2>2. /\ w[e] = "r"
        /\ \A n \in Nat : 1 <= n /\ n < e => w[n] = IF r.bad = 1 THEN "!" ELSE "x"
    BY <1>1, <2>1, WindowOctets
  <2>3. n1 + 1 # 1
    BY <1>2
  <2>4. "!" \in {w[i] : i \in 1..(n1 + 1)} <=> r.bad = 1
    <3>1. ASSUME NEW n \in 1..(n1 + 1), w[n] = "!" PROVE r.bad = 1
      <4>1. n # n1 + 1
        BY <1>3, <2>2, <3>1
      <4>2. n \in Nat /\ 1 <= n /\ n < n1 + 1
        <5> HIDE DEF n1
        <5> QED BY <1>2, <4>1
      <4>3. w[n] = IF r.bad = 1 THEN "!" ELSE "x"
        BY <1>3, <2>2, <4>2
      <4> QED BY <3>1, <4>3
    <3>2. ASSUME r.bad = 1 PROVE \E n \in 1..(n1 + 1) : w[n] = "!"
      <4>1. 1 \in 1..(n1 + 1) /\ 1 < n1 + 1
        <5> HIDE DEF n1
        <5> QED BY <1>2
      <4>2. w[1] = "!"
        BY <1>3, <2>2, <3>2, <4>1
      <4> QED BY <4>1, <4>2
    <3> QED BY <3>1, <3>2
  <2> QED BY <2>1, <2>3, <2>4 DEF LineResult
<1> QED BY <1>2, <1>6, <1>7

\* The lines i to j of a window, as the ends MessageRestView::parse() finds.
EndsOf(r, m, j) == {EndAt(r, m, i) : i \in m..j}

\* MessageRestView::parse() stops behind the last line the window holds whole...
RestMore(w, r, m, j) ==
  /\ j \in (m - 1)..Len(r.lines) /\ Stops(w) = {} /\ HeaderEnds(w) = EndsOf(r, m, j)
  /\ RestConsumed(w) = LineAt(r, j + 1) - LineAt(r, m) /\ Len(w) < EndAt(r, m, j + 1) + 1
  /\ \A i \in m..j : r.bad # i /\ EndAt(r, m, i) + 1 <= Len(w)
\* ... or behind the empty line, with every header found ...
RestDone(w, r, m) ==
  /\ Stops(w) # {} /\ IsEmpty(w, Lowest(Stops(w))) /\ HeaderEnds(w) = EndsOf(r, m, Len(r.lines))
  /\ RestConsumed(w) = HeadLen(r) - LineAt(r, m) /\ HeadLen(r) - LineAt(r, m) <= Len(w)
  /\ \A i \in m..Len(r.lines) : r.bad # i /\ EndAt(r, m, i) + 1 <= Len(w)
\* ... or at a malformed line.
RestBad(w, r) == Stops(w) # {} /\ ~IsEmpty(w, Lowest(Stops(w))) /\ r.bad # 0

\* There is no other way for parse() to end.
LEMMA RestLemma ==
  ASSUME NEW w, NEW r, NEW m, Reads(w, r, m)
  PROVE  RestBad(w, r) \/ RestDone(w, r, m) \/ \E j : RestMore(w, r, m, j)
<1> DEFINE L == Len(r.lines)
           E(i) == EndAt(r, m, i)
           k == Len(w)
<1>1. /\ Whole(r) /\ m \in 1..(L + 1) /\ k \in Nat /\ L \in Nat /\ L > 0 /\ LineAt(r, m) \in Nat /\ HeadLen(r) \in Nat /\ m \in Nat
      /\ BeginAt(r, m, m) = 1
  BY WindowLines DEF Reads, Lines
<1>2. \A i : After(r, m, i) <=> i \in m..(L + 1)
  BY <1>1 DEF After, Lines
<1>3. /\ \A i \in m..(L + 1) : E(i) \in Nat \ {0}
      /\ \A i, j \in m..(L + 1) : (i < j => E(i) + 2 <= E(j)) /\ (E(i) < E(j) => i < j)
  <2>1. \A i \in m..(L + 1) : E(i) \in Nat \ {0}
    BY <1>2, WindowLines
  <2>2. \A i, j \in m..(L + 1) : (i < j => E(i) + 2 <= E(j)) /\ (E(i) < E(j) => i < j)
    BY <1>2, EndsRise
  <2> QED BY <2>1, <2>2
<1>4. /\ \A e \in LineEnds(w) : e \in Nat \ {0} /\ e + 1 <= k
      /\ \A i \in m..(L + 1) : E(i) + 1 <= k => E(i) \in LineEnds(w)
      /\ \A e \in LineEnds(w) : e <= E(L + 1) => \E i \in m..(L + 1) : e = E(i)
  <2>1. \A e \in LineEnds(w) : e \in Nat \ {0} /\ e + 1 <= k
    BY WindowEnds
  <2>2. \A i \in m..(L + 1) : E(i) + 1 <= k => E(i) \in LineEnds(w)
    BY <1>2, WindowEnds
  <2>3. \A e \in LineEnds(w) : e <= E(L + 1) => \E i \in m..(L + 1) : e = E(i)
    BY <1>2, WindowEnds
  <2> QED BY <2>1, <2>2, <2>3
<1>5. \A i \in m..(L + 1) : E(i) + 1 <= k => /\ IsEmpty(w, E(i)) <=> i = L + 1
                                             /\ E(i) \in Stops(w) <=> (i = L + 1 \/ r.bad = i)
  <2> SUFFICES ASSUME NEW i \in m..(L + 1), E(i) + 1 <= k
               PROVE  /\ IsEmpty(w, E(i)) <=> i = L + 1
                      /\ E(i) \in Stops(w) <=> (i = L + 1 \/ r.bad = i)
    OBVIOUS
  <2>1. (IsEmpty(w, E(i)) <=> i = L + 1) /\ (IsBad(w, E(i)) <=> r.bad = i)
    BY <1>2, LineStartIs
  <2>2. E(i) \in LineEnds(w)
    BY <1>4
  <2> QED BY <2>1, <2>2 DEF Stops
<1>6. L + 1 \in m..(L + 1) /\ m \in m..(L + 1) /\ L + 1 \in Nat
  BY <1>1
<1>7. Stops(w) \subseteq LineEnds(w)
  BY DEF Stops
<1>8. \A i \in m..(L + 1) : i # m => i - 1 \in m..(L + 1) /\ BeginAt(r, m, i) = E(i - 1) + 2
  <2> SUFFICES ASSUME NEW i \in m..(L + 1), i # m
               PROVE  i - 1 \in m..(L + 1) /\ BeginAt(r, m, i) = EndAt(r, m, i - 1) + 2
    OBVIOUS
  <2>1. i - 1 \in m..(L + 1)
    BY <1>1
  <2>2. After(r, m, i)
    BY <1>2
  <2>3. BeginAt(r, m, i) = EndAt(r, m, i - 1) + 2
    BY <2>2, WindowLines
  <2> QED BY <2>1, <2>3
<1>9. \A i \in m..(L + 1) : BeginAt(r, m, i) - 1 = LineAt(r, i) - LineAt(r, m) /\ BeginAt(r, m, i) \in Nat
  <2> SUFFICES ASSUME NEW i \in m..(L + 1)
               PROVE  BeginAt(r, m, i) - 1 = LineAt(r, i) - LineAt(r, m) /\ BeginAt(r, m, i) \in Nat
    OBVIOUS
  <2>1. i \in Lines(r) /\ BeginAt(r, m, i) \in Nat
    BY <1>2, WindowLines DEF After
  <2>2. LineAt(r, i) \in Nat
    BY <1>1, <2>1, LinesLemma
  <2> DEFINE la == LineAt(r, i)
             lm == LineAt(r, m)
  <2>3. la \in Nat /\ lm \in Nat /\ BeginAt(r, m, i) = la - lm + 1
    BY <1>1, <2>2 DEF BeginAt
  <2> HIDE DEF la, lm
  <2>4. BeginAt(r, m, i) - 1 = la - lm
    BY <2>3
  <2> QED BY <2>1, <2>4 DEF la, lm
<1>10. E(L + 1) + 1 = HeadLen(r) - LineAt(r, m)
  <2>1. HeadLen(r) = LineTo(r, L + 1) + 2
    BY <1>1, LinesLemma
  <2>2. LineTo(r, L + 1) \in Nat
    BY <1>1, <1>2, <1>6, LinesLemma DEF After
  <2> DEFINE lt == LineTo(r, L + 1)
             lm == LineAt(r, m)
  <2>3. lt \in Nat /\ lm \in Nat /\ E(L + 1) = lt - lm + 1 /\ HeadLen(r) = lt + 2
    BY <1>1, <2>1, <2>2 DEF EndAt
  <2> HIDE DEF lt, lm, E
  <2>4. E(L + 1) + 1 = HeadLen(r) - lm
    BY <2>3
  <2> QED BY <2>4 DEF lm
<1> HIDE DEF L, E, k
<1>11. CASE Stops(w) = {}
  <2>1. k < E(L + 1) + 1
    BY <1>1, <1>3, <1>5, <1>6, <1>11
  <2> DEFINE X == {i \in m..(L + 1) : k < E(i) + 1}
  <2>2. PICK q \in X : \A i \in X : q <= i
    <3>1. X \in SUBSET Nat /\ X # {}
      BY <1>1, <1>6, <2>1
    <3> HIDE DEF X
    <3> QED BY <3>1, Least
  <2>3. q \in m..(L + 1) /\ k < E(q) + 1
    BY <2>2
  <2> DEFINE j == q - 1
  <2>4. j \in (m - 1)..L /\ j + 1 = q
    BY <1>1, <2>3
  <2>5. \A i \in m..j : E(i) + 1 <= k /\ i \in m..(L + 1)
    <3> SUFFICES ASSUME NEW i \in m..j
                 PROVE  E(i) + 1 <= k /\ i \in m..(L + 1)
      OBVIOUS
    <3>1. i \in m..(L + 1) /\ i < q
      BY <1>1, <2>3
    <3>2. i \notin X
      BY <1>1, <2>2, <2>3, <3>1
    <3>3. ~(k < E(i) + 1)
      BY <3>1, <3>2
    <3> QED BY <1>1, <1>3, <3>1, <3>3
  <2>6. \A i \in m..j : r.bad # i
    BY <1>5, <1>11, <2>5
  <2>7. LineEnds(w) = EndsOf(r, m, j)
    <3>1. ASSUME NEW e \in LineEnds(w) PROVE \E i \in m..j : e = E(i)
      <4>1. e <= E(L + 1)
        BY <1>1, <1>3, <1>4, <1>6, <2>1
      <4>2. PICK i \in m..(L + 1) : e = E(i)
        BY <1>4, <4>1
      <4>3. E(i) < E(q)
        BY <1>1, <1>3, <1>4, <2>3, <4>2
      <4>4. i < q
        BY <1>3, <2>3, <4>3
      <4>5. i \in m..j
        BY <1>1, <2>3, <4>4
      <4> QED BY <4>2, <4>5
    <3>2. ASSUME NEW i \in m..j PROVE E(i) \in LineEnds(w)
      BY <1>4, <2>5
    <3>3. EndsOf(r, m, j) = {E(i) : i \in m..j}
      BY DEF EndsOf, E
    <3> HIDE DEF j
    <3> QED BY <3>1, <3>2, <3>3
  <2>8. HeaderEnds(w) = LineEnds(w)
    BY <1>11 DEF HeaderEnds
  <2> DEFINE S == {-1} \cup LineEnds(w)
  <2>9. Highest(S) \in S /\ (\A n \in S : n <= Highest(S)) /\ S \in SUBSET Int
    <3>1. S \in SUBSET Int /\ S # {} /\ (\A n \in S : n <= k) /\ k \in Int
      BY <1>1, <1>4
    <3> HIDE DEF S
    <3> QED BY <3>1, HighestLemma
  <2>10. Highest(S) = BeginAt(r, m, q) - 2
    <3>1. CASE q = m
      <4>1. LineEnds(w) = {}
        <5>1. j < m
          BY <1>1, <3>1
        <5>2. m..j = {}
          BY <1>1, <2>4, <5>1
        <5> QED BY <2>7, <5>2 DEF EndsOf
      <4>2. Highest(S) = -1
        BY <2>9, <4>1
      <4> HIDE DEF S
      <4> QED BY <1>1, <3>1, <4>2
    <3>2. CASE q # m
      <4>1. BeginAt(r, m, q) = E(j) + 2 /\ j \in m..(L + 1) /\ E(j) \in Nat
        BY <1>3, <1>8, <2>3, <3>2
      <4>2. j \in m..j
        BY <1>1, <4>1
      <4>3. E(j) \in LineEnds(w)
        BY <1>4, <2>5, <4>2
      <4>4. ASSUME NEW n \in S PROVE n <= E(j)
        <5>1. CASE n = -1
          BY <4>1, <5>1
        <5>2. CASE n \in LineEnds(w)
          <6>1. PICK i \in m..j : n = E(i)
            BY <2>7, <5>2 DEF EndsOf, E
          <6>2. i \in m..(L + 1) /\ n \in Nat
            BY <1>3, <2>5, <6>1
          <6>3. i < j => E(i) + 2 <= E(j)
            BY <1>3, <4>1, <6>2
          <6>4. i \in Nat /\ j \in Nat /\ i <= j
            BY <1>1, <4>1, <6>1
          <6> HIDE DEF j
          <6>5. i = j \/ i < j
            BY <6>4
          <6> QED BY <4>1, <6>1, <6>2, <6>3, <6>5
        <5> QED BY <4>4, <5>1, <5>2
      <4>5. E(j) <= Highest(S) /\ Highest(S) <= E(j) /\ Highest(S) \in Int
        BY <2>9, <4>3, <4>4
      <4> HIDE DEF S, j
      <4> QED BY <4>1, <4>5
    <3> QED BY <3>1, <3>2
  <2>11. RestConsumed(w) = LineAt(r, j + 1) - LineAt(r, m)
    <3>1. RestConsumed(w) = 1 + Highest(S)
      BY <1>11 DEF RestConsumed
    <3> DEFINE bq == BeginAt(r, m, q)
    <3>2. bq \in Nat /\ bq - 1 = LineAt(r, q) - LineAt(r, m) /\ Highest(S) = bq - 2
      BY <1>9, <2>3, <2>10
    <3> HIDE DEF bq, S, j
    <3>3. RestConsumed(w) = bq - 1
      BY <3>1, <3>2
    <3> QED BY <2>4, <3>2, <3>3
  <2> HIDE DEF j
  <2>12. RestMore(w, r, m, j)
    BY <1>11, <2>3, <2>4, <2>5, <2>6, <2>7, <2>8, <2>11 DEF RestMore, E, L, k
  <2> QED BY <2>12
<1>12. CASE Stops(w) # {}
  <2> DEFINE s == Lowest(Stops(w))
  <2>1. s \in Stops(w) /\ (\A e \in Stops(w) : s <= e) /\ s \in Nat /\ s + 1 <= k /\ s \in LineEnds(w)
    <3>1. Stops(w) \in SUBSET Nat
      BY <1>4, <1>7
    <3>2. s \in Stops(w) /\ \A e \in Stops(w) : s <= e
      BY <1>12, <3>1, LowestLemma
    <3> QED BY <1>4, <1>7, <3>2
  <2> HIDE DEF s
  <2>2. s <= E(L + 1)
    <3> SUFFICES ASSUME ~(s <= E(L + 1))
                 PROVE  FALSE
      OBVIOUS
    <3>1. E(L + 1) \in Nat /\ E(L + 1) < s
      BY <1>3, <1>6, <2>1
    <3>2. E(L + 1) + 1 <= k
      BY <1>1, <2>1, <3>1
    <3>3. E(L + 1) \in Stops(w)
      BY <1>5, <1>6, <3>2
    <3> QED BY <2>1, <3>1, <3>3
  <2>3. PICK i \in m..(L + 1) : s = E(i)
    BY <1>4, <2>1, <2>2
  <2>4. E(i) + 1 <= k /\ (IsEmpty(w, s) <=> i = L + 1) /\ (i = L + 1 \/ r.bad = i)
    BY <1>5, <2>1, <2>3
  <2>5. CASE i # L + 1
    <3>1. r.bad # 0 /\ ~IsEmpty(w, s)
      BY <1>1, <2>3, <2>4, <2>5
    <3> QED BY <1>12, <3>1 DEF RestBad, s
  <2>6. CASE i = L + 1
    <3>1. \A n \in m..L : /\ n \in m..(L + 1) /\ E(n) \in Nat /\ E(n) < s /\ E(n) + 1 <= k
      <4> SUFFICES ASSUME NEW n \in m..L
                   PROVE  n \in m..(L + 1) /\ E(n) \in Nat /\ E(n) < s /\ E(n) + 1 <= k
        OBVIOUS
      <4>1. n \in m..(L + 1) /\ n < L + 1
        BY <1>1
      <4>2. E(n) \in Nat /\ E(n) + 2 <= E(L + 1)
        BY <1>3, <1>6, <4>1
      <4> QED BY <1>1, <2>1, <2>3, <2>6, <4>1, <4>2
    <3>2. \A n \in m..L : r.bad # n
      <4> SUFFICES ASSUME NEW n \in m..L, r.bad = n
                   PROVE  FALSE
        OBVIOUS
      <4>1. E(n) \in Stops(w)
        BY <1>5, <3>1
      <4> QED BY <2>1, <3>1, <4>1
    <3>3. HeaderEnds(w) = EndsOf(r, m, L)
      <4>1. ASSUME NEW e \in HeaderEnds(w) PROVE \E n \in m..L : e = E(n)
        <5>1. e \in LineEnds(w) /\ e < s /\ e \in Nat
          BY <1>4, <2>1 DEF HeaderEnds
        <5>2. e <= E(L + 1)
          BY <2>1, <2>3, <2>6, <5>1
        <5>3. PICK n \in m..(L + 1) : e = E(n)
          BY <1>4, <5>1, <5>2
        <5>4. n < L + 1
          BY <1>3, <1>6, <2>3, <2>6, <5>1, <5>3
        <5>5. n \in m..L
          BY <1>1, <5>4
        <5> QED BY <5>3, <5>5
      <4>2. ASSUME NEW n \in m..L PROVE E(n) \in HeaderEnds(w)
        <5>1. E(n) \in LineEnds(w) /\ E(n) \in Nat /\ E(n) < s
          BY <1>4, <3>1
        <5>2. \A e \in Stops(w) : E(n) < e
          BY <1>4, <1>7, <2>1, <5>1
        <5> QED BY <5>1, <5>2 DEF HeaderEnds
      <4>3. EndsOf(r, m, L) = {E(n) : n \in m..L}
        BY DEF EndsOf, E
      <4> QED BY <4>1, <4>2, <4>3
    <3>4. RestConsumed(w) = HeadLen(r) - LineAt(r, m) /\ HeadLen(r) - LineAt(r, m) <= k
      <4>1. RestConsumed(w) = 1 + s
        BY <1>12 DEF RestConsumed, s
      <4>2. s + 1 = HeadLen(r) - LineAt(r, m)
        BY <1>10, <2>3, <2>6
      <4>3. 1 + s = s + 1
        BY <2>1
      <4> QED BY <2>1, <4>1, <4>2, <4>3
    <3>5. RestDone(w, r, m)
      BY <1>12, <2>4, <2>6, <3>1, <3>2, <3>3, <3>4 DEF RestDone, E, L, k, s
    <3> QED BY <3>5
  <2> QED BY <2>5, <2>6
<1> QED BY <1>11, <1>12

-----------------------------------------------------------------------------
(* What the window holds. *)

\* The window is the wire from the reader's position to what was taken.
LEMMA WindowIs ==
  ASSUME ClientInv, WindowInv
  PROVE  /\ Len(Window) = win.to - win.from /\ Len(Window) \in 0..BlockSize
         /\ Position \in Nat /\ Position + Len(Window) = taken /\ taken \in Nat /\ taken <= Len(wire) /\ Len(wire) \in Nat
         /\ \A i \in 1..Len(Window) : Window[i] = wire[Position + i]
<1> DEFINE d == win.to - win.from
<1>1. win.to \in 0..BlockSize /\ win.from \in 0..BlockSize /\ win.from <= win.to /\ BlockSize \in Nat
  BY MessageAssumption DEF WindowInv
<1>2. d \in 0..BlockSize /\ d \in Nat
  BY <1>1
<1>3. taken \in Nat /\ taken <= Len(wire) /\ Position \in Nat /\ Position = taken - d /\ Position + d = taken
  BY <1>2 DEF WindowInv, Position
<1>4. wire \in Seq(Octets) /\ Len(wire) \in Nat
  BY DEF ClientInv, WireOK
<1>5. \A i \in 1..d : wire[mem[Active][win.from + i]] = wire[Position + i]
  BY DEF WindowInv
<1>6. \A i \in 1..d : wire[Position + i] \in Octets
  <2> SUFFICES ASSUME NEW i \in 1..d PROVE wire[Position + i] \in Octets
    OBVIOUS
  <2> HIDE DEF d
  <2>1. Position + i \in 1..Len(wire)
    BY <1>2, <1>3, <1>4
  <2> QED BY <1>4, <2>1
<1> DEFINE W == [i \in 1..d |-> wire[mem[Active][win.from + i]]]
<1>7. Window = W
  BY DEF Window
<1>8. W \in [1..d -> Octets] /\ DOMAIN W = 1..d /\ \A i \in 1..d : W[i] = wire[Position + i]
  BY <1>5, <1>6
<1> HIDE DEF W, d
<1>9. W \in Seq(Octets)
  BY <1>2, <1>8, IsASeq
<1>10. Len(W) \in Nat /\ DOMAIN W = 1..Len(W)
  BY <1>9, LenProperties
<1>11. Len(W) = d
  BY <1>2, <1>8, <1>10
<1> QED BY <1>2, <1>3, <1>4, <1>7, <1>8, <1>11 DEF d

\* The reader stands before line m of request k.
Stands(k, m) ==
  k \in 1..Len(script) /\ m \in Lines(script[k]) /\ Position = StartOf(k) - 1 + LineAt(script[k], m)

\* The window then begins with that line.
LEMMA StandsReads ==
  ASSUME ClientInv, WindowInv, NEW k, NEW m, Stands(k, m)
  PROVE  Reads(Window, script[k], m)
<1> DEFINE r == script[k]
           w == Window
           a == LineAt(r, m)
           s == StartOf(k)
<1>1. script \in Scripts /\ k \in 1..Len(script) /\ m \in Lines(r) /\ Position = s - 1 + a
  BY DEF ClientInv, Stands
<1>2. Whole(r) /\ s \in Nat /\ HeadLen(r) \in Nat
  <2>1. Len(script) \in Nat
    BY <1>1, StartLemma
  <2>2. k \in 1..(Len(script) + 1)
    BY <1>1, <2>1
  <2> QED BY <1>1, <2>2, StartLemma
<1>3. a \in Nat
  BY <1>1, <1>2, LinesLemma
<1>4. /\ Len(w) \in Nat /\ Position + Len(w) = taken /\ taken <= Len(wire) /\ Len(wire) \in Nat /\ Position \in Nat /\ taken \in Nat
      /\ \A i \in 1..Len(w) : w[i] = wire[Position + i]
  BY WindowIs, MessageAssumption
<1>5. ASSUME NEW n \in 1..Len(w), a + n <= HeadLen(r)
      PROVE  w[n] = Octet(r, a + n)
  <2> DEFINE lw == Len(w)
             lx == Len(wire)
             h == HeadLen(r)
  <2>1. lw \in Nat /\ lx \in Nat /\ h \in Nat /\ a \in Nat /\ s \in Nat /\ n \in 1..lw /\ a + n <= h /\ Position = s - 1 + a /\ Position + lw <= lx /\ Position \in Nat
    BY <1>1, <1>2, <1>3, <1>4, <1>5
  <2> HIDE DEF lw, lx, h, a, s, w, r
  <2>2. a + n \in 1..h /\ s - 1 + (a + n) <= lx /\ s - 1 + (a + n) = Position + n
    BY <2>1
  <2>3. wire[s - 1 + (a + n)] = Octet(r, a + n)
    BY <1>1, <2>2 DEF ClientInv, WireOK, lx, h, s, r
  <2>4. w[n] = wire[Position + n]
    BY <1>4
  <2> QED BY <2>2, <2>3, <2>4
<1> QED BY <1>1, <1>2, <1>4, <1>5 DEF Reads

\* The wire never holds more than the script.
LEMMA WireBound ==
  ASSUME ClientInv
  PROVE  /\ Len(wire) <= StartOf(Len(script) + 1) - 1
         /\ sent = Len(script) => Len(wire) = StartOf(Len(script) + 1) - 1
<1> DEFINE L == Len(script)
<1>1. script \in Scripts /\ sent \in 0..L /\ L \in Nat
  BY StartLemma DEF ClientInv
<1>2. Len(wire) = StartOf(sent + 1) - 1 + BlockAt(build.out + 1) /\ Len(wire) \in Nat
  BY DEF ClientInv, WireOK
<1>3. StartOf(L + 1) \in Nat
  BY <1>1, StartLemma
<1>4. CASE sent = L
  <2>1. build = EmptyBuild
    BY <1>4 DEF ClientInv
  <2>2. build.out + 1 = 1
    BY <2>1 DEF EmptyBuild
  <2>3. BlockAt(build.out + 1) = 0
    BY <2>2, BlockAtLemma
  <2> HIDE DEF L
  <2>4. Len(wire) = StartOf(L + 1) - 1
    BY <1>2, <1>3, <1>4, <2>3
  <2> QED BY <1>2, <2>4 DEF L
<1>5. CASE sent # L
  <2> DEFINE r == script[sent + 1]
             n == build.out + 1
             s == StartOf(sent + 1)
             h == HeadLen(r)
             t == StartOf(L + 1)
  <2>1. sent + 1 \in 1..L /\ sent + 1 \in 1..(L + 1) /\ L + 1 \in 1..(L + 1) /\ sent + 1 < L + 1
    BY <1>1, <1>5
  <2>2. Whole(r) /\ s \in Nat /\ h \in Nat /\ s + h <= t /\ t \in Nat
    BY <1>1, <2>1, StartLemma
  <2>3. BuildOK(r)
    BY <1>1, <1>5 DEF ClientInv
  <2>4. build \in Building /\ build.out < Len(build.blocks) /\ BuiltTo(build) = PieceAt(r, build.put) /\ (build.out > 0 => build.put = Len(Pieces(r)))
    BY <2>3 DEF BuildOK, Holds
  <2>5. build.out \in Nat /\ Len(build.blocks) \in Nat /\ build.offset \in Nat
    BY <2>4, MessageAssumption DEF Building
  <2>6. BlockAt(n) <= h /\ BlockAt(n) \in Nat
    <3>1. CASE build.out = 0
      <4>1. BlockAt(n) = 0
        BY <3>1, BlockAtLemma
      <4> QED BY <2>2, <4>1
    <3>2. CASE build.out > 0
      <4>1. BuiltTo(build) = h
        BY <2>2, <2>4, <3>2, PiecesLemma
      <4>2. n \in Nat \ {0} /\ Len(build.blocks) \in Nat \ {0} /\ n <= Len(build.blocks)
        BY <2>4, <2>5
      <4> DEFINE z == Len(build.blocks)
      <4>3. BuiltTo(build) = BlockAt(z) + build.offset
        BY DEF BuiltTo
      <4> HIDE DEF n, z, h
      <4>4. n \in Nat /\ z \in Nat /\ n <= z /\ n \in Nat \ {0} /\ z \in Nat \ {0}
        BY <4>2 DEF z
      <4>5. BlockAt(n) \in Nat /\ BlockAt(z) \in Nat /\ (n < z => BlockAt(n) + BlockSize <= BlockAt(z))
        <5>1. BlockAt(n) \in Nat
          BY <4>4, BlockAtLemma
        <5>2. BlockAt(z) \in Nat
          BY <4>4, BlockAtLemma
        <5>3. n < z => BlockAt(n) + BlockSize <= BlockAt(z)
          BY <4>4, BlockAtLemma
        <5> QED BY <5>1, <5>2, <5>3
      <4>6. n = z \/ n < z
        BY <4>4
      <4>7. BlockAt(n) <= BlockAt(z)
        BY <4>5, <4>6, MessageAssumption
      <4> QED BY <2>5, <4>1, <4>3, <4>5, <4>7
    <3> QED BY <2>5, <3>1, <3>2
  <2> DEFINE ba == BlockAt(n)
  <2>7. ba \in Nat /\ ba <= h /\ Len(wire) = s - 1 + ba
    BY <1>2, <2>6
  <2> HIDE DEF ba, s, h, t
  <2>8. Len(wire) <= t - 1
    BY <2>2, <2>7
  <2> QED BY <1>5, <2>8 DEF t
<1> QED BY <1>4, <1>5

\* Behind the last request there is nothing to read.
LEMMA NothingBehind ==
  ASSUME ClientInv, WindowInv, Position = StartOf(Len(script) + 1) - 1
  PROVE  Len(Window) = 0 /\ LineEnds(Window) = {} /\ LineResult(Window) = "again"
<1>1. Len(wire) <= StartOf(Len(script) + 1) - 1
  BY WireBound
<1>2. script \in Scripts
  BY DEF ClientInv
<1>3. Len(script) \in Nat
  BY <1>2, StartLemma
<1>4. Len(script) + 1 \in 1..(Len(script) + 1)
  BY <1>3
<1>5. StartOf(Len(script) + 1) \in Nat
  BY <1>2, <1>4, StartLemma
<1>6. Len(Window) \in Nat /\ Position + Len(Window) = taken /\ taken <= Len(wire) /\ Len(wire) \in Nat /\ taken \in Nat
  BY WindowIs, MessageAssumption
<1> DEFINE lw == Len(Window)
           lx == Len(wire)
           s == StartOf(Len(script) + 1)
<1>7. lw \in Nat /\ lx \in Nat /\ s \in Nat /\ s - 1 + lw = taken /\ taken <= lx /\ lx <= s - 1 /\ taken \in Nat
  BY <1>1, <1>5, <1>6
<1> HIDE DEF lw, lx, s
<1>8. lw = 0
  BY <1>7
<1>9. LineEnds(Window) = {}
  BY <1>8 DEF LineEnds, lw
<1> QED BY <1>8, <1>9 DEF lw, LineResult

-----------------------------------------------------------------------------
(* What a step leaves alone. *)

\* Nothing of the client changes.
LEMMA ClientStays ==
  ASSUME ClientInv, UNCHANGED client
  PROVE  ClientInv'
<1>1. script' = script /\ build' = build /\ sent' = sent /\ wire' = wire
  BY DEF client
<1>2. \A k : StartOf(k)' = StartOf(k)
  BY <1>1, ScriptStays
<1>3. WireOK'
  BY <1>1, <1>2 DEF ClientInv, WireOK
<1>4. sent < Len(script) => BuildOK(script[sent + 1])'
  BY <1>1 DEF ClientInv, BuildOK
<1> QED BY <1>1, <1>3, <1>4 DEF ClientInv

\* The views of a request stay kept if the step keeps every view.
LEMMA ParsedStays ==
  ASSUME NEW m, Parsed(m), UNCHANGED <<script, served, line, raw, headers>>, \A v : Kept(v) => Kept(v)'
  PROVE  Parsed(m)'
<1>1. \A k : StartOf(k)' = StartOf(k)
  BY ScriptStays
<1>2. Current' = Current
  BY DEF Current
<1>3. \A i : Span(Current, i)' = Span(Current, i)
  BY <1>1, <1>2 DEF Span
<1>4. Kept(line.view)' /\ \A h \in headers' : Kept(h)'
  BY DEF Parsed
<1>5. SpanOf(line.view)' = Span(Current, 1)'
  BY <1>3 DEF Parsed, SpanOf
<1>6. {SpanOf(h) : h \in headers}' = {Span(Current, i) : i \in 2..m}'
  BY <1>3 DEF Parsed, SpanOf
<1>7. /\ (PathHeld(script[Current]) /\ QueryHeld(script[Current]))'
      /\ (\A i \in 1..m : Fits(script[Current], i))'
  BY <1>2 DEF Parsed, PathHeld, QueryHeld
<1> QED BY <1>4, <1>5, <1>6, <1>7 DEF Parsed

\* The reader is where it was.
LEMMA KeptStays ==
  ASSUME UNCHANGED <<mem, buffer, win>>
  PROVE  \A v : Kept(v) => Kept(v)'
BY DEF Kept, Intact

\* A step of the client, or none: what the server has read does not change.
LEMMA ServerStays ==
  ASSUME IInv, UNCHANGED <<script, window, parsed, pc, err, served>>,
         wire' \in Seq(Octets), Len(wire') >= Len(wire), \A p \in 1..Len(wire) : wire'[p] = wire[p]
  PROVE  WindowInv' /\ ReaderInv' /\ Answered' /\ Closing'
<1>1. UNCHANGED <<script, taken, mem, buffer, win, line, raw, headers, pc, err, served>>
  BY DEF window, parsed
<1>2. ClientInv /\ WindowInv /\ ReaderInv /\ Answered /\ Closing
  BY DEF IInv
<1>3. \A k : StartOf(k)' = StartOf(k)
  BY <1>1, ScriptStays
<1>4. Current' = Current /\ Position' = Position /\ Active' = Active
  BY <1>1 DEF Current, Position, Active
<1>5. /\ Len(Window) = win.to - win.from /\ Len(Window) \in Nat /\ Position \in Nat /\ Position + Len(Window) = taken
      /\ taken <= Len(wire) /\ Len(wire) \in Nat /\ taken \in Nat
  BY <1>2, WindowIs, MessageAssumption
<1>6. Len(wire') \in Nat /\ taken <= Len(wire')
  BY <1>5
<1>7. Window' = Window
  <2>1. \A i \in 1..(win.to - win.from) : mem[Active][win.from + i] = Position + i
    BY <1>2 DEF WindowInv
  <2>2. \A i \in 1..(win.to - win.from) : Position + i \in 1..Len(wire)
    <3> DEFINE lw == Len(Window)
               lx == Len(wire)
    <3>1. lw \in Nat /\ lx \in Nat /\ Position \in Nat /\ Position + lw <= lx /\ win.to - win.from = lw
      BY <1>5
    <3> HIDE DEF lw, lx
    <3>2. \A i \in 1..lw : Position + i \in 1..lx
      BY <3>1
    <3> QED BY <3>1, <3>2 DEF lx
  <2>3. \A i \in 1..(win.to - win.from) : wire'[mem[Active][win.from + i]] = wire[mem[Active][win.from + i]]
    BY <2>1, <2>2
  <2> QED BY <1>1, <1>4, <2>3 DEF Window
<1>8. WindowInv'
  BY <1>1, <1>2, <1>4, <1>6 DEF WindowInv
<1>9. \A m : Parsed(m) => Parsed(m)'
  <2>1. \A v : Kept(v) => Kept(v)'
    BY <1>1, KeptStays
  <2> QED BY <1>1, <2>1, ParsedStays
<1>10. ReaderInv'
  <2>1. (raw \in [size : Int, cap : Int, gen : Int] /\ raw.size <= raw.cap)' /\ (AtLine \/ AtRest \/ pc = "serve" \/ AtClose)'
    BY <1>1, <1>2 DEF ReaderInv, AtLine, AtRest, AtClose
  <2>2. (AtLine => Position = StartOf(Current) - 1 /\ (pc # "read" => headers = {}))'
    BY <1>1, <1>2, <1>3, <1>4 DEF ReaderInv, AtLine
  <2>3. (AtRest => /\ Current <= Len(script)
                   /\ \E m \in 1..Len(script[Current].lines) :
                        Parsed(m) /\ Position = StartOf(Current) - 1 + LineAt(script[Current], m + 1))'
    <3> SUFFICES ASSUME AtRest'
                 PROVE  /\ Current' <= Len(script')
                        /\ \E m \in 1..Len(script'[Current'].lines) :
                             Parsed(m)' /\ Position' = StartOf(Current)' - 1 + LineAt(script'[Current'], m + 1)
      OBVIOUS
    <3>1. AtRest
      BY <1>1 DEF AtRest
    <3>2. PICK m \in 1..Len(script[Current].lines) :
                 Parsed(m) /\ Position = StartOf(Current) - 1 + LineAt(script[Current], m + 1)
      BY <1>2, <3>1 DEF ReaderInv
    <3>3. Current <= Len(script)
      BY <1>2, <3>1 DEF ReaderInv
    <3>4. Parsed(m)'
      BY <1>9, <3>2
    <3>5. StartOf(Current)' = StartOf(Current)
      BY <1>3, <1>4
    <3> QED BY <1>1, <1>4, <3>2, <3>3, <3>4, <3>5
  <2>4. (pc = "serve" => /\ Current <= Len(script) /\ Parsed(Len(script[Current].lines))
                         /\ script[Current].bad = 0 /\ Position = StartOf(Current + 1) - 1)'
    <3>1. pc = "serve" => Parsed(Len(script[Current].lines))'
      BY <1>1, <1>2, <1>4, <1>9 DEF ReaderInv
    <3> QED BY <1>1, <1>2, <1>3, <1>4, <3>1 DEF ReaderInv
  <2>5. (Filling => LineEnds(Window) = {})'
    <3>1. Filling' <=> Filling
      BY <1>1 DEF Filling
    <3> QED BY <1>2, <1>7, <3>1 DEF ReaderInv
  <2> QED BY <2>1, <2>2, <2>3, <2>4, <2>5 DEF ReaderInv
<1>11. Answered'
  BY <1>1, <1>2, <1>3 DEF Answered, AtClose
<1>12. Closing'
  BY <1>1, <1>2, <1>4 DEF Closing, AtClose
<1> QED BY <1>8, <1>10, <1>11, <1>12

-----------------------------------------------------------------------------
(* The views the parsers take. *)

\* The view of a line the window holds whole spans that line, and the memory
\* under it holds the octets it was taken from.
LEMMA ViewLemma ==
  ASSUME ClientInv, WindowInv, NEW k, NEW m, Stands(k, m), NEW i, After(script[k], m, i), i <= Len(script[k].lines),
         EndAt(script[k], m, i) + 1 <= Len(Window),
         NEW v, v = View(BeginAt(script[k], m, i), EndAt(script[k], m, i) - 1)
  PROVE  /\ v \in ViewType /\ v.at + v.len <= BlockSize /\ v.at + v.len + 2 <= win.to /\ Intact(v)
         /\ v.at + v.len = win.from + EndAt(script[k], m, i) - 1 /\ v.blk = buffer[win.block]
         /\ SpanOf(v) = Span(k, i) /\ script[k].lines[i] + 2 <= BlockSize
<1> DEFINE r == script[k]
           b == BeginAt(r, m, i)
           e == EndAt(r, m, i)
           a == LineAt(r, m)
           s == StartOf(k)
           ll == r.lines[i]
           la == LineAt(r, i)
           f == win.from
           t == win.to
<1>1. Reads(Window, r, m)
  BY StandsReads
<1>2. /\ b \in Nat \ {0} /\ e \in Nat \ {0} /\ e = b + LineLen(r, i) /\ a \in Nat
  BY <1>1, WindowLines
<1>3. LineLen(r, i) = ll /\ ll \in Nat
  BY <1>1, WindowLines DEF LineLen
<1>4. Position = s - 1 + a /\ b = la - a + 1 /\ s \in Nat /\ la \in Nat
  <2>1. script \in Scripts /\ k \in 1..Len(script)
    BY DEF ClientInv, Stands
  <2>2. Len(script) \in Nat
    BY <2>1, StartLemma
  <2>3. k \in 1..(Len(script) + 1)
    BY <2>1, <2>2
  <2>4. Whole(r) /\ i \in Lines(r)
    BY <1>1 DEF Reads, After
  <2>5. s \in Nat
    BY <2>1, <2>3, StartLemma
  <2>6. la \in Nat
    BY <2>4, LinesLemma
  <2> QED BY <2>5, <2>6 DEF Stands, BeginAt
<1>5. Len(Window) = t - f /\ f \in 0..BlockSize /\ t \in 0..BlockSize /\ f <= t /\ BlockSize \in Nat /\ Position \in Nat
  BY WindowIs, MessageAssumption DEF WindowInv
<1>6. /\ Active = buffer[win.block] /\ Active \in 1..Len(mem) /\ Len(mem) \in Nat
      /\ \A n \in 1..(t - f) : mem[Active][f + n] = Position + n
  <2>1. Active = buffer[win.block] /\ win.block \in 1..Len(buffer) /\ \A n \in 1..Len(buffer) : buffer[n] \in 1..Len(mem)
    BY DEF WindowInv, Active
  <2>2. mem \in Seq([1..BlockSize -> Nat])
    BY DEF WindowInv
  <2>3. \A n \in 1..(t - f) : mem[Active][f + n] = Position + n
    BY DEF WindowInv
  <2> QED BY <2>1, <2>2, <2>3
<1>7. v = [blk |-> Active, at |-> f + b - 1, len |-> e - 1 - b + 1, pos |-> mem[Active][f + b]]
  BY DEF View
<1>8. e + 1 <= t - f
  BY <1>5
<1>9. e = b + ll
  BY <1>2, <1>3
<1> HIDE DEF b, e, a, s, ll, la, f, t, r
<1>10. b \in 1..(t - f) /\ e - 1 - b + 1 = ll /\ Position + b = s + la
  BY <1>2, <1>3, <1>4, <1>5, <1>8, <1>9
<1>11. mem[Active][f + b] = s + la
  BY <1>6, <1>10
<1>12. v = [blk |-> Active, at |-> f + b - 1, len |-> ll, pos |-> s + la]
  BY <1>7, <1>10, <1>11
<1>13. v.blk = Active /\ v.at = f + b - 1 /\ v.len = ll /\ v.pos = s + la
  BY <1>12
<1>14. v \in ViewType
  <2>1. Active \in Nat /\ f + b - 1 \in Nat /\ ll \in Nat /\ s + la \in Nat
    <3>1. Active \in Nat
      BY <1>6
    <3>2. f + b - 1 \in Nat
      BY <1>2, <1>5
    <3> QED BY <1>3, <1>4, <3>1, <3>2
  <2> QED BY <1>12, <2>1 DEF ViewType
<1>15. v.at + v.len = f + e - 1
  BY <1>2, <1>3, <1>5, <1>9, <1>13
<1>16. v.at + v.len <= BlockSize /\ v.at + v.len + 2 <= t /\ ll + 2 <= BlockSize
  BY <1>2, <1>3, <1>5, <1>8, <1>9, <1>15
<1>17. Intact(v)
  <2> SUFFICES ASSUME NEW n \in 1..ll
               PROVE  mem[Active][f + b - 1 + n] = s + la + n - 1
    BY <1>13 DEF Intact
  <2>1. b - 1 + n \in 1..(t - f) /\ f + b - 1 + n = f + (b - 1 + n) /\ Position + (b - 1 + n) = s + la + n - 1
    BY <1>2, <1>3, <1>4, <1>5, <1>8, <1>9
  <2>2. mem[Active][f + (b - 1 + n)] = Position + (b - 1 + n)
    BY <1>6, <2>1
  <2> QED BY <2>1, <2>2
<1>18. SpanOf(v) = Span(k, i)
  BY <1>13 DEF SpanOf, Span, s, la, ll, r
<1> QED BY <1>6, <1>13, <1>14, <1>15, <1>16, <1>17, <1>18 DEF f, t, e, r, ll

-----------------------------------------------------------------------------
(* The window moves through memory without losing its place on the wire.     *)

\* A function on 1..n is a sequence of length n.
LEMMA SeqOf ==
  ASSUME NEW S, NEW n \in Nat, NEW f \in [1..n -> S]
  PROVE  f \in Seq(S) /\ Len(f) = n
<1>1. f \in Seq(S)
  BY IsASeq
<1>2. Len(f) \in Nat /\ DOMAIN f = 1..Len(f) /\ DOMAIN f = 1..n
  BY <1>1, LenProperties
<1> QED BY <1>1, <1>2

\* A block with the unconsumed octets in front.
LEMMA MovedLemma ==
  ASSUME NEW to \in [1..BlockSize -> Nat], NEW src \in [1..BlockSize -> Nat],
         NEW from \in Nat, NEW n \in Nat, from + n <= BlockSize
  PROVE  /\ Moved(to, from, n, src) \in [1..BlockSize -> Nat]
         /\ \A i \in 1..n : Moved(to, from, n, src)[i] = src[from + i]
<1>1. BlockSize \in Nat
  BY MessageAssumption
<1>2. ASSUME NEW i \in 1..BlockSize PROVE (IF i <= n THEN src[from + i] ELSE to[i]) \in Nat
  <2>1. CASE i <= n
    <3>1. from + i \in 1..BlockSize
      BY <1>1, <2>1
    <3> QED BY <2>1, <3>1
  <2>2. CASE ~(i <= n)
    BY <2>2
  <2> QED BY <2>1, <2>2
<1>3. Moved(to, from, n, src) \in [1..BlockSize -> Nat]
  BY <1>2 DEF Moved
<1>4. ASSUME NEW i \in 1..n PROVE Moved(to, from, n, src)[i] = src[from + i]
  <2>1. i \in 1..BlockSize /\ i <= n
    BY <1>1
  <2> QED BY <2>1 DEF Moved
<1> QED BY <1>3, <1>4

\* What WindowInv says of the blocks.
LEMMA BlocksLemma ==
  ASSUME WindowInv
  PROVE  /\ BlockSize \in Nat /\ BlockSize > 0 /\ Len(buffer) \in Nat /\ Len(mem) \in Nat /\ Len(mem) = Len(buffer)
         /\ mem \in [1..Len(mem) -> [1..BlockSize -> Nat]] /\ buffer \in [1..Len(buffer) -> 1..Len(mem)]
         /\ win.block \in 1..Len(buffer) /\ Active = buffer[win.block] /\ Active \in 1..Len(mem)
         /\ mem[Active] \in [1..BlockSize -> Nat]
         /\ win.from \in 0..BlockSize /\ win.to \in 0..BlockSize /\ win.from <= win.to /\ win.to - win.from \in 0..BlockSize
         /\ win = [block |-> win.block, from |-> win.from, to |-> win.to]
<1>1. mem \in Seq([1..BlockSize -> Nat]) /\ buffer \in Seq(Nat) /\ Len(buffer) = Len(mem) /\ BlockSize \in Nat /\ BlockSize > 0
  BY MessageAssumption DEF WindowInv
<1>2. Len(buffer) \in Nat /\ Len(mem) \in Nat /\ mem \in [1..Len(mem) -> [1..BlockSize -> Nat]] /\ buffer \in [1..Len(buffer) -> Nat]
  BY <1>1, LenProperties
<1>3. buffer \in [1..Len(buffer) -> 1..Len(mem)]
  <2>1. \A i \in 1..Len(buffer) : buffer[i] \in 1..Len(mem)
    BY DEF WindowInv
  <2> QED BY <1>2, <2>1
<1>4. win \in [block : 1..Len(buffer), from : 0..BlockSize, to : 0..BlockSize] /\ win.from <= win.to
  BY DEF WindowInv
<1>5. win.block \in 1..Len(buffer) /\ win.from \in 0..BlockSize /\ win.to \in 0..BlockSize /\ win = [block |-> win.block, from |-> win.from, to |-> win.to]
  BY <1>4
<1>6. win.to - win.from \in 0..BlockSize
  <2> DEFINE f == win.from
             t == win.to
  <2>1. f \in 0..BlockSize /\ t \in 0..BlockSize /\ f <= t /\ BlockSize \in Nat
    BY <1>1, <1>4, <1>5
  <2> HIDE DEF f, t
  <2>2. t - f \in 0..BlockSize
    BY <2>1
  <2> QED BY <2>2 DEF f, t
<1>7. Active = buffer[win.block] /\ Active \in 1..Len(mem)
  BY <1>3, <1>5 DEF Active
<1>8. mem[Active] \in [1..BlockSize -> Nat]
  BY <1>2, <1>7
<1> QED BY <1>1, <1>2, <1>3, <1>4, <1>5, <1>6, <1>7, <1>8

\* The entry compaction.
LEMMA CompactKeeps ==
  ASSUME WindowInv, Compact, taken' = taken, wire' = wire
  PROVE  WindowInv' /\ Position' = Position
<1> DEFINE A == Active
           d == win.to - win.from
           n == Len(buffer)
<1>1. /\ BlockSize \in Nat /\ BlockSize > 0 /\ n \in Nat /\ Len(mem) = n
      /\ mem \in [1..n -> [1..BlockSize -> Nat]] /\ buffer \in [1..n -> 1..n]
      /\ win.block \in 1..n /\ A = buffer[win.block] /\ A \in 1..n /\ mem[A] \in [1..BlockSize -> Nat]
      /\ win.from \in 0..BlockSize /\ win.to \in 0..BlockSize /\ win.from <= win.to /\ d \in 0..BlockSize
  BY BlocksLemma
<1>2. /\ \A i, j \in 1..n : buffer[i] = buffer[j] => i = j
      /\ \A a \in 1..n : \E i \in 1..n : buffer[i] = a
      /\ \A i \in 1..d : mem[A][win.from + i] = Position + i
      /\ taken \in Nat /\ taken <= Len(wire) /\ Position \in Nat
  BY <1>1 DEF WindowInv
<1>3. win' = [block |-> 1, from |-> 0, to |-> d]
  BY DEF Compact
<1>4. 1 \in 1..n
  BY <1>1
<1>5. buffer' = [i \in 1..n |-> IF i = win.block THEN buffer[1] ELSE IF i = 1 THEN A ELSE buffer[i]]
  BY <1>1, <1>4 DEF Compact
<1> DEFINE M == Moved(mem[A], win.from, d, mem[A])
<1>6. mem' = IF win.from = 0 THEN mem ELSE [mem EXCEPT ![A] = M]
  BY DEF Compact
<1>7. M \in [1..BlockSize -> Nat] /\ \A i \in 1..d : M[i] = mem[A][win.from + i]
  <2> DEFINE f == win.from
             t == win.to
  <2>1. f \in 0..BlockSize /\ t \in 0..BlockSize /\ f <= t /\ BlockSize \in Nat /\ d = t - f
    BY <1>1
  <2> HIDE DEF f, t, d, A
  <2>2. f \in Nat /\ d \in Nat /\ f + d <= BlockSize
    BY <2>1
  <2>3. mem[A] \in [1..BlockSize -> Nat] /\ M = Moved(mem[A], f, d, mem[A])
    BY <1>1 DEF f
  <2> HIDE DEF M
  <2>4. M \in [1..BlockSize -> Nat] /\ \A i \in 1..d : M[i] = mem[A][f + i]
    BY <2>2, <2>3, MovedLemma
  <2> QED BY <2>4 DEF f
<1> HIDE DEF M, A, d, n
<1>8. mem' \in [1..n -> [1..BlockSize -> Nat]]
  BY <1>1, <1>6, <1>7
<1>9. \A i \in 1..d : mem'[A][i] = Position + i
  <2>1. CASE win.from = 0
    <3>1. \A i \in 1..d : 0 + i = i
      BY <1>1
    <3> QED BY <1>2, <1>6, <2>1, <3>1
  <2>2. CASE win.from # 0
    <3>1. mem'[A] = M
      BY <1>1, <1>6, <2>2
    <3> QED BY <1>2, <1>7, <3>1
  <2> QED BY <2>1, <2>2
<1>10. buffer' \in [1..n -> 1..n] /\ buffer'[1] = A
  BY <1>1, <1>4, <1>5
<1>11. \A i, j \in 1..n : buffer'[i] = buffer'[j] => i = j
  <2> DEFINE sw(i) == IF i = win.block THEN 1 ELSE IF i = 1 THEN win.block ELSE i
  <2>1. \A i \in 1..n : sw(i) \in 1..n /\ buffer'[i] = buffer[sw(i)]
    BY <1>1, <1>4, <1>5
  <2>2. \A i, j \in 1..n : sw(i) = sw(j) => i = j
    OBVIOUS
  <2> HIDE DEF sw
  <2>3. ASSUME NEW i \in 1..n, NEW j \in 1..n, buffer'[i] = buffer'[j] PROVE i = j
    <3>1. buffer[sw(i)] = buffer[sw(j)] /\ sw(i) \in 1..n /\ sw(j) \in 1..n
      BY <2>1, <2>3
    <3>2. sw(i) = sw(j)
      BY <1>2, <3>1
    <3> QED BY <2>2, <3>2
  <2> QED BY <2>3
<1>12. \A a \in 1..n : \E i \in 1..n : buffer'[i] = a
  <2> SUFFICES ASSUME NEW a \in 1..n PROVE \E i \in 1..n : buffer'[i] = a
    OBVIOUS
  <2>1. PICK i \in 1..n : buffer[i] = a
    BY <1>2
  <2>2. CASE i = 1
    BY <1>1, <1>5, <2>1, <2>2
  <2>3. CASE i = win.block
    BY <1>1, <1>4, <1>5, <1>10, <2>1, <2>3
  <2>4. CASE i # 1 /\ i # win.block
    BY <1>5, <2>1, <2>4
  <2> QED BY <2>2, <2>3, <2>4
<1>13. mem' \in Seq([1..BlockSize -> Nat]) /\ Len(mem') = n /\ buffer' \in Seq(Nat) /\ Len(buffer') = n
  <2>1. mem' \in Seq([1..BlockSize -> Nat]) /\ Len(mem') = n
    <3> DEFINE B == [1..BlockSize -> Nat]
    <3>1. n \in Nat /\ mem' \in [1..n -> B]
      BY <1>1, <1>8
    <3> HIDE DEF B
    <3>2. mem' \in Seq(B) /\ Len(mem') = n
      BY <3>1, SeqOf
    <3> QED BY <3>2 DEF B
  <2>2. buffer' \in [1..n -> Nat]
    <3>1. 1..n \subseteq Nat
      BY <1>1
    <3> QED BY <1>10, <3>1
  <2>3. buffer' \in Seq(Nat) /\ Len(buffer') = n
    BY <1>1, <2>2, SeqOf, Zenon
  <2> QED BY <2>1, <2>3
<1>14. win'.block = 1 /\ win'.from = 0 /\ win'.to = d /\ win'.to - win'.from = d
  BY <1>1, <1>3
<1>15. Active' = A /\ Position' = Position
  <2>1. Active' = A
    BY <1>10, <1>14 DEF Active
  <2>2. Position' = Position
    BY <1>14 DEF Position, d
  <2> QED BY <2>1, <2>2
<1>16. win' \in [block : 1..Len(buffer'), from : 0..BlockSize, to : 0..BlockSize] /\ win'.from <= win'.to
  <2>1. 0 \in 0..BlockSize /\ 0 <= d
    BY <1>1
  <2> QED BY <1>1, <1>3, <1>4, <1>13, <2>1
<1>17. \A i \in 1..(win'.to - win'.from) : mem'[Active'][win'.from + i] = Position' + i
  <2> SUFFICES ASSUME NEW i \in 1..d
               PROVE  mem'[A][0 + i] = Position + i
    BY <1>14, <1>15
  <2>1. 0 + i = i
    BY <1>1
  <2> QED BY <1>9, <2>1
<1>18. \A i \in 1..Len(buffer') : buffer'[i] \in 1..Len(mem')
  BY <1>10, <1>13
<1>19. taken' \in Nat /\ taken' <= Len(wire') /\ Position' \in Nat
  BY <1>2, <1>15
<1> QED BY <1>11, <1>12, <1>13, <1>15, <1>16, <1>17, <1>18, <1>19 DEF WindowInv

Cells == [1..BlockSize -> Nat]
\* The blocks with one behind the window.
NextMem == IF win.block = Len(buffer) THEN Append(mem, NoBlock) ELSE mem
NextBuffer == IF win.block = Len(buffer) THEN Append(buffer, Len(mem) + 1) ELSE buffer
\* The n blocks of m, each once in b.
Listed(m, b, n) ==
  /\ n \in Nat /\ m \in [1..n -> Cells] /\ b \in [1..n -> 1..n]
  /\ \A i, j \in 1..n : b[i] = b[j] => i = j
  /\ \A a \in 1..n : \E i \in 1..n : b[i] = a

\* rotate() finds or appends the block behind the window.
LEMMA NextBlock ==
  ASSUME WindowInv
  PROVE  \E n \in Nat : /\ Listed(NextMem, NextBuffer, n) /\ Len(buffer) <= n /\ win.block + 1 \in 1..n
                        /\ \A i \in 1..Len(buffer) : NextBuffer[i] = buffer[i] /\ NextMem[i] = mem[i]
<1> DEFINE k == Len(buffer)
<1>1. /\ k \in Nat /\ Len(mem) = k /\ mem \in [1..k -> Cells] /\ buffer \in [1..k -> 1..k] /\ win.block \in 1..k
  BY BlocksLemma DEF Cells
<1>2. /\ \A i, j \in 1..k : buffer[i] = buffer[j] => i = j
      /\ \A a \in 1..k : \E i \in 1..k : buffer[i] = a
  BY <1>1 DEF WindowInv
<1>3. NoBlock \in Cells
  BY DEF NoBlock, Cells
<1>4. CASE win.block # k
  <2>1. NextMem = mem /\ NextBuffer = buffer
    BY <1>4 DEF NextMem, NextBuffer
  <2>2. win.block + 1 \in 1..k /\ k <= k
    BY <1>1, <1>4
  <2>3. Listed(mem, buffer, k)
    BY <1>1, <1>2 DEF Listed
  <2> QED BY <1>1, <2>1, <2>2, <2>3
<1>5. CASE win.block = k
  <2>1. NextMem = Append(mem, NoBlock) /\ NextBuffer = Append(buffer, k + 1)
    BY <1>1, <1>5 DEF NextMem, NextBuffer
  <2> DEFINE n == k + 1
  <2>2. n \in Nat /\ k <= n /\ win.block + 1 \in 1..n
    BY <1>1, <1>5
  <2>3. NextMem \in [1..n -> Cells] /\ \A i \in 1..k : NextMem[i] = mem[i]
    <3>1. mem \in Seq(Cells)
      BY <1>1, SeqOf
    <3> HIDE DEF k
    <3>2. /\ NextMem \in Seq(Cells) /\ Len(NextMem) = n
          /\ \A i \in 1..k : NextMem[i] = mem[i]
      BY <1>1, <1>3, <2>1, <3>1, AppendProperties
    <3> QED BY <3>2, LenProperties
  <2>4. NextBuffer \in [1..n -> 1..n] /\ (\A i \in 1..k : NextBuffer[i] = buffer[i]) /\ NextBuffer[n] = n
    <3>1. buffer \in [1..k -> 1..n] /\ n \in 1..n
      <4>1. 1..k \subseteq 1..n /\ n \in 1..n
        BY <1>1
      <4> HIDE DEF n, k
      <4> QED BY <1>1, <4>1
    <3>2. buffer \in Seq(1..n) /\ Len(buffer) = k
      BY <1>1, <3>1, SeqOf
    <3> HIDE DEF k
    <3>3. NextBuffer = Append(buffer, n)
      BY <2>1
    <3>4. n = k + 1
      OBVIOUS
    <3> HIDE DEF n
    <3>5. /\ NextBuffer \in Seq(1..n) /\ Len(NextBuffer) = k + 1
          /\ (\A i \in 1..k : NextBuffer[i] = buffer[i]) /\ NextBuffer[k + 1] = n
      BY <3>1, <3>2, <3>3, AppendProperties
    <3>6. Len(NextBuffer) = n /\ NextBuffer[n] = n
      BY <3>4, <3>5
    <3> QED BY <3>5, <3>6, LenProperties
  <2>5. \A i \in 1..n : i = n \/ i \in 1..k
    BY <1>1
  <2>6. \A i \in 1..k : NextBuffer[i] \in 1..k /\ NextBuffer[i] # n /\ i \in 1..n
    <3> SUFFICES ASSUME NEW i \in 1..k PROVE NextBuffer[i] \in 1..k /\ NextBuffer[i] # n /\ i \in 1..n
      OBVIOUS
    <3>1. NextBuffer[i] \in 1..k
      BY <1>1, <2>4
    <3> QED BY <1>1, <3>1
  <2> HIDE DEF n, k
  <2>7. \A i, j \in 1..n : NextBuffer[i] = NextBuffer[j] => i = j
    BY <1>2, <2>4, <2>5, <2>6
  <2>8. \A a \in 1..n : \E i \in 1..n : NextBuffer[i] = a
    <3> SUFFICES ASSUME NEW a \in 1..n PROVE \E i \in 1..n : NextBuffer[i] = a
      OBVIOUS
    <3>1. CASE a = n
      BY <2>4, <3>1
    <3>2. CASE a \in 1..k
      <4>1. PICK i \in 1..k : buffer[i] = a
        BY <1>2, <3>2
      <4> QED BY <2>4, <2>6, <4>1
    <3> QED BY <2>5, <3>1, <3>2
  <2>9. Listed(NextMem, NextBuffer, n)
    BY <2>2, <2>3, <2>4, <2>7, <2>8 DEF Listed
  <2> QED BY <2>2, <2>3, <2>4, <2>9 DEF k
<1> QED BY <1>4, <1>5

\* The blocks m in the order b hold, in the window w, the wire from p + 1 on.
Framed(m, b, w, p, n) ==
  /\ Listed(m, b, n) /\ w \in [block : 1..n, from : 0..BlockSize, to : 0..BlockSize] /\ w.from <= w.to
  /\ \A i \in 1..(w.to - w.from) : m[b[w.block]][w.from + i] = p + i
\* Kept(), of these blocks.
KeptIn(m, b, w, v) ==
  /\ v \in ViewType /\ v.at + v.len <= BlockSize /\ \A i \in 1..v.len : m[v.blk][v.at + i] = v.pos + i - 1
  /\ \E c \in 1..w.block : b[c] = v.blk /\ (c = w.block => v.at + v.len <= w.from)

\* Framed blocks are sequences.
LEMMA FramedSeq ==
  ASSUME NEW m, NEW b, NEW w, NEW p, NEW n, Framed(m, b, w, p, n)
  PROVE  m \in Seq([1..BlockSize -> Nat]) /\ b \in Seq(Nat) /\ Len(b) = n /\ Len(m) = n
<1>1. n \in Nat /\ m \in [1..n -> Cells] /\ b \in [1..n -> 1..n]
  BY DEF Framed, Listed
<1>2. m \in Seq(Cells) /\ Len(m) = n
  BY <1>1, SeqOf
<1>3. b \in [1..n -> Nat]
  <2>1. 1..n \subseteq Nat
    BY <1>1
  <2> QED BY <1>1, <2>1
<1>4. b \in Seq(Nat) /\ Len(b) = n
  BY <1>1, <1>3, SeqOf
<1> QED BY <1>2, <1>4 DEF Cells

\* WindowInv in those terms.
LEMMA WindowFramed ==
  ASSUME WindowInv
  PROVE  Framed(mem, buffer, win, Position, Len(buffer)) /\ \A v : Kept(v) => KeptIn(mem, buffer, win, v)
<1>1. /\ Len(buffer) \in Nat /\ Len(mem) = Len(buffer) /\ mem \in [1..Len(mem) -> Cells] /\ buffer \in [1..Len(buffer) -> 1..Len(mem)]
  BY BlocksLemma DEF Cells
<1>2. Listed(mem, buffer, Len(buffer))
  BY <1>1 DEF WindowInv, Listed
<1>3. Framed(mem, buffer, win, Position, Len(buffer))
  BY <1>2 DEF WindowInv, Framed, Active
<1>4. \A v : Kept(v) => KeptIn(mem, buffer, win, v)
  BY DEF Kept, KeptIn, Intact
<1> QED BY <1>3, <1>4

\* The unconsumed tail moves to the next block: the window is the same, and
\* no view of the request is overwritten.
LEMMA RotatedLemma ==
  ASSUME WindowInv, NEW R, R = Rotated
  PROVE  /\ \E n : Framed(R.mem, R.buffer, R.win, Position, n)
         /\ R.win.to - R.win.from = win.to - win.from
         /\ \A v : Kept(v) => KeptIn(R.mem, R.buffer, R.win, v)
<1>1. CASE ~Full
  <2>1. R = [mem |-> mem, buffer |-> buffer, win |-> win]
    BY <1>1 DEF Rotated
  <2>2. R.mem = mem /\ R.buffer = buffer /\ R.win = win
    BY <2>1
  <2>3. Framed(mem, buffer, win, Position, Len(buffer)) /\ \A v : Kept(v) => KeptIn(mem, buffer, win, v)
    BY WindowFramed
  <2> QED BY <2>2, <2>3, Zenon
<1>2. CASE Full
  <2> DEFINE d == win.to - win.from
             m == NextMem
             b == NextBuffer
             q == win.block + 1
             A == Active
             k == Len(buffer)
  <2>1. R = [mem |-> [m EXCEPT ![b[q]] = Moved(m[b[q]], win.from, d, m[A])],
             buffer |-> b, win |-> [block |-> q, from |-> 0, to |-> d]]
    BY <1>2 DEF Rotated, NextMem, NextBuffer
  <2> DEFINE M == Moved(m[b[q]], win.from, d, m[A])
  <2>2. R.mem = [m EXCEPT ![b[q]] = M] /\ R.buffer = b /\ R.win = [block |-> q, from |-> 0, to |-> d]
    <3> HIDE DEF M, m, b, q, d
    <3> QED BY <2>1 DEF M
  <2>3. PICK n \in Nat : /\ Listed(m, b, n) /\ k <= n /\ q \in 1..n
                         /\ \A i \in 1..k : b[i] = buffer[i] /\ m[i] = mem[i]
    BY NextBlock
  <2>4. /\ BlockSize \in Nat /\ k \in Nat /\ Len(mem) = k /\ win.block \in 1..k /\ A = buffer[win.block] /\ A \in 1..k
        /\ mem[A] \in [1..BlockSize -> Nat] /\ buffer \in [1..k -> 1..k]
        /\ win.from \in 0..BlockSize /\ win.to \in 0..BlockSize /\ win.from <= win.to /\ d \in 0..BlockSize
    BY BlocksLemma
  <2>5. /\ m \in [1..n -> Cells] /\ b \in [1..n -> 1..n] /\ m[A] = mem[A] /\ b[q] \in 1..n /\ m[b[q]] \in Cells
        /\ \A i, j \in 1..n : b[i] = b[j] => i = j
    <3>1. m \in [1..n -> Cells] /\ b \in [1..n -> 1..n] /\ \A i, j \in 1..n : b[i] = b[j] => i = j
      BY <2>3 DEF Listed
    <3>2. m[A] = mem[A]
      BY <2>3, <2>4
    <3> HIDE DEF m, b, q, A
    <3> QED BY <2>3, <3>1, <3>2
  <2>6. M \in Cells /\ \A i \in 1..d : M[i] = mem[A][win.from + i]
    <3> DEFINE f == win.from
               t == win.to
    <3>1. f \in 0..BlockSize /\ t \in 0..BlockSize /\ f <= t /\ BlockSize \in Nat /\ d = t - f
      BY <2>4
    <3>a. M = Moved(m[b[q]], f, d, m[A])
      OBVIOUS
    <3> HIDE DEF f, t, d, A, M, m, b, q
    <3>2. f \in Nat /\ d \in Nat /\ f + d <= BlockSize
      BY <3>1
    <3>3. m[A] \in [1..BlockSize -> Nat] /\ m[b[q]] \in [1..BlockSize -> Nat]
      BY <2>4, <2>5 DEF Cells
    <3>4. M \in [1..BlockSize -> Nat] /\ \A i \in 1..d : M[i] = m[A][f + i]
      <4> PICK to, src, g, e : to = m[b[q]] /\ src = m[A] /\ g = f /\ e = d
        OBVIOUS
      <4>1. to \in [1..BlockSize -> Nat] /\ src \in [1..BlockSize -> Nat] /\ g \in Nat /\ e \in Nat /\ g + e <= BlockSize
        BY <3>2, <3>3, Zenon
      <4>2. Moved(to, g, e, src) \in [1..BlockSize -> Nat] /\ \A i \in 1..e : Moved(to, g, e, src)[i] = src[g + i]
        <5> HIDE DEF M
        <5>1. Moved(to, g, e, src) \in [1..BlockSize -> Nat]
          BY <4>1, MovedLemma
        <5>2. ASSUME NEW i \in 1..e PROVE Moved(to, g, e, src)[i] = src[g + i]
          <6>1. BlockSize \in Nat
            BY MessageAssumption
          <6>2. i \in 1..BlockSize /\ i <= e
            BY <4>1, <6>1
          <6> QED BY <6>2 DEF Moved
        <5> QED BY <5>1, <5>2
      <4>3. M = Moved(to, g, e, src)
        BY <3>a, Zenon
      <4> QED BY <4>2, <4>3, Zenon
    <3> QED BY <2>5, <3>4 DEF f, Cells
  <2>7. \A i \in 1..d : mem[A][win.from + i] = Position + i
    BY DEF WindowInv
  <2> HIDE DEF M, m, b, q, d, A
  <2>8. R.mem \in [1..n -> Cells] /\ R.mem[b[q]] = M /\ \A a \in 1..n : a # b[q] => R.mem[a] = m[a]
    BY <2>2, <2>5, <2>6
  <2>9. R.win.block = q /\ R.win.from = 0 /\ R.win.to = d /\ R.win.to - R.win.from = d
    BY <2>2, <2>4
  <2>10. Listed(R.mem, R.buffer, n)
    <3>1. R.mem \in [1..n -> Cells] /\ R.buffer = b
      BY <2>2, <2>8
    <3>2. /\ n \in Nat /\ b \in [1..n -> 1..n] /\ (\A i, j \in 1..n : b[i] = b[j] => i = j)
          /\ \A a \in 1..n : \E i \in 1..n : b[i] = a
      BY <2>3, Zenon DEF Listed
    <3> QED BY <3>1, <3>2, Zenon DEF Listed
  <2>11. R.win \in [block : 1..n, from : 0..BlockSize, to : 0..BlockSize] /\ R.win.from <= R.win.to
    <3>1. 0 \in 0..BlockSize /\ 0 <= d
      BY <2>4
    <3> QED BY <2>2, <2>3, <2>4, <2>9, <3>1
  <2>12. \A i \in 1..(R.win.to - R.win.from) : R.mem[R.buffer[R.win.block]][R.win.from + i] = Position + i
    <3> SUFFICES ASSUME NEW i \in 1..d PROVE R.mem[b[q]][0 + i] = Position + i
      BY <2>2, <2>9
    <3>1. 0 + i = i
      BY <2>4
    <3> QED BY <2>6, <2>7, <2>8, <3>1
  <2>13. Framed(R.mem, R.buffer, R.win, Position, n)
    BY <2>10, <2>11, <2>12 DEF Framed
  <2>14. ASSUME NEW v, Kept(v) PROVE KeptIn(R.mem, R.buffer, R.win, v)
    <3>1. v \in ViewType /\ v.at + v.len <= BlockSize /\ \A i \in 1..v.len : mem[v.blk][v.at + i] = v.pos + i - 1
      BY <2>14 DEF Kept, Intact
    <3>2. PICK c \in 1..win.block : buffer[c] = v.blk
      BY <2>14 DEF Kept
    <3>3. c \in 1..k /\ c \in 1..n /\ c \in 1..q /\ c # q
      <4> DEFINE w == win.block
      <4>1. c \in 1..w /\ w \in 1..k /\ k \in Nat /\ n \in Nat /\ k <= n /\ q = w + 1
        BY <2>3, <2>4 DEF q
      <4> HIDE DEF k, w
      <4>2. c \in 1..k
        BY <4>1
      <4>3. c \in 1..n
        BY <4>1
      <4>4. c \in 1..q /\ c # q
        BY <4>1
      <4> QED BY <4>2, <4>3, <4>4
    <3>4. b[c] = v.blk /\ v.blk \in 1..k /\ v.blk \in 1..n
      <4>1. b[c] = v.blk /\ v.blk \in 1..k
        BY <2>3, <2>4, <3>2, <3>3
      <4> HIDE DEF k
      <4>2. v.blk \in 1..n
        BY <2>3, <2>4, <4>1
      <4> QED BY <4>1, <4>2
    <3>5. v.blk # b[q]
      BY <2>3, <2>5, <3>3, <3>4
    <3>6. R.mem[v.blk] = mem[v.blk]
      BY <2>3, <2>8, <3>4, <3>5
    <3> QED BY <2>2, <2>9, <3>1, <3>3, <3>4, <3>6 DEF KeptIn
  <2> QED BY <2>9, <2>13, <2>14 DEF d
<1> QED BY <1>1, <1>2

\* fill() reads behind the window.
LEMMA FillWindow ==
  ASSUME WindowInv, NEW n \in 1..BlockSize, Fill(n), Len(wire) \in Nat
  PROVE  WindowInv' /\ Position' = Position /\ \A v : Kept(v) => Kept(v)'
<1> DEFINE R == Rotated
           id == R.buffer[R.win.block]
           to == R.win.to
           from == R.win.from
           C == [i \in 1..BlockSize |-> IF i > to /\ i <= to + n THEN taken + i - to ELSE R.mem[id][i]]
<1>1. /\ n <= Smaller(BlockSize - to, Len(wire) - taken) /\ mem' = [R.mem EXCEPT ![id] = C] /\ buffer' = R.buffer
      /\ win' = [R.win EXCEPT !.to = @ + n] /\ taken' = taken + n /\ wire' = wire
  BY DEF Fill, client
<1>2. PICK N : Framed(R.mem, R.buffer, R.win, Position, N)
  BY RotatedLemma
<1>3. /\ to - from = win.to - win.from
      /\ \A v : Kept(v) => KeptIn(R.mem, R.buffer, R.win, v)
  BY RotatedLemma
<1> HIDE DEF R
<1>4. /\ Listed(R.mem, R.buffer, N) /\ N \in Nat /\ R.mem \in [1..N -> Cells] /\ R.buffer \in [1..N -> 1..N]
      /\ R.win \in [block : 1..N, from : 0..BlockSize, to : 0..BlockSize] /\ from <= to
      /\ \A i \in 1..(to - from) : R.mem[id][from + i] = Position + i
  BY <1>2 DEF Framed, Listed
<1>5. R.win.block \in 1..N /\ from \in 0..BlockSize /\ to \in 0..BlockSize
  BY <1>4
<1>6. id \in 1..N /\ R.mem[id] \in Cells
  BY <1>4, <1>5
<1>7. BlockSize \in Nat /\ taken \in Nat /\ taken <= Len(wire) /\ Position \in Nat /\ Position = taken - (to - from)
  BY <1>3, MessageAssumption DEF WindowInv, Position
<1>8. win' = [block |-> R.win.block, from |-> from, to |-> to + n]
  BY <1>1, <1>4
<1>9. win'.block = R.win.block /\ win'.from = from /\ win'.to = to + n
  BY <1>8
<1>10. n <= BlockSize - to /\ n <= Len(wire) - taken
  <2> DEFINE x == BlockSize - to
             y == Len(wire) - taken
  <2>1. x \in Int /\ y \in Int /\ n <= Smaller(x, y) /\ n \in Int
    <3>1. n <= Smaller(x, y)
      BY <1>1
    <3> HIDE DEF to
    <3>2. x \in Int
      BY <1>5, <1>7
    <3>3. y \in Int
      BY <1>7
    <3> QED BY <3>1, <3>2, <3>3
  <2> HIDE DEF x, y
  <2>2. n <= x /\ n <= y
    BY <2>1 DEF Smaller
  <2> QED BY <2>2 DEF x, y
<1> HIDE DEF to, from, id
<1>11. C \in Cells
  <2>1. ASSUME NEW i \in 1..BlockSize PROVE (IF i > to /\ i <= to + n THEN taken + i - to ELSE R.mem[id][i]) \in Nat
    <3>1. R.mem[id][i] \in Nat
      BY <1>6 DEF Cells
    <3>2. i > to => taken + i - to \in Nat
      BY <1>5, <1>7
    <3> QED BY <3>1, <3>2
  <2> QED BY <2>1 DEF Cells
<1>12. \A i \in 1..BlockSize : C[i] = IF i > to /\ i <= to + n THEN taken + i - to ELSE R.mem[id][i]
  OBVIOUS
<1> HIDE DEF C
<1>13. mem' \in [1..N -> Cells] /\ mem'[id] = C /\ \A a \in 1..N : a # id => mem'[a] = R.mem[a]
  BY <1>1, <1>4, <1>6, <1>11
<1>14. Active' = id
  BY <1>1, <1>9 DEF Active, id
<1>15. Position' = Position /\ win'.to - win'.from = (to - from) + n
  <2>1. win'.to - win'.from = (to - from) + n
    <3>1. to \in Int /\ from \in Int /\ n \in Int
      BY <1>5, <1>7
    <3>2. (to + n) - from = (to - from) + n
      BY <3>1
    <3> QED BY <1>9, <3>2
  <2>2. Position' = (taken + n) - ((to - from) + n)
    <3>1. Position' = taken' - (win'.to - win'.from)
      BY DEF Position
    <3>2. taken' = taken + n
      BY <1>1
    <3> QED BY <2>1, <3>1, <3>2
  <2>3. (taken + n) - ((to - from) + n) = taken - (to - from)
    <3>1. to \in Int /\ from \in Int /\ n \in Int /\ taken \in Int
      BY <1>5, <1>7
    <3> QED BY <3>1
  <2> QED BY <1>7, <2>1, <2>2, <2>3
<1>16. ASSUME NEW i \in 1..((to - from) + n)
       PROVE  mem'[id][from + i] = Position + i
  <2>1. from + i \in 1..BlockSize
    BY <1>4, <1>5, <1>7, <1>10
  <2>2. CASE i <= to - from
    <3>1. i \in 1..(to - from) /\ ~(from + i > to)
      BY <1>5, <1>7, <2>2
    <3>2. C[from + i] = R.mem[id][from + i]
      BY <1>12, <2>1, <3>1
    <3> QED BY <1>4, <1>13, <3>1, <3>2
  <2>3. CASE ~(i <= to - from)
    <3>1. from + i > to /\ from + i <= to + n /\ taken + (from + i) - to = Position + i
      BY <1>4, <1>5, <1>7, <2>3
    <3>2. C[from + i] = taken + (from + i) - to
      BY <1>12, <2>1, <3>1
    <3> QED BY <1>13, <3>1, <3>2
  <2> QED BY <2>2, <2>3
<1>17. Framed(mem', buffer', win', Position', N)
  <2>1. Listed(mem', buffer', N)
    <3>1. /\ N \in Nat /\ R.buffer \in [1..N -> 1..N] /\ (\A i, j \in 1..N : R.buffer[i] = R.buffer[j] => i = j)
          /\ \A a \in 1..N : \E i \in 1..N : R.buffer[i] = a
      BY <1>4, Zenon DEF Listed
    <3> QED BY <1>1, <1>13, <3>1, Zenon DEF Listed
  <2>2. to + n \in 0..BlockSize /\ from <= to + n
    BY <1>4, <1>5, <1>7, <1>10
  <2>3. win' \in [block : 1..N, from : 0..BlockSize, to : 0..BlockSize] /\ win'.from <= win'.to
    BY <1>5, <1>8, <2>2
  <2>4. \A i \in 1..(win'.to - win'.from) : mem'[buffer'[win'.block]][win'.from + i] = Position' + i
    <3>1. buffer'[win'.block] = id
      BY <1>14 DEF Active
    <3> QED BY <1>9, <1>15, <1>16, <3>1
  <2> QED BY <2>1, <2>3, <2>4 DEF Framed
<1>18. WindowInv'
  <2>1. mem' \in Seq([1..BlockSize -> Nat]) /\ buffer' \in Seq(Nat) /\ Len(buffer') = N /\ Len(mem') = N
    BY <1>17, FramedSeq
  <2>2. /\ (\A i, j \in 1..Len(buffer') : buffer'[i] = buffer'[j] => i = j)
        /\ (\A a \in 1..Len(mem') : \E i \in 1..Len(buffer') : buffer'[i] = a)
        /\ \A i \in 1..Len(buffer') : buffer'[i] \in 1..Len(mem')
    BY <1>17, <2>1 DEF Framed, Listed
  <2>3. /\ win' \in [block : 1..Len(buffer'), from : 0..BlockSize, to : 0..BlockSize] /\ win'.from <= win'.to
        /\ \A i \in 1..(win'.to - win'.from) : mem'[Active'][win'.from + i] = Position' + i
    BY <1>17, <2>1 DEF Framed, Active
  <2>4. taken' \in Nat /\ taken' <= Len(wire') /\ Position' \in Nat
    BY <1>1, <1>7, <1>10, <1>15
  <2> QED BY <2>1, <2>2, <2>3, <2>4 DEF WindowInv
<1>19. ASSUME NEW v, Kept(v) PROVE Kept(v)'
  <2>1. KeptIn(R.mem, R.buffer, R.win, v)
    BY <1>3, <1>19
  <2>2. v \in ViewType /\ v.at + v.len <= BlockSize /\ \A i \in 1..v.len : R.mem[v.blk][v.at + i] = v.pos + i - 1
    BY <2>1 DEF KeptIn
  <2>3. PICK c \in 1..R.win.block : R.buffer[c] = v.blk /\ (c = R.win.block => v.at + v.len <= from)
    BY <2>1 DEF KeptIn, from
  <2>4. c \in 1..N /\ v.blk \in 1..N
    <3> DEFINE w == R.win.block
    <3>1. c \in 1..w /\ w \in 1..N /\ N \in Nat
      BY <1>4, <1>5
    <3> HIDE DEF w
    <3>2. c \in 1..N
      BY <3>1
    <3> QED BY <1>4, <2>3, <3>2
  <2>5. v.at \in Nat /\ v.len \in Nat
    BY <2>2 DEF ViewType
  <2>6. \A i \in 1..v.len : mem'[v.blk][v.at + i] = v.pos + i - 1
    <3>1. CASE v.blk # id
      <4>1. mem'[v.blk] = R.mem[v.blk]
        BY <1>13, <2>4, <3>1
      <4> QED BY <2>2, <4>1
    <3>2. CASE v.blk = id
      <4>1. c = R.win.block
        <5>1. \A i, j \in 1..N : R.buffer[i] = R.buffer[j] => i = j
          BY <1>4 DEF Listed
        <5>2. R.buffer[c] = R.buffer[R.win.block]
          BY <2>3, <3>2 DEF id
        <5> QED BY <1>5, <2>4, <5>1, <5>2
      <4>2. v.at + v.len <= from
        BY <2>3, <4>1
      <4> SUFFICES ASSUME NEW i \in 1..v.len PROVE mem'[v.blk][v.at + i] = v.pos + i - 1
        OBVIOUS
      <4> DEFINE x == v.at
                 y == v.len
      <4>3. x \in Nat /\ y \in Nat /\ i \in 1..y /\ x + y <= from
        BY <2>5, <4>2
      <4> HIDE DEF x, y
      <4>4. x + i \in 1..BlockSize /\ ~(x + i > to)
        BY <1>4, <1>5, <1>7, <4>3
      <4>5. C[x + i] = R.mem[id][x + i]
        BY <1>12, <4>4
      <4>6. mem'[v.blk][x + i] = R.mem[v.blk][x + i]
        BY <1>13, <3>2, <4>5
      <4> QED BY <2>2, <4>6 DEF x
    <3> QED BY <3>1, <3>2
  <2>7. Intact(v)'
    BY <2>6 DEF Intact
  <2>8. \E e \in 1..win'.block : buffer'[e] = v.blk /\ (e = win'.block => v.at + v.len <= win'.from)
    BY <1>1, <1>9, <2>3
  <2> QED BY <2>2, <2>7, <2>8 DEF Kept
<1> QED BY <1>15, <1>18, <1>19

-----------------------------------------------------------------------------
(* The steps of the server. *)

\* Which line of which request the reader waits for.
LEMMA Standing ==
  ASSUME IInv
  PROVE  /\ script \in Scripts /\ Len(script) \in Nat /\ Len(served) \in Nat /\ served \in Seq(Nat)
         /\ Current \in 1..(Len(script) + 1) /\ Current = Len(served) + 1
         /\ AtLine /\ Current <= Len(script) => Stands(Current, 1)
         /\ AtLine /\ ~(Current <= Len(script)) => Position = StartOf(Len(script) + 1) - 1 /\ Len(served) = Len(script)
         /\ AtRest => /\ Current \in 1..Len(script)
                      /\ \E m \in 1..Len(script[Current].lines) : Parsed(m) /\ Stands(Current, m + 1)
<1> DEFINE L == Len(script)
           k == Current
<1>1. script \in Scripts /\ L \in Nat
  BY StartLemma DEF IInv, ClientInv
<1>2. served \in Seq(Nat) /\ Len(served) \in Nat /\ Len(served) <= L
  BY DEF IInv, Answered
<1>3. k = Len(served) + 1
  BY DEF Current
<1>4. k \in 1..(L + 1) /\ (k <= L => k \in 1..L) /\ (~(k <= L) => k = L + 1 /\ Len(served) = L)
  <2> HIDE DEF k, L
  <2> QED BY <1>1, <1>2, <1>3
<1>5. ASSUME k <= L PROVE StartOf(k) \in Nat /\ Whole(script[k])
  BY <1>1, <1>4, <1>5, StartLemma
<1>6. ASSUME AtLine, k <= L PROVE Stands(k, 1)
  <2>1. Position = StartOf(k) - 1
    BY <1>6 DEF IInv, ReaderInv
  <2>2. LineAt(script[k], 1) = 0 /\ Len(script[k].lines) \in Nat \ {0}
    BY <1>5, <1>6, LinesLemma
  <2>3. 1 \in Lines(script[k])
    BY <2>2 DEF Lines
  <2>4. Position = StartOf(k) - 1 + LineAt(script[k], 1)
    BY <1>5, <1>6, <2>1, <2>2
  <2> QED BY <1>4, <1>6, <2>3, <2>4 DEF Stands
<1>7. ASSUME AtLine, ~(k <= L) PROVE Position = StartOf(L + 1) - 1 /\ Len(served) = L
  BY <1>4, <1>7 DEF IInv, ReaderInv
<1>8. ASSUME AtRest PROVE k \in 1..L /\ \E m \in 1..Len(script[k].lines) : Parsed(m) /\ Stands(k, m + 1)
  <2>1. k <= L
    BY <1>8 DEF IInv, ReaderInv
  <2>2. k \in 1..L
    BY <1>4, <2>1
  <2>3. PICK m \in 1..Len(script[k].lines) : Parsed(m) /\ Position = StartOf(k) - 1 + LineAt(script[k], m + 1)
    BY <1>8 DEF IInv, ReaderInv
  <2>4. m + 1 \in Lines(script[k])
    <3>1. Len(script[k].lines) \in Nat
      BY <1>5, <2>1, LinesLemma
    <3> QED BY <3>1 DEF Lines
  <2>5. Stands(k, m + 1)
    BY <2>2, <2>3, <2>4 DEF Stands
  <2> QED BY <2>2, <2>3, <2>5
<1> QED BY <1>1, <1>2, <1>3, <1>4, <1>6, <1>7, <1>8

\* A connection that closes owes no more of its reader.
LEMMA ClosedReader ==
  ASSUME IInv, raw' = raw, pc' \in {"close", "closed"}
  PROVE  ReaderInv'
<1>1. (raw \in [size : Int, cap : Int, gen : Int] /\ raw.size <= raw.cap)'
  BY DEF IInv, ReaderInv
<1>2. AtClose' /\ ~AtLine' /\ ~AtRest' /\ ~Filling' /\ pc' # "serve"
  BY DEF AtClose, AtLine, AtRest, Filling
<1> QED BY <1>1, <1>2 DEF ReaderInv

\* What was answered stays answered; a request that asked to close was the last.
LEMMA AnsweredStays ==
  ASSUME IInv, UNCHANGED <<script, served>>, ~AtClose
  PROVE  Answered' /\ ~(Len(served) > 0 /\ script[Len(served)].close) /\ err = "none"
<1>1. \A k : StartOf(k)' = StartOf(k)
  BY ScriptStays
<1>2. ~(Len(served) > 0 /\ script[Len(served)].close)
  BY DEF IInv, Answered
<1>3. Answered'
  BY <1>1, <1>2 DEF IInv, Answered
<1>4. err = "none"
  BY DEF IInv, Closing
<1> QED BY <1>2, <1>3, <1>4

\* read() begins.
LEMMA ReadKeeps ==
  ASSUME IInv, Read
  PROVE  IInv'
<1>1. pc = "read" /\ Compact /\ headers' = {} /\ pc' = "line" /\ UNCHANGED <<client, taken, line, raw, err, served>>
  BY DEF Read
<1>2. script' = script /\ wire' = wire
  BY <1>1 DEF client
<1>3. ClientInv'
  BY <1>1, ClientStays DEF IInv
<1>4. WindowInv' /\ Position' = Position
  BY <1>1, <1>2, CompactKeeps DEF IInv
<1>5. ~AtClose /\ AtLine /\ AtLine' /\ ~AtClose' /\ ~AtRest' /\ ~Filling' /\ pc' # "serve"
  BY <1>1 DEF AtClose, AtLine, AtRest, Filling
<1>6. Answered' /\ ~(Len(served) > 0 /\ script[Len(served)].close) /\ err = "none"
  BY <1>1, <1>2, <1>5, AnsweredStays
<1>7. Closing'
  BY <1>1, <1>5, <1>6 DEF Closing
<1>8. Position' = StartOf(Current)' - 1
  <2>1. Position = StartOf(Current) - 1
    BY <1>5 DEF IInv, ReaderInv
  <2>2. Current' = Current
    BY <1>1 DEF Current
  <2>3. StartOf(Current)' = StartOf(Current)
    BY <1>2, <2>2, ScriptStays
  <2> QED BY <1>4, <2>1, <2>3
<1>9. ReaderInv'
  <2>1. (raw \in [size : Int, cap : Int, gen : Int] /\ raw.size <= raw.cap)'
    BY <1>1 DEF IInv, ReaderInv
  <2> QED BY <1>1, <1>5, <1>8, <2>1 DEF ReaderInv
<1> QED BY <1>3, <1>4, <1>6, <1>7, <1>9 DEF IInv

\* The connection is given up.
LEMMA DeregisterKeeps ==
  ASSUME IInv, Deregister
  PROVE  IInv'
<1>1. pc = "close" /\ pc' = "closed" /\ UNCHANGED <<client, window, parsed, err, served>>
  BY DEF Deregister
<1>2. UNCHANGED <<script, wire, taken, mem, buffer, win, raw>>
  BY <1>1 DEF client, window, parsed
<1>3. ClientInv'
  BY <1>1, ClientStays DEF IInv
<1>4. WindowInv'
  BY <1>2 DEF IInv, WindowInv, Position, Active
<1>5. ReaderInv'
  BY <1>1, <1>2, ClosedReader
<1>6. AtClose /\ AtClose'
  BY <1>1 DEF AtClose
<1>7. \A k : StartOf(k)' = StartOf(k)
  BY <1>2, ScriptStays
<1>8. Answered'
  BY <1>1, <1>2, <1>6, <1>7 DEF IInv, Answered
<1>9. Closing'
  BY <1>1, <1>2, <1>6 DEF IInv, Closing, Current
<1> QED BY <1>3, <1>4, <1>5, <1>8, <1>9 DEF IInv

\* A reader that waits for octets has not all of its line.
LEMMA Unfinished ==
  ASSUME IInv, Filling
  PROVE  \/ Len(Window) = 0 /\ Len(served) = Len(script)
         \/ /\ Current \in 1..Len(script)
            /\ \E m : /\ Stands(Current, m) /\ Len(Window) < LineLen(script[Current], m) + 2
                      /\ m > 1 => Parsed(m - 1)
<1>1. LineEnds(Window) = {} /\ ClientInv /\ WindowInv
  BY DEF IInv, ReaderInv
<1>2. AtLine \/ AtRest
  BY DEF Filling, AtLine, AtRest
<1>3. Current \in 1..(Len(script) + 1) /\ Len(script) \in Nat
  BY Standing
<1>4. ASSUME NEW m, Stands(Current, m) PROVE Len(Window) < LineLen(script[Current], m) + 2
  <2> DEFINE r == script[Current]
  <2>1. Reads(Window, r, m)
    BY <1>1, <1>4, StandsReads
  <2>2. Len(Window) < EndAt(r, m, m) + 1
    BY <1>1, <2>1, WindowEnds
  <2>3. After(r, m, m)
    BY <2>1 DEF Reads, After, Lines
  <2>4. EndAt(r, m, m) = BeginAt(r, m, m) + LineLen(r, m) /\ BeginAt(r, m, m) = 1 /\ LineLen(r, m) \in Nat
    BY <2>1, <2>3, WindowLines
  <2>5. Len(Window) \in Nat
    BY <2>1 DEF Reads
  <2> DEFINE e == EndAt(r, m, m)
             l == LineLen(r, m)
             w == Len(Window)
  <2>6. e = 1 + l /\ l \in Nat /\ w \in Nat /\ w < e + 1
    BY <2>2, <2>4, <2>5
  <2> HIDE DEF e, l, w
  <2>7. w < l + 2
    BY <2>6
  <2> QED BY <2>7 DEF w, l
<1>5. CASE AtLine /\ ~(Current <= Len(script))
  <2>1. Position = StartOf(Len(script) + 1) - 1 /\ Len(served) = Len(script)
    BY <1>5, Standing
  <2>2. Len(Window) = 0
    BY <1>1, <2>1, NothingBehind
  <2> QED BY <2>1, <2>2
<1>6. CASE AtLine /\ Current <= Len(script)
  <2>1. Stands(Current, 1)
    BY <1>6, Standing
  <2>2. Len(Window) < LineLen(script[Current], 1) + 2
    BY <1>4, <2>1
  <2>3. Current \in 1..Len(script) /\ ~(1 > 1)
    BY <1>3, <1>6
  <2> QED BY <2>1, <2>2, <2>3
<1>7. CASE AtRest
  <2>1. Current \in 1..Len(script)
    BY <1>7, Standing
  <2>2. PICK m \in 1..Len(script[Current].lines) : Parsed(m) /\ Stands(Current, m + 1)
    BY <1>7, Standing
  <2>3. Len(Window) < LineLen(script[Current], m + 1) + 2
    BY <1>4, <2>2
  <2>4. (m + 1) - 1 = m
    OBVIOUS
  <2> QED BY <2>1, <2>2, <2>3, <2>4
<1> QED BY <1>2, <1>5, <1>6, <1>7

\* read() refuses for want of room only a request with a line that is longer
\* than a block.
LEMMA TooLongLemma ==
  ASSUME IInv, Filling, TooLong
  PROVE  Current <= Len(script) /\ ~Deliverable(script[Current])
<1>1. ClientInv /\ WindowInv
  BY DEF IInv
<1>2. Len(Window) = BlockSize /\ BlockSize \in Nat /\ BlockSize > 0
  <2>1. Len(Window) = win.to - win.from /\ BlockSize \in Nat /\ BlockSize > 0
    BY <1>1, WindowIs, MessageAssumption
  <2>2. win.to = BlockSize /\ win.from = 0
    BY DEF TooLong, Full
  <2> QED BY <2>1, <2>2
<1>3. PICK m : /\ Current \in 1..Len(script) /\ Stands(Current, m) /\ Len(Window) < LineLen(script[Current], m) + 2
               /\ m > 1 => Parsed(m - 1)
  BY <1>2, Unfinished
<1> DEFINE r == script[Current]
<1>4. Whole(r) /\ m \in Lines(r) /\ Len(script) \in Nat
  <2>1. Reads(Window, r, m)
    BY <1>1, <1>3, StandsReads
  <2> QED BY <2>1, Standing DEF Reads
<1>5. Len(r.lines) \in Nat \ {0} /\ \A i \in 1..Len(r.lines) : r.lines[i] \in 1..BlockSize
  BY <1>4, LinesLemma
<1>6. CASE m <= Len(r.lines)
  <2>1. m \in 1..Len(r.lines) /\ LineLen(r, m) = r.lines[m]
    BY <1>4, <1>6 DEF Lines, LineLen
  <2>2. r.lines[m] \in Nat /\ BlockSize < r.lines[m] + 2
    BY <1>2, <1>3, <1>5, <2>1
  <2>3. m \in DOMAIN r.lines
    <3>1. r.lines \in Seq(1..BlockSize)
      BY <1>4 DEF Whole, Request
    <3> QED BY <2>1, <3>1
  <2>4. ~(r.lines[m] + 2 <= BlockSize)
    BY <1>2, <2>2
  <2>5. ~Deliverable(r)
    BY <2>3, <2>4 DEF Deliverable
  <2> QED BY <1>3, <1>4, <2>5
<1>7. CASE ~(m <= Len(r.lines))
  <2>1. m = Len(r.lines) + 1 /\ m > 1 /\ LineLen(r, m) = 0
    BY <1>4, <1>5, <1>7 DEF Lines, LineLen
  <2>2. Parsed(m - 1) /\ 1 \in 1..(m - 1) /\ 1 \in 1..Len(r.lines)
    BY <1>3, <1>5, <2>1
  <2>3. Fits(r, 1)
    BY <2>2 DEF Parsed
  <2>4. r.lines[1] + 2 <= BlockSize /\ r.lines[1] \in 1..BlockSize
    BY <1>5, <2>2, <2>3 DEF Fits
  <2>5. BlockSize < 2
    BY <1>2, <1>3, <2>1
  <2>6. FALSE
    BY <1>2, <2>4, <2>5
  <2> QED BY <2>6
<1> QED BY <1>6, <1>7

\* The end of the stream comes after the last request was answered.
LEMMA EndLemma ==
  ASSUME IInv, Filling, taken = Len(wire), sent = Len(script)
  PROVE  Len(served) = Len(script)
<1> SUFFICES ASSUME NEW m, Current \in 1..Len(script), Stands(Current, m), Len(Window) < LineLen(script[Current], m) + 2
             PROVE  FALSE
  BY Unfinished
<1> DEFINE r == script[Current]
           L == Len(script)
           k == Current
<1>1. ClientInv /\ WindowInv /\ script \in Scripts /\ L \in Nat
  BY Standing DEF IInv
<1>2. Len(wire) = StartOf(L + 1) - 1
  BY <1>1, WireBound
<1>3. Position + Len(Window) = taken /\ Len(Window) \in Nat /\ Position \in Nat
  BY <1>1, WindowIs, MessageAssumption
<1>4. Whole(r) /\ m \in Lines(r) /\ Position = StartOf(k) - 1 + LineAt(r, m)
  <2>1. Reads(Window, r, m)
    BY <1>1, StandsReads
  <2> QED BY <2>1 DEF Reads, Stands
<1>5. /\ LineAt(r, m) \in Nat /\ LineTo(r, m) \in Nat /\ LineLen(r, m) \in Nat /\ LineTo(r, m) + 2 <= HeadLen(r)
      /\ LineTo(r, m) = LineAt(r, m) + LineLen(r, m)
  BY <1>4, LinesLemma DEF LineTo
<1>6. StartOf(k) \in Nat /\ StartOf(L + 1) \in Nat /\ HeadLen(r) \in Nat /\ StartOf(k) + HeadLen(r) <= StartOf(L + 1)
  <2>1. k \in 1..(L + 1) /\ L + 1 \in 1..(L + 1) /\ k < L + 1
    BY <1>1
  <2> QED BY <1>1, <2>1, StartLemma
<1> DEFINE p == StartOf(k)
           q == StartOf(L + 1)
           h == HeadLen(r)
           la == LineAt(r, m)
           lt == LineTo(r, m)
           ll == LineLen(r, m)
           w == Len(Window)
<1>7. /\ p \in Nat /\ q \in Nat /\ h \in Nat /\ la \in Nat /\ lt \in Nat /\ ll \in Nat /\ w \in Nat
      /\ p + h <= q /\ lt + 2 <= h /\ lt = la + ll /\ (p - 1 + la) + w = q - 1 /\ w < ll + 2
  BY <1>2, <1>3, <1>4, <1>5, <1>6
<1> HIDE DEF p, q, h, la, lt, ll, w
<1> QED BY <1>7

\* read() fails, and the connection closes with its error.
LEMMA FailKeeps ==
  ASSUME IInv, ~AtClose, pc' = "close", UNCHANGED <<client, window, raw, served>>,
         err' \in {"illegal_byte_sequence", "not_connected", "connection_reset"},
         err' = "illegal_byte_sequence" => Current <= Len(script) /\ ~Deliverable(script[Current]),
         err' = "not_connected" => Len(served) = Len(script)
  PROVE  IInv'
<1>1. UNCHANGED <<script, wire, taken, mem, buffer, win, raw, served>>
  BY DEF client, window
<1>2. ClientInv'
  BY ClientStays DEF IInv
<1>3. WindowInv'
  BY <1>1 DEF IInv, WindowInv, Position, Active
<1>4. ReaderInv'
  BY <1>1, ClosedReader
<1>5. AtClose'
  BY DEF AtClose
<1>6. Answered'
  BY <1>1, <1>5, AnsweredStays
<1>7. Closing'
  BY <1>1, <1>5 DEF Closing, Current
<1> QED BY <1>2, <1>3, <1>4, <1>6, <1>7 DEF IInv

\* fill() refuses a line or meets the end of the stream.
LEMMA FillFailsKeeps ==
  ASSUME IInv, NEW e \in {"illegal_byte_sequence", "not_connected"}, FillFails(e)
  PROVE  IInv'
<1>1. /\ Filling /\ (e = "illegal_byte_sequence" <=> TooLong) /\ (e = "not_connected" => taken = Len(wire) /\ sent = Len(script))
      /\ err' = e /\ pc' = "close" /\ UNCHANGED <<client, window, parsed, served>>
  BY DEF FillFails
<1>2. e = "illegal_byte_sequence" => Current <= Len(script) /\ ~Deliverable(script[Current])
  BY <1>1, TooLongLemma
<1>3. e = "not_connected" => Len(served) = Len(script)
  BY <1>1, EndLemma
<1>4. ~AtClose /\ raw' = raw
  BY <1>1 DEF AtClose, Filling, parsed
<1> QED BY <1>1, <1>2, <1>3, <1>4, FailKeeps

\* fill() meets an error of the transport.
LEMMA FillResetKeeps ==
  ASSUME IInv, FillReset
  PROVE  IInv'
<1>1. Filling /\ err' = "connection_reset" /\ pc' = "close" /\ UNCHANGED <<client, window, parsed, served>>
  BY DEF FillReset
<1>2. ~AtClose /\ raw' = raw
  BY <1>1 DEF AtClose, Filling, parsed
<1> QED BY <1>1, <1>2, FailKeeps

\* fill() reads on.
LEMMA FillKeeps ==
  ASSUME IInv, NEW n \in 1..BlockSize, Fill(n)
  PROVE  IInv'
<1>1. /\ Filling /\ pc' = (IF pc = "fill_line" THEN "line" ELSE "rest") /\ UNCHANGED <<client, parsed, err, served>>
  BY DEF Fill
<1>2. UNCHANGED <<script, wire, line, raw, headers, err, served>>
  BY <1>1 DEF client, parsed
<1>3. ClientInv'
  BY <1>1, ClientStays DEF IInv
<1>4. Len(wire) \in Nat
  BY DEF IInv, ClientInv, WireOK
<1>5. WindowInv' /\ Position' = Position /\ \A v : Kept(v) => Kept(v)'
  BY <1>4, FillWindow DEF IInv
<1>6. ~AtClose /\ ~AtClose' /\ ~Filling' /\ (AtLine' <=> AtLine) /\ (AtRest' <=> AtRest) /\ pc' # "serve" /\ (AtLine => pc # "read") /\ (AtLine \/ AtRest)
  BY <1>1 DEF Filling, AtClose, AtLine, AtRest
<1>7. Answered' /\ err = "none" /\ ~(Len(served) > 0 /\ script[Len(served)].close)
  BY <1>2, <1>6, AnsweredStays
<1>8. Closing'
  BY <1>2, <1>6, <1>7 DEF Closing
<1>9. Current' = Current /\ StartOf(Current)' = StartOf(Current)
  <2>1. Current' = Current
    BY <1>2 DEF Current
  <2> QED BY <1>2, <2>1, ScriptStays
<1>10. ReaderInv'
  <2>1. (raw \in [size : Int, cap : Int, gen : Int] /\ raw.size <= raw.cap)'
    BY <1>2 DEF IInv, ReaderInv
  <2>2. AtLine' => Position' = StartOf(Current)' - 1 /\ headers' = {}
    BY <1>2, <1>5, <1>6, <1>9 DEF IInv, ReaderInv
  <2>3. AtRest' => /\ Current' <= Len(script')
                   /\ \E m \in 1..Len(script'[Current'].lines) :
                        Parsed(m)' /\ Position' = StartOf(Current)' - 1 + LineAt(script'[Current'], m + 1)
    <3> SUFFICES ASSUME AtRest
                 PROVE  /\ Current' <= Len(script')
                        /\ \E m \in 1..Len(script'[Current'].lines) :
                             Parsed(m)' /\ Position' = StartOf(Current)' - 1 + LineAt(script'[Current'], m + 1)
      BY <1>6
    <3>1. Current <= Len(script)
      BY DEF IInv, ReaderInv
    <3>2. PICK m \in 1..Len(script[Current].lines) : Parsed(m) /\ Position = StartOf(Current) - 1 + LineAt(script[Current], m + 1)
      BY DEF IInv, ReaderInv
    <3>3. Parsed(m)'
      BY <1>2, <1>5, <3>2, ParsedStays
    <3> QED BY <1>2, <1>5, <1>9, <3>1, <3>2, <3>3
  <2> QED BY <1>6, <2>1, <2>2, <2>3 DEF ReaderInv
<1> QED BY <1>3, <1>5, <1>7, <1>8, <1>10 DEF IInv

\* The service answers.
LEMMA ServeKeeps ==
  ASSUME IInv, Serve
  PROVE  IInv'
<1> DEFINE k == Current
           r == script[k]
           L == Len(script)
<1>1. /\ pc = "serve" /\ served' = Append(served, line.view.pos)
      /\ pc' = (IF RequestAt(line.view.pos).close THEN "close" ELSE "read")
      /\ UNCHANGED <<client, window, parsed, err>>
  BY DEF Serve
<1>2. UNCHANGED <<script, wire, taken, mem, buffer, win, raw, err>>
  BY <1>1 DEF client, window, parsed
<1>3. ClientInv'
  BY <1>1, ClientStays DEF IInv
<1>4. WindowInv'
  BY <1>2 DEF IInv, WindowInv, Position, Active
<1>5. k <= L /\ Parsed(Len(r.lines)) /\ r.bad = 0 /\ Position = StartOf(k + 1) - 1
  BY <1>1 DEF IInv, ReaderInv
<1>6. script \in Scripts /\ L \in Nat /\ Len(served) \in Nat /\ served \in Seq(Nat) /\ k \in 1..(L + 1) /\ k = Len(served) + 1
  BY Standing
<1>7. k \in 1..L
  BY <1>5, <1>6
<1>8. Whole(r) /\ StartOf(k) \in Nat
  BY <1>6, <1>7, StartLemma
<1>9. line.view.pos = StartOf(k)
  <2>1. SpanOf(line.view) = Span(k, 1)
    BY <1>5 DEF Parsed
  <2>2. line.view.pos = StartOf(k) + LineAt(r, 1)
    BY <2>1 DEF SpanOf, Span
  <2>3. LineAt(r, 1) = 0
    BY <1>8, LinesLemma
  <2> QED BY <1>8, <2>2, <2>3
<1>10. RequestAt(line.view.pos) = r
  BY <1>6, <1>7, <1>9, RequestAtLemma
<1>11. /\ served' \in Seq(Nat) /\ Len(served') = k /\ served'[k] = StartOf(k)
       /\ \A j \in 1..Len(served) : served'[j] = served[j]
  BY <1>1, <1>6, <1>8, <1>9, AppendProperties
<1>12. Deliverable(r)
  <2>1. \A i \in 1..Len(r.lines) : r.lines[i] + 2 <= BlockSize
    BY <1>5 DEF Parsed, Fits
  <2>2. DOMAIN r.lines = 1..Len(r.lines)
    BY <1>8 DEF Whole, Request
  <2> QED BY <1>5, <2>1, <2>2 DEF Deliverable
<1>13. ~AtClose
  BY <1>1 DEF AtClose
<1>14. err = "none" /\ ~(Len(served) > 0 /\ script[Len(served)].close)
  BY <1>13 DEF IInv, Closing, Answered
<1>15. \A j : StartOf(j)' = StartOf(j)
  BY <1>2, ScriptStays
<1>16. pc' = IF r.close THEN "close" ELSE "read"
  BY <1>1, <1>10
<1>17. Answered'
  <2>1. ASSUME NEW j \in 1..Len(served')
        PROVE  served'[j] = StartOf(j)' /\ Deliverable(script'[j]) /\ (j < Len(served') => ~script'[j].close)
    <3>1. CASE j = k
      BY <1>2, <1>6, <1>11, <1>12, <1>15, <3>1
    <3>2. CASE j # k
      <4>1. j \in 1..Len(served)
        <5> HIDE DEF k
        <5> QED BY <1>6, <1>11, <3>2
      <4>2. served[j] = StartOf(j) /\ Deliverable(script[j]) /\ (j < Len(served) => ~script[j].close)
        BY <4>1 DEF IInv, Answered
      <4>3. ~script[j].close
        <5>1. CASE j < Len(served)
          BY <4>2, <5>1
        <5>2. CASE j = Len(served)
          BY <1>6, <1>14, <4>1, <5>2
        <5> QED BY <1>6, <4>1, <5>1, <5>2
      <4> QED BY <1>2, <1>11, <1>15, <4>1, <4>2, <4>3
    <3> QED BY <3>1, <3>2
  <2>2. Len(served') <= Len(script')
    BY <1>2, <1>5, <1>11
  <2>3. Len(served') > 0 /\ script'[Len(served')].close => AtClose' /\ err' = "none"
    BY <1>2, <1>11, <1>14, <1>16 DEF AtClose
  <2> QED BY <1>11, <2>1, <2>2, <2>3 DEF Answered
<1>18. Closing'
  <2>1. AtClose' => r.close
    BY <1>16 DEF AtClose
  <2>2. Len(served') > 0
    BY <1>6, <1>11
  <2> QED BY <1>2, <1>11, <1>14, <2>1, <2>2 DEF Closing
<1>19. ReaderInv'
  <2>1. CASE r.close
    BY <1>2, <1>16, <2>1, ClosedReader
  <2>2. CASE ~r.close
    <3>1. pc' = "read"
      BY <1>16, <2>2
    <3>2. AtLine' /\ ~AtRest' /\ ~Filling' /\ pc' # "serve"
      BY <3>1 DEF AtLine, AtRest, Filling
    <3>3. Position' = StartOf(Current)' - 1
      <4>1. Current' = k + 1
        BY <1>11 DEF Current
      <4>2. Position' = Position
        BY <1>2 DEF Position
      <4>3. StartOf(Current)' = StartOf(k + 1)
        BY <1>2, <4>1, ScriptStays
      <4> QED BY <1>5, <4>2, <4>3
    <3>4. (raw \in [size : Int, cap : Int, gen : Int] /\ raw.size <= raw.cap)'
      BY <1>2 DEF IInv, ReaderInv
    <3> QED BY <3>1, <3>2, <3>3, <3>4 DEF ReaderInv
  <2> QED BY <2>1, <2>2
<1> QED BY <1>3, <1>4, <1>17, <1>18, <1>19 DEF IInv

\* A view taken in front of the window.
Front(v, from) ==
  /\ v \in ViewType /\ v.at + v.len <= BlockSize /\ Intact(v)
  /\ v.blk = buffer[win.block] /\ v.at + v.len <= from

\* Octets of the window are consumed.
LEMMA Consumed ==
  ASSUME WindowInv, NEW x \in Nat, win.from + x <= win.to, win' = [win EXCEPT !.from = @ + x], UNCHANGED <<taken, mem, buffer, wire>>
  PROVE  /\ WindowInv' /\ Position' = Position + x
         /\ \A v : Kept(v) \/ Front(v, win.from + x) => Kept(v)'
<1> DEFINE f == win.from
           t == win.to
           q == win.block
<1>1. /\ BlockSize \in Nat /\ f \in 0..BlockSize /\ t \in 0..BlockSize /\ f <= t /\ q \in 1..Len(buffer) /\ Len(buffer) \in Nat
      /\ win = [block |-> q, from |-> f, to |-> t]
  BY BlocksLemma
<1>2. win' = [block |-> q, from |-> f + x, to |-> t]
  BY <1>1
<1>3. win'.block = q /\ win'.from = f + x /\ win'.to = t
  BY <1>2
<1>4. taken \in Nat /\ Position \in Nat /\ Position = taken - (t - f) /\ \A i \in 1..(t - f) : mem[Active][f + i] = Position + i
  BY DEF WindowInv, Position
<1>5. f + x <= t
  OBVIOUS
<1> HIDE DEF f, t, q
<1>6. Active' = Active
  BY <1>3 DEF Active, q
<1>7. f + x \in 0..BlockSize /\ t - (f + x) \in Nat
  BY <1>1, <1>5
<1>8. Position' = Position + x
  <2>1. Position' = taken - (t - (f + x))
    BY <1>3 DEF Position
  <2> QED BY <1>1, <1>4, <2>1
<1>9. \A i \in 1..(t - (f + x)) : mem[Active][(f + x) + i] = (Position + x) + i
  <2> SUFFICES ASSUME NEW i \in 1..(t - (f + x)) PROVE mem[Active][(f + x) + i] = (Position + x) + i
    OBVIOUS
  <2>1. x + i \in 1..(t - f) /\ (f + x) + i = f + (x + i) /\ (Position + x) + i = Position + (x + i)
    <3>1. f \in Nat /\ t \in Nat /\ Position \in Nat /\ x \in Nat /\ i \in Nat /\ i > 0 /\ i <= t - (f + x)
      <4> DEFINE z == t - (f + x)
      <4>1. z \in Nat /\ i \in 1..z
        BY <1>7
      <4> HIDE DEF z
      <4>2. i \in Nat /\ i > 0 /\ i <= z
        BY <4>1
      <4>3. f \in Nat /\ t \in Nat
        BY <1>1
      <4> QED BY <1>4, <4>2, <4>3 DEF z
    <3>2. x + i \in 1..(t - f)
      BY <3>1
    <3> QED BY <3>1, <3>2
  <2> QED BY <1>4, <2>1
<1>10. WindowInv'
  <2>1. win' \in [block : 1..Len(buffer'), from : 0..BlockSize, to : 0..BlockSize] /\ win'.from <= win'.to
    BY <1>1, <1>2, <1>3, <1>5, <1>7
  <2>2. Position' \in Nat /\ taken' \in Nat /\ taken' <= Len(wire')
    <3>1. Position' \in Nat
      BY <1>4, <1>8
    <3> QED BY <3>1 DEF WindowInv
  <2>3. \A i \in 1..(win'.to - win'.from) : mem'[Active'][win'.from + i] = Position' + i
    BY <1>3, <1>6, <1>8, <1>9
  <2> QED BY <2>1, <2>2, <2>3 DEF WindowInv
<1>11. ASSUME NEW v, Kept(v) PROVE Kept(v)'
  <2>1. v \in ViewType /\ v.at + v.len <= BlockSize /\ Intact(v)'
    BY <1>11 DEF Kept, Intact
  <2>2. PICK b \in 1..q : buffer[b] = v.blk /\ (b = q => v.at + v.len <= f)
    BY <1>11 DEF Kept, q, f
  <2>3. v.at \in Nat /\ v.len \in Nat
    BY <2>1 DEF ViewType
  <2>4. v.at + v.len <= f => v.at + v.len <= f + x
    <3> DEFINE y == v.at + v.len
    <3>1. y \in Nat
      BY <2>3
    <3> HIDE DEF y
    <3>2. y <= f => y <= f + x
      BY <1>1, <3>1
    <3> QED BY <3>2 DEF y
  <2> QED BY <1>3, <2>1, <2>2, <2>4 DEF Kept
<1>12. ASSUME NEW v, Front(v, f + x) PROVE Kept(v)'
  <2>1. v \in ViewType /\ v.at + v.len <= BlockSize /\ Intact(v)' /\ v.blk = buffer[q] /\ v.at + v.len <= f + x
    BY <1>12 DEF Front, Intact, q
  <2>2. q \in 1..q
    BY <1>1
  <2> QED BY <1>3, <2>1, <2>2 DEF Kept
<1> QED BY <1>8, <1>10, <1>11, <1>12 DEF f

\* The strings percent-decoding appends to.
RawType == [size : Int, cap : Int, gen : Int]
\* reserve() makes room, and none is needed for no octets.
LEMMA ReserveLemma ==
  ASSUME NEW s \in RawType, s.size <= s.cap, NEW n \in Nat
  PROVE  /\ Reserve(s, n) \in RawType /\ Reserve(s, n).size = s.size /\ s.size + n <= Reserve(s, n).cap
         /\ Decoded(s, n, TRUE) \in RawType /\ Decoded(s, n, TRUE).size <= Decoded(s, n, TRUE).cap
         /\ Decoded(s, n, FALSE) \in RawType /\ Decoded(s, n, FALSE).size <= Decoded(s, n, FALSE).cap
         /\ Decoded(s, 0, FALSE) = s
<1>1. s.size \in Int /\ s.cap \in Int /\ s.gen \in Int /\ s = [size |-> s.size, cap |-> s.cap, gen |-> s.gen]
  BY DEF RawType
<1>2. Reserve(s, n) \in RawType /\ Reserve(s, n).size = s.size /\ s.size + n <= Reserve(s, n).cap
  <2>1. CASE s.size + n <= s.cap
    BY <2>1 DEF Reserve
  <2>2. CASE ~(s.size + n <= s.cap)
    <3> DEFINE c == IF s.size + n > 2 * s.cap THEN s.size + n ELSE 2 * s.cap
    <3>1. c \in Int /\ s.size + n <= c
      BY <1>1
    <3>2. Reserve(s, n) = [size |-> s.size, cap |-> c, gen |-> s.gen + 1]
      BY <1>1, <2>2 DEF Reserve
    <3> HIDE DEF c
    <3> QED BY <1>1, <3>1, <3>2 DEF RawType
  <2> QED BY <2>1, <2>2
<1> DEFINE u == Reserve(s, n)
<1>3. u.size \in Int /\ u.cap \in Int /\ u.gen \in Int /\ u.size + n <= u.cap
  BY <1>2 DEF RawType
<1>4. Decoded(s, n, FALSE) = u
  BY DEF Decoded
<1>5. Decoded(s, n, TRUE) = [size |-> u.size + n - 2, cap |-> u.cap, gen |-> u.gen]
  BY <1>2 DEF Decoded, RawType
<1> HIDE DEF u
<1>6. Decoded(s, n, TRUE) \in RawType /\ Decoded(s, n, TRUE).size <= Decoded(s, n, TRUE).cap
  <2> DEFINE z == u.size + n - 2
             D == Decoded(s, n, TRUE)
  <2>1. z \in Int /\ z <= u.cap
    BY <1>3
  <2>2. D = [size |-> z, cap |-> u.cap, gen |-> u.gen]
    BY <1>5
  <2> HIDE DEF z, D
  <2>3. D \in RawType /\ D.size <= D.cap
    BY <1>3, <2>1, <2>2 DEF RawType
  <2> QED BY <2>3 DEF D
<1>7. u \in RawType /\ u.size <= u.cap
  BY <1>2, <1>3 DEF u
<1>8. Decoded(s, 0, FALSE) = s
  BY <1>1 DEF Decoded, Reserve
<1> QED BY <1>2, <1>4, <1>6, <1>7, <1>8

\* Where the path and the query are, by the form of the target.
LEMMA PathLemma ==
  ASSUME NEW q, q.target \in PathForms, NEW v, NEW gen, NEW old, NEW p, p = PathOf(q, v, gen, old)
  PROVE  /\ p.in = "block" => p.view = v
         /\ p.in = "raw" => q.target = "encoded" /\ p.gen = gen
<1>1. CASE q.target \in {"origin", "absolute"}
  <2>1. p = InBlock(v)
    BY <1>1 DEF PathOf
  <2> QED BY <2>1 DEF InBlock
<1>2. CASE q.target = "encoded"
  <2>1. p = InRaw(gen)
    BY <1>2 DEF PathOf
  <2> QED BY <1>2, <2>1 DEF InRaw
<1> QED BY <1>1, <1>2 DEF PathForms

LEMMA QueryLemma ==
  ASSUME NEW q, q.target \in QueryForms, q.query \in Nat, NEW v, NEW old, NEW p, p = QueryOf(q, v, old)
  PROVE  p.in # "raw" /\ (p.in = "block" => p.view = v)
<1>1. CASE q.query > 0
  <2>1. p = InBlock(v)
    BY <1>1 DEF QueryOf
  <2> QED BY <2>1 DEF InBlock
<1>2. CASE q.query = 0
  <2>1. p = Static
    BY <1>2 DEF QueryOf
  <2> QED BY <2>1 DEF Static
<1> QED BY <1>1, <1>2

\* The request line is parsed.
LEMMA LineDone ==
  ASSUME IInv, ParseLine, LineResult(Window) = "ok"
  PROVE  IInv'
<1> DEFINE w == Window
           k == Current
           r == script[k]
           n1 == r.lines[1]
           end == Lowest(LineEnds(w))
<1>0. PICK v : v = View(1, end - 1)
  OBVIOUS
<1> DEFINE q == RequestAt(v.pos)
           ap == IF q.target \in PathForms THEN Decoded(raw, v.len, q.target = "encoded") ELSE raw
<1>1. /\ pc = "line" /\ pc' = "rest"
      /\ line' = [view |-> v, path |-> PathOf(q, v, ap.gen, line.path), query |-> QueryOf(q, v, line.query)]
      /\ raw' = (IF q.target \in QueryForms THEN Decoded(ap, q.query, FALSE) ELSE raw)
      /\ win' = [win EXCEPT !.from = @ + end + 1]
      /\ UNCHANGED <<client, taken, mem, buffer, headers, served, err>>
  BY <1>0 DEF ParseLine
<1>2. UNCHANGED <<script, wire>>
  BY <1>1 DEF client
<1>3. AtLine /\ AtRest' /\ ~AtLine' /\ ~AtClose /\ ~AtClose' /\ ~Filling' /\ pc' # "serve" /\ pc # "read"
  BY <1>1 DEF AtLine, AtRest, AtClose, Filling
<1>4. ClientInv /\ WindowInv /\ script \in Scripts /\ Len(script) \in Nat /\ k \in 1..(Len(script) + 1)
  BY Standing DEF IInv
<1>5. k \in 1..Len(script) /\ Stands(k, 1)
  <2>1. k <= Len(script)
    <3> SUFFICES ASSUME ~(k <= Len(script)) PROVE FALSE
      OBVIOUS
    <3>1. Position = StartOf(Len(script) + 1) - 1
      BY <1>3, Standing
    <3>2. LineResult(Window) = "again"
      BY <1>4, <3>1, NothingBehind
    <3> QED BY <3>2
  <2> QED BY <1>3, <1>4, <2>1, Standing
<1>6. Reads(w, r, 1) /\ Whole(r)
  <2>1. Reads(w, r, 1)
    BY <1>4, <1>5, StandsReads
  <2> QED BY <2>1 DEF Reads
<1>7. n1 \in Nat /\ n1 + 2 <= Len(w) /\ end = n1 + 1 /\ r.bad # 1 /\ Len(w) \in Nat
  <2>1. Len(w) \in Nat /\ n1 \in Nat
    BY <1>6, LineFound DEF Reads
  <2>2. ~(Len(w) < n1 + 2)
    BY <1>6, LineFound
  <2>3. n1 + 2 <= Len(w)
    BY <2>1, <2>2
  <2>4. end = n1 + 1 /\ LineResult(w) = IF r.bad = 1 THEN "illegal" ELSE "ok"
    BY <1>6, <2>3, LineFound
  <2> QED BY <2>1, <2>3, <2>4
<1>8. BeginAt(r, 1, 1) = 1 /\ EndAt(r, 1, 1) = n1 + 1 /\ After(r, 1, 1) /\ 1 <= Len(r.lines)
  <2>1. After(r, 1, 1)
    BY <1>6 DEF Reads, After
  <2>2. EndAt(r, 1, 1) = BeginAt(r, 1, 1) + LineLen(r, 1) /\ BeginAt(r, 1, 1) = 1 /\ Len(r.lines) \in Nat /\ Len(r.lines) > 0
    BY <1>6, <2>1, WindowLines
  <2>3. 1 <= Len(r.lines)
    BY <2>2
  <2>4. LineLen(r, 1) = n1
    BY <2>3 DEF LineLen
  <2> QED BY <1>7, <2>1, <2>2, <2>3, <2>4
<1>9. /\ v \in ViewType /\ v.at + v.len <= BlockSize /\ Intact(v) /\ v.at + v.len = win.from + EndAt(r, 1, 1) - 1
      /\ v.blk = buffer[win.block] /\ SpanOf(v) = Span(k, 1) /\ n1 + 2 <= BlockSize
  <2>1. v = View(BeginAt(r, 1, 1), EndAt(r, 1, 1) - 1)
    BY <1>0, <1>7, <1>8
  <2>2. EndAt(r, 1, 1) + 1 <= Len(w)
    BY <1>7, <1>8
  <2> HIDE DEF r, w
  <2> QED BY <1>4, <1>5, <1>8, <2>1, <2>2, ViewLemma DEF r, w
<1>10. LineAt(r, 1) = 0 /\ LineAt(r, 2) = n1 + 2 /\ StartOf(k) \in Nat /\ Position = StartOf(k) - 1
  <2>1. LineAt(r, 1) = 0 /\ LineAt(r, 1 + 1) = LineTo(r, 1) + 2
    BY <1>6, <1>8, LinesLemma
  <2>2. LineLen(r, 1) = n1
    BY <1>8 DEF LineLen
  <2>3. LineTo(r, 1) = n1
    BY <1>7, <2>1, <2>2 DEF LineTo
  <2>4. StartOf(k) \in Nat
    BY <1>4, StartLemma
  <2>5. Position = StartOf(k) - 1 + LineAt(r, 1)
    BY <1>5 DEF Stands
  <2> QED BY <2>1, <2>3, <2>4, <2>5
<1>11. v.pos = StartOf(k) /\ q = r
  <2>1. v.pos = StartOf(k) + LineAt(r, 1)
    BY <1>9 DEF SpanOf, Span
  <2>2. v.pos = StartOf(k)
    BY <1>10, <2>1
  <2>3. RequestAt(StartOf(k)) = script[k]
    BY <1>4, <1>5, RequestAtLemma
  <2> QED BY <2>2, <2>3
<1>12. /\ win.from \in Nat /\ win.to \in Nat /\ Len(w) = win.to - win.from /\ win = [block |-> win.block, from |-> win.from, to |-> win.to]
  BY <1>4, WindowIs, BlocksLemma
<1> DEFINE x == n1 + 2
<1>13. x \in Nat /\ win.from + x <= win.to /\ win' = [win EXCEPT !.from = @ + x]
  <2> DEFINE f == win.from
             t == win.to
  <2>1. f \in Nat /\ t \in Nat /\ x <= t - f
    BY <1>7, <1>12
  <2>2. win' = [win EXCEPT !.from = f + end + 1]
    BY <1>1
  <2> HIDE DEF f, t, n1, end
  <2>3. f + end + 1 = f + x /\ f + x <= t /\ x \in Nat
    BY <1>7, <2>1
  <2> QED BY <2>2, <2>3 DEF f, t
<1> HIDE DEF x
<1>14. /\ WindowInv' /\ Position' = Position + x
       /\ \A u : Kept(u) \/ Front(u, win.from + x) => Kept(u)'
  BY <1>1, <1>2, <1>4, <1>13, Consumed
<1>15. Kept(v)'
  <2> DEFINE y == v.at + v.len
             f == win.from
  <2>1. y = f + EndAt(r, 1, 1) - 1 /\ EndAt(r, 1, 1) = n1 + 1 /\ f \in Nat /\ n1 \in Nat /\ x = n1 + 2
    BY <1>7, <1>8, <1>9, <1>12 DEF x
  <2> HIDE DEF y, f, n1
  <2>2. y <= f + x
    BY <2>1
  <2>3. Front(v, win.from + x)
    BY <1>9, <2>2 DEF Front, y, f
  <2> QED BY <1>14, <2>3
<1>16. Current' = k /\ (\A j : StartOf(j)' = StartOf(j)) /\ script'[Current'] = r
  <2>1. Current' = k
    BY <1>1 DEF Current
  <2> QED BY <1>2, <2>1, ScriptStays
<1> HIDE DEF k, n1, end
<1>17. v.len \in Nat /\ r \in Request /\ r.query \in Nat /\ raw \in RawType /\ raw.size <= raw.cap
  <2>1. v.len \in Nat
    BY <1>9 DEF ViewType
  <2>2. r \in Request
    BY <1>6 DEF Whole
  <2>3. r.query \in Nat
    BY <2>2 DEF Request
  <2>4. raw \in RawType /\ raw.size <= raw.cap
    BY DEF IInv, ReaderInv, RawType
  <2> QED BY <2>1, <2>2, <2>3, <2>4
<1>18. ap \in RawType /\ ap.size <= ap.cap
  <2>1. CASE ~(q.target \in PathForms)
    BY <1>17, <2>1
  <2>2. CASE q.target = "encoded"
    <3>1. ap = Decoded(raw, v.len, TRUE)
      BY <2>2 DEF PathForms
    <3> QED BY <1>17, <3>1, ReserveLemma
  <2>3. CASE q.target \in PathForms /\ q.target # "encoded"
    <3>1. ap = Decoded(raw, v.len, FALSE)
      BY <2>3
    <3> QED BY <1>17, <3>1, ReserveLemma
  <2> QED BY <2>1, <2>2, <2>3
<1>19. raw' \in RawType /\ raw'.size <= raw'.cap /\ (r.target = "encoded" /\ r.query = 0 => raw' = ap)
  <2>1. CASE ~(q.target \in QueryForms)
    <3>1. r.target # "encoded"
      BY <1>11, <2>1 DEF QueryForms, PathForms
    <3> QED BY <1>1, <1>17, <2>1, <3>1
  <2>2. CASE q.target \in QueryForms
    <3>1. raw' = Decoded(ap, r.query, FALSE)
      BY <1>1, <1>11, <2>2
    <3> HIDE DEF ap
    <3> QED BY <1>17, <1>18, <3>1, ReserveLemma
  <2> QED BY <2>1, <2>2
<1>20. line'.view = v /\ line'.path = PathOf(r, v, ap.gen, line.path) /\ line'.query = QueryOf(r, v, line.query)
  BY <1>1, <1>11
<1> HIDE DEF ap
<1>21. /\ r.target \in PathForms =>
            /\ line'.path.in = "block" => line'.path.view = v
            /\ line'.path.in = "raw" => r.target = "encoded" /\ line'.path.gen = ap.gen
       /\ r.target \in QueryForms => line'.query.in # "raw" /\ (line'.query.in = "block" => line'.query.view = v)
  <2> HIDE DEF r
  <2>1. r.target \in PathForms =>
            /\ line'.path.in = "block" => line'.path.view = v
            /\ line'.path.in = "raw" => r.target = "encoded" /\ line'.path.gen = ap.gen
    BY <1>20, PathLemma
  <2>2. r.target \in QueryForms => line'.query.in # "raw" /\ (line'.query.in = "block" => line'.query.view = v)
    BY <1>17, <1>20, QueryLemma
  <2> QED BY <2>1, <2>2
<1>22. Parsed(1)'
  <2>1. headers' = {}
    BY <1>1, <1>3 DEF IInv, ReaderInv
  <2>2. SpanOf(line.view)' = Span(Current, 1)'
    <3>1. SpanOf(line.view)' = SpanOf(v)
      BY <1>20 DEF SpanOf
    <3>2. Span(Current, 1)' = Span(k, 1)
      BY <1>16 DEF Span, r
    <3> QED BY <1>9, <3>1, <3>2
  <2>3. Kept(line.view)'
    BY <1>15, <1>20, Zenon DEF Kept, Intact
  <2>4. {SpanOf(h) : h \in headers}' = {Span(Current, i) : i \in 2..1}'
    BY <2>1
  <2>5. \A i \in 1..1 : Fits(script'[Current'], i)
    BY <1>7, <1>9, <1>16 DEF Fits, n1
  <2>6. PathHeld(script[Current])'
    BY <1>16, <1>19, <1>20, <1>21 DEF PathHeld
  <2>7. QueryHeld(script[Current])'
    BY <1>16, <1>20, <1>21 DEF QueryHeld
  <2> QED BY <2>1, <2>2, <2>3, <2>4, <2>5, <2>6, <2>7 DEF Parsed
<1>23. ReaderInv'
  <2>1. Position' = StartOf(Current)' - 1 + LineAt(script'[Current'], 1 + 1)
    <3>1. StartOf(Current)' = StartOf(k)
      BY <1>16
    <3>2. StartOf(k) - 1 + x = StartOf(k) - 1 + LineAt(r, 2)
      BY <1>10 DEF x
    <3>3. Position' = StartOf(k) - 1 + x
      BY <1>10, <1>14
    <3> QED BY <1>16, <3>1, <3>2, <3>3
  <2>2. 1 \in 1..Len(script'[Current'].lines) /\ Current' <= Len(script')
    <3>1. 1 \in 1..Len(r.lines)
      BY <1>6, <1>8, LinesLemma
    <3> QED BY <1>2, <1>4, <1>5, <1>16, <3>1
  <2> QED BY <1>3, <1>19, <1>22, <2>1, <2>2 DEF ReaderInv, RawType
<1>24. ClientInv'
  BY <1>1, <1>4, ClientStays
<1>25. Answered' /\ err = "none" /\ ~(Len(served) > 0 /\ script[Len(served)].close)
  BY <1>1, <1>2, <1>3, AnsweredStays
<1>26. Closing'
  BY <1>1, <1>2, <1>3, <1>25 DEF Closing
<1> QED BY <1>14, <1>23, <1>24, <1>25, <1>26 DEF IInv

\* RequestLine::parse() and what follows from its result.
LEMMA ParseLineKeeps ==
  ASSUME IInv, ParseLine
  PROVE  IInv'
<1>1. pc = "line" /\ UNCHANGED <<client, taken, mem, buffer, headers, served>>
  BY DEF ParseLine
<1>2. AtLine /\ ~AtClose /\ UNCHANGED <<script, wire>>
  BY <1>1 DEF AtLine, AtClose, client
<1>3. LineResult(Window) \in {"ok", "again", "illegal"}
  BY DEF LineResult
<1>4. CASE LineResult(Window) = "ok"
  BY <1>4, LineDone
<1>5. CASE LineResult(Window) = "illegal"
  <2>1. err' = "illegal_byte_sequence" /\ pc' = "close" /\ UNCHANGED <<client, window, raw, served>>
    BY <1>1, <1>5 DEF ParseLine, window
  <2>2. ClientInv /\ WindowInv /\ Len(script) \in Nat
    BY Standing DEF IInv
  <2>3. Current <= Len(script)
    <3> SUFFICES ASSUME ~(Current <= Len(script)) PROVE FALSE
      OBVIOUS
    <3>1. Position = StartOf(Len(script) + 1) - 1
      BY <1>2, Standing
    <3>2. LineResult(Window) = "again"
      BY <2>2, <3>1, NothingBehind
    <3> QED BY <1>5, <3>2
  <2>4. Stands(Current, 1)
    BY <1>2, <2>3, Standing
  <2>5. Reads(Window, script[Current], 1)
    BY <2>2, <2>4, StandsReads
  <2>6. script[Current].bad = 1
    <3> DEFINE n == script[Current].lines[1]
    <3>1. n \in Nat /\ Len(Window) \in Nat
      BY <2>5, LineFound DEF Reads
    <3>2. ~(Len(Window) < n + 2)
      BY <1>5, <2>5, LineFound
    <3>3. n + 2 <= Len(Window)
      <4> HIDE DEF n
      <4> QED BY <3>1, <3>2
    <3>4. LineResult(Window) = IF script[Current].bad = 1 THEN "illegal" ELSE "ok"
      BY <2>5, <3>3, LineFound
    <3> QED BY <1>5, <3>4
  <2>7. ~Deliverable(script[Current])
    BY <2>6 DEF Deliverable
  <2> QED BY <1>2, <2>1, <2>3, <2>7, FailKeeps
<1>6. CASE LineResult(Window) = "again"
  <2>1. pc' = "fill_line" /\ UNCHANGED <<line, raw, win, err>>
    BY <1>6 DEF ParseLine
  <2>2. LineEnds(Window) = {}
    BY <1>6 DEF LineResult
  <2>3. Window' = Window /\ Position' = Position /\ Current' = Current
    BY <1>1, <1>2, <2>1 DEF Window, Active, Position, Current
  <2>4. WindowInv'
    BY <1>1, <1>2, <2>1 DEF IInv, WindowInv, Position, Active
  <2>5. ClientInv'
    BY <1>1, ClientStays DEF IInv
  <2>6. AtLine' /\ ~AtRest' /\ ~AtClose' /\ pc' # "serve" /\ pc # "read"
    BY <1>1, <2>1 DEF AtLine, AtRest, AtClose
  <2>7. Answered' /\ err = "none" /\ ~(Len(served) > 0 /\ script[Len(served)].close)
    BY <1>1, <1>2, AnsweredStays
  <2>8. Closing'
    BY <1>1, <1>2, <2>1, <2>6, <2>7 DEF Closing
  <2>9. ReaderInv'
    <3>1. Position' = StartOf(Current)' - 1 /\ headers' = {}
      <4>1. Position = StartOf(Current) - 1 /\ headers = {}
        BY <1>2, <2>6 DEF IInv, ReaderInv
      <4>2. StartOf(Current)' = StartOf(Current)
        BY <1>2, <2>3, ScriptStays
      <4> QED BY <1>1, <2>3, <4>1, <4>2
    <3>2. (raw \in [size : Int, cap : Int, gen : Int] /\ raw.size <= raw.cap)'
      BY <2>1 DEF IInv, ReaderInv
    <3>3. LineEnds(Window') = {}
      BY <2>2, <2>3
    <3> QED BY <2>6, <3>1, <3>2, <3>3 DEF ReaderInv
  <2> QED BY <2>4, <2>5, <2>7, <2>8, <2>9 DEF IInv
<1> QED BY <1>3, <1>4, <1>5, <1>6

\* The headers up to line j are taken and x octets consumed.
Taken(m, j, x) ==
  /\ j \in m..Len(script[Current].lines) /\ HeaderEnds(Window) = EndsOf(script[Current], m + 1, j)
  /\ \A i \in (m + 1)..j : /\ script[Current].bad # i /\ EndAt(script[Current], m + 1, i) + 1 <= Len(Window)
                           /\ EndAt(script[Current], m + 1, i) + 1 <= x
  /\ x \in Nat /\ win.from + x <= win.to /\ win' = [win EXCEPT !.from = @ + x]

\* Those lines are then parsed, and every view is still kept.
LEMMA HeadersTaken ==
  ASSUME IInv, ParseRest, NEW m \in Nat \ {0}, Parsed(m), Stands(Current, m + 1), NEW j, NEW x, Taken(m, j, x)
  PROVE  Parsed(j)' /\ WindowInv' /\ Position' = Position + x
<1> DEFINE w == Window
           k == Current
           r == script[k]
           M == m + 1
           L == Len(r.lines)
<1>1. /\ headers' = headers \cup {View(LineStart(w, e), e - 1) : e \in HeaderEnds(w)}
      /\ UNCHANGED <<client, taken, mem, buffer, line, raw, served>>
  BY DEF ParseRest
<1>2. UNCHANGED <<script, wire>>
  BY <1>1 DEF client
<1>3. ClientInv /\ WindowInv
  BY DEF IInv
<1>4. Reads(w, r, M)
  BY <1>3, StandsReads
<1>5. L \in Nat /\ j \in Nat /\ m <= j /\ j <= L
  <2>1. L \in Nat
    BY <1>4, WindowLines
  <2>2. j \in m..L
    BY DEF Taken
  <2> HIDE DEF L
  <2> QED BY <2>1, <2>2
<1>6. \A i \in M..j : After(r, M, i) /\ i <= L
  BY <1>5 DEF After, Lines
<1>7. /\ WindowInv' /\ Position' = Position + x
      /\ \A u : Kept(u) \/ Front(u, win.from + x) => Kept(u)'
  <2>1. x \in Nat /\ win.from + x <= win.to /\ win' = [win EXCEPT !.from = @ + x]
    BY DEF Taken
  <2> QED BY <1>1, <1>2, <1>3, <2>1, Consumed
<1>8. ASSUME NEW i \in M..j, NEW h, h = View(BeginAt(r, M, i), EndAt(r, M, i) - 1)
      PROVE  Front(h, win.from + x) /\ SpanOf(h) = Span(k, i) /\ Fits(r, i)
  <2>1. r.bad # i /\ EndAt(r, M, i) + 1 <= Len(w) /\ EndAt(r, M, i) + 1 <= x /\ x \in Nat
    BY DEF Taken
  <2>2. After(r, M, i) /\ i <= L
    BY <1>6
  <2>3. /\ h \in ViewType /\ h.at + h.len <= BlockSize /\ Intact(h) /\ h.at + h.len = win.from + EndAt(r, M, i) - 1
        /\ h.blk = buffer[win.block] /\ SpanOf(h) = Span(k, i) /\ r.lines[i] + 2 <= BlockSize
    <3> HIDE DEF M
    <3>1. Stands(k, M)
      BY DEF M
    <3> QED BY <1>3, <1>8, <2>1, <2>2, <3>1, ViewLemma
  <2>4. EndAt(r, M, i) \in Nat /\ win.from \in Nat
    BY <1>3, <1>4, <2>2, WindowLines, BlocksLemma
  <2> DEFINE y == h.at + h.len
             f == win.from
             e == EndAt(r, M, i)
  <2>5. y = f + e - 1 /\ e \in Nat /\ f \in Nat /\ e + 1 <= x /\ x \in Nat
    BY <2>1, <2>3, <2>4
  <2> HIDE DEF y, f, e
  <2>6. y <= f + x
    BY <2>5
  <2>7. Front(h, win.from + x)
    BY <2>3, <2>6 DEF Front, y, f
  <2>8. Fits(r, i)
    BY <2>1, <2>3 DEF Fits
  <2> QED BY <2>3, <2>7, <2>8
<1>9. HeaderEnds(w) = {EndAt(r, M, i) : i \in M..j}
  BY DEF Taken, EndsOf
<1>10. \A i \in M..j : LineStart(w, EndAt(r, M, i)) = BeginAt(r, M, i)
  <2> SUFFICES ASSUME NEW i \in M..j PROVE LineStart(w, EndAt(r, M, i)) = BeginAt(r, M, i)
    OBVIOUS
  <2>1. EndAt(r, M, i) + 1 <= Len(w)
    BY DEF Taken
  <2>2. After(r, M, i)
    BY <1>6
  <2> HIDE DEF M, r, w
  <2> QED BY <1>4, <2>1, <2>2, LineStartIs
<1> DEFINE H(i) == View(BeginAt(r, M, i), EndAt(r, M, i) - 1)
<1>11. headers' = headers \cup {H(i) : i \in M..j}
  <2>1. {View(LineStart(w, e), e - 1) : e \in HeaderEnds(w)} = {View(LineStart(w, EndAt(r, M, i)), EndAt(r, M, i) - 1) : i \in M..j}
    <3> HIDE DEF M, r, w
    <3> QED BY <1>9
  <2>2. \A i \in M..j : View(LineStart(w, EndAt(r, M, i)), EndAt(r, M, i) - 1) = H(i)
    BY <1>10
  <2>3. {View(LineStart(w, EndAt(r, M, i)), EndAt(r, M, i) - 1) : i \in M..j} = {H(i) : i \in M..j}
    <3> HIDE DEF H
    <3> QED BY <2>2
  <2> QED BY <1>1, <2>1, <2>3
<1>12. \A i \in M..j : Front(H(i), win.from + x) /\ SpanOf(H(i)) = Span(k, i) /\ Fits(r, i)
  BY <1>8
<1> HIDE DEF H, M
<1>13. ASSUME NEW h \in headers' PROVE Kept(h)'
  <2>1. CASE h \in headers
    <3>1. Kept(h)
      BY <2>1 DEF Parsed
    <3> QED BY <1>7, <3>1
  <2>2. CASE h \notin headers
    <3>1. PICK i \in M..j : h = H(i)
      BY <1>11, <1>13, <2>2
    <3>2. Front(h, win.from + x)
      BY <1>12, <3>1
    <3> QED BY <1>7, <3>2
  <2> QED BY <2>1, <2>2
<1>14. Current' = k /\ (\A i : Span(Current, i)' = Span(k, i)) /\ script'[Current'] = r
  <2>1. Current' = k
    BY <1>1 DEF Current
  <2>2. \A i : StartOf(i)' = StartOf(i)
    BY <1>2, ScriptStays
  <2> QED BY <1>2, <2>1, <2>2 DEF Span
<1>15. {SpanOf(h) : h \in headers'} = {Span(k, i) : i \in 2..j}
  <2>1. {SpanOf(h) : h \in headers} = {Span(k, i) : i \in 2..m}
    BY DEF Parsed
  <2>2. \A i : i \in 2..j <=> i \in 2..m \/ i \in M..j
    BY <1>5 DEF M
  <2>3. ASSUME NEW h \in headers' PROVE \E i \in 2..j : SpanOf(h) = Span(k, i)
    <3>1. CASE h \in headers
      <4>1. SpanOf(h) \in {Span(k, i) : i \in 2..m}
        BY <2>1, <3>1
      <4>2. PICK i \in 2..m : SpanOf(h) = Span(k, i)
        BY <4>1
      <4> QED BY <2>2, <4>2
    <3>2. CASE h \notin headers
      <4>1. PICK i \in M..j : h = H(i)
        BY <1>11, <2>3, <3>2
      <4> QED BY <1>12, <2>2, <4>1
    <3> QED BY <3>1, <3>2
  <2>4. ASSUME NEW i \in 2..j PROVE \E h \in headers' : SpanOf(h) = Span(k, i)
    <3>1. CASE i \in 2..m
      <4>1. Span(k, i) \in {SpanOf(h) : h \in headers}
        BY <2>1, <3>1
      <4>2. PICK h \in headers : SpanOf(h) = Span(k, i)
        BY <4>1
      <4>3. h \in headers'
        BY <1>11, <4>2
      <4> QED BY <4>2, <4>3
    <3>2. CASE i \in M..j
      <4>1. H(i) \in headers' /\ SpanOf(H(i)) = Span(k, i)
        BY <1>11, <1>12, <3>2
      <4> QED BY <4>1
    <3> QED BY <2>2, <3>1, <3>2
  <2> HIDE DEF k
  <2> QED BY <2>3, <2>4
<1>16. {SpanOf(h) : h \in headers}' = {Span(Current, i) : i \in 2..j}'
  <2>1. {SpanOf(h) : h \in headers}' = {SpanOf(h) : h \in headers'}
    BY DEF SpanOf
  <2>2. {Span(Current, i) : i \in 2..j}' = {Span(k, i) : i \in 2..j}
    BY <1>14
  <2> QED BY <1>15, <2>1, <2>2
<1>17. Kept(line.view)' /\ SpanOf(line.view)' = Span(Current, 1)'
  <2>1. PICK v : v = line.view
    OBVIOUS
  <2>2. Kept(v) /\ SpanOf(v) = Span(k, 1)
    BY <2>1 DEF Parsed
  <2>3. Kept(v)' /\ line'.view = v
    BY <1>1, <1>7, <2>1, <2>2
  <2>4. Kept(line.view)'
    BY <2>3, Zenon DEF Kept, Intact
  <2>5. SpanOf(line.view)' = SpanOf(v)
    BY <2>3 DEF SpanOf
  <2> QED BY <1>14, <2>2, <2>4, <2>5
<1>18. \A i \in 1..j : Fits(script'[Current'], i)
  <2> SUFFICES ASSUME NEW i \in 1..j PROVE Fits(r, i)
    BY <1>14
  <2>1. i \in 1..m \/ i \in M..j
    BY <1>5 DEF M
  <2>2. \A n \in 1..m : Fits(r, n)
    BY DEF Parsed
  <2> QED BY <1>12, <2>1, <2>2
<1>19. (PathHeld(script[Current]) /\ QueryHeld(script[Current]))'
  BY <1>1, <1>14 DEF Parsed, PathHeld, QueryHeld
<1>20. Parsed(j)'
  BY <1>13, <1>16, <1>17, <1>18, <1>19 DEF Parsed
<1> QED BY <1>7, <1>20

\* What is left of a window that ends before its empty line: the beginning of
\* a line, without its end.
LEMMA MoreLeft ==
  ASSUME NEW w, NEW r, NEW m, Reads(w, r, m), NEW j, RestMore(w, r, m, j), NEW x, x = RestConsumed(w)
  PROVE  /\ x \in Nat /\ x <= Len(w) /\ x = LineAt(r, j + 1) - LineAt(r, m) /\ LineAt(r, j + 1) \in Nat
         /\ j \in (m - 1)..Len(r.lines) /\ j + 1 \in Lines(r) /\ HeaderEnds(w) = EndsOf(r, m, j)
         /\ \A i \in m..j : r.bad # i /\ EndAt(r, m, i) + 1 <= Len(w) /\ EndAt(r, m, i) + 1 <= x
         /\ \A u : Len(u) = Len(w) - x /\ (\A i \in 1..Len(u) : u[i] = w[x + i]) => LineEnds(u) = {}
<1> DEFINE L == Len(r.lines)
           k == Len(w)
           a == LineAt(r, m)
           b == LineAt(r, j + 1)
           t == LineTo(r, j + 1)
           h == HeadLen(r)
           E(i) == EndAt(r, m, i)
<1>1. /\ Whole(r) /\ m \in Lines(r) /\ k \in Nat
      /\ \A n \in 1..k : a + n <= h => w[n] = Octet(r, a + n)
  BY DEF Reads
<1>2. h \in Nat /\ a \in Nat /\ m \in Nat /\ L \in Nat /\ L > 0 /\ m \in 1..(L + 1)
  BY <1>1, WindowLines DEF Lines
<1>3. /\ j \in (m - 1)..L /\ x = b - a /\ k < E(j + 1) + 1 /\ HeaderEnds(w) = EndsOf(r, m, j)
      /\ \A i \in m..j : r.bad # i /\ E(i) + 1 <= k
  BY DEF RestMore
<1>4. j \in Int /\ j + 1 \in 1..(L + 1) /\ m <= j + 1 /\ (m # j + 1 => j \in m..j) /\ (j + 1) - 1 = j
  <2> HIDE DEF L
  <2> QED BY <1>2, <1>3
<1>5. j + 1 \in Lines(r) /\ After(r, m, j + 1)
  BY <1>4 DEF Lines, After
<1>6. b \in Nat /\ t \in Nat
  BY <1>1, <1>5, LinesLemma
<1>7. E(j + 1) = t - a + 1 /\ BeginAt(r, m, j + 1) = b - a + 1 /\ BeginAt(r, m, j + 1) \in Nat \ {0}
  BY <1>5, WindowLines DEF EndAt, BeginAt
<1>8. x \in Nat /\ x <= k
  <2>1. x \in Nat
    <3> HIDE DEF a, b
    <3> QED BY <1>2, <1>3, <1>6, <1>7
  <2>2. CASE m = j + 1
    <3>1. x = 0
      BY <1>2, <1>3, <2>2
    <3> QED BY <1>1, <3>1
  <2>3. CASE m # j + 1
    <3>1. E(j) + 1 <= k
      BY <1>3, <1>4, <2>3
    <3>2. BeginAt(r, m, j + 1) = E(j) + 2 /\ After(r, m, j)
      <4>1. After(r, m, (j + 1) - 1) /\ BeginAt(r, m, j + 1) = EndAt(r, m, (j + 1) - 1) + 2
        <5> DEFINE i == j + 1
        <5>1. After(r, m, i) /\ i # m
          BY <1>5, <2>3
        <5> HIDE DEF i
        <5>2. After(r, m, i - 1) /\ BeginAt(r, m, i) = EndAt(r, m, i - 1) + 2
          BY <5>1, WindowLines
        <5> QED BY <5>2 DEF i
      <4> QED BY <1>4, <4>1, Zenon
    <3>3. E(j) \in Nat
      BY <3>2, WindowLines
    <3>4. x = b - a /\ b - a + 1 = E(j) + 2 /\ k \in Nat /\ a \in Nat /\ b \in Nat
      BY <1>1, <1>2, <1>3, <1>6, <1>7, <3>2
    <3> DEFINE e == E(j)
    <3>5. e \in Nat /\ x = b - a /\ e + 1 <= k /\ b - a + 1 = e + 2 /\ k \in Nat /\ a \in Nat /\ b \in Nat
      BY <3>1, <3>3, <3>4
    <3> HIDE DEF a, b, k, e
    <3> QED BY <3>5
  <2> QED BY <2>1, <2>2, <2>3
<1>9. \A i \in m..j : E(i) + 1 <= x
  <2> SUFFICES ASSUME NEW i \in m..j PROVE E(i) + 1 <= x
    OBVIOUS
  <2>1. i \in 1..(L + 1) /\ m <= i /\ i < j + 1
    <3> HIDE DEF L
    <3> QED BY <1>2, <1>3
  <2>2. After(r, m, i)
    BY <2>1 DEF After, Lines
  <2>3. E(i) + 2 <= BeginAt(r, m, j + 1) /\ E(i) \in Nat
    BY <1>5, <2>1, <2>2, WindowLines
  <2>4. x = b - a /\ E(i) + 2 <= b - a + 1 /\ a \in Nat /\ b \in Nat
    BY <1>2, <1>3, <1>6, <1>7, <2>3
  <2> DEFINE e == E(i)
  <2>5. e \in Nat /\ x = b - a /\ e + 2 <= b - a + 1 /\ a \in Nat /\ b \in Nat
    BY <2>3, <2>4
  <2> HIDE DEF e, a, b
  <2>6. e + 1 <= x
    BY <2>5
  <2> QED BY <2>6 DEF e
<1>10. ASSUME NEW u, Len(u) = k - x, \A i \in 1..Len(u) : u[i] = w[x + i]
       PROVE  LineEnds(u) = {}
  <2> DEFINE n1 == Len(u)
  <2>1. n1 \in Nat /\ n1 = k - x
    <3> HIDE DEF k
    <3> QED BY <1>1, <1>8, <1>10
  <2>2. ASSUME NEW n \in 1..n1, b + n <= h PROVE u[n] = Octet(r, b + n)
    <3>1. x + n \in 1..k /\ a + (x + n) = b + n
      <4> HIDE DEF n1, k, a, b
      <4> QED BY <1>1, <1>2, <1>3, <1>6, <1>8, <2>1, <2>2
    <3>2. w[x + n] = Octet(r, a + (x + n))
      <4>1. a + (x + n) <= h
        BY <2>2, <3>1, Zenon
      <4> HIDE DEF k, a, h
      <4> QED BY <1>1, <3>1, <4>1
    <3>3. u[n] = w[x + n]
      BY <1>10, <2>2
    <3> QED BY <3>1, <3>2, <3>3, Zenon
  <2>3. Reads(u, r, j + 1)
    BY <1>1, <1>5, <2>1, <2>2 DEF Reads
  <2>4. EndAt(r, j + 1, j + 1) = t - b + 1
    BY DEF EndAt
  <2>5. n1 < EndAt(r, j + 1, j + 1) + 1
    <3> HIDE DEF n1, k, a, b, t, E
    <3> QED BY <1>1, <1>2, <1>3, <1>6, <1>7, <1>8, <2>1, <2>4
  <2> QED BY <2>3, <2>5, WindowEnds
<1> QED BY <1>3, <1>5, <1>6, <1>8, <1>9, <1>10

\* What is consumed of a window that holds the empty line.
LEMMA DoneLeft ==
  ASSUME NEW w, NEW r, NEW m, Reads(w, r, m), RestDone(w, r, m), NEW x, x = RestConsumed(w)
  PROVE  /\ x \in Nat /\ x <= Len(w) /\ x = HeadLen(r) - LineAt(r, m) /\ HeadLen(r) \in Nat /\ LineAt(r, m) \in Nat
         /\ HeaderEnds(w) = EndsOf(r, m, Len(r.lines))
         /\ \A i \in m..Len(r.lines) : r.bad # i /\ EndAt(r, m, i) + 1 <= Len(w) /\ EndAt(r, m, i) + 1 <= x
<1> DEFINE L == Len(r.lines)
           a == LineAt(r, m)
           h == HeadLen(r)
<1>1. Whole(r) /\ m \in 1..(L + 1) /\ Len(w) \in Nat /\ h \in Nat /\ a \in Nat /\ m \in Nat /\ L \in Nat
  BY WindowLines DEF Reads, Lines
<1>2. /\ x = h - a /\ x <= Len(w) /\ HeaderEnds(w) = EndsOf(r, m, L)
      /\ \A i \in m..L : r.bad # i /\ EndAt(r, m, i) + 1 <= Len(w)
  BY DEF RestDone
<1>3. After(r, m, m) /\ \A i \in m..L : After(r, m, i)
  BY <1>1 DEF After, Lines
<1>4. \A i \in m..L : EndAt(r, m, i) + 1 <= x
  BY <1>2, <1>3, WindowLines
<1>5. x \in Nat
  <2>1. EndAt(r, m, m) \in Nat /\ EndAt(r, m, m) + 1 <= x
    BY <1>2, <1>3, WindowLines
  <2> HIDE DEF h, a
  <2> QED BY <1>1, <1>2, <2>1
<1> QED BY <1>1, <1>2, <1>4, <1>5

\* After octets of the window were consumed it begins behind them.
LEMMA WindowMoves ==
  ASSUME ClientInv, WindowInv, UNCHANGED <<mem, buffer, wire>>,
         NEW x \in Nat, win.from + x <= win.to, win' = [win EXCEPT !.from = @ + x], NEW w, w = Window
  PROVE  Len(Window') = Len(w) - x /\ \A i \in 1..Len(Window') : Window'[i] = w[x + i]
<1> DEFINE f == win.from
           t == win.to
           k == Len(w)
           d == t - (f + x)
           O == {wire[i] : i \in 1..Len(wire)}
<1>1. f \in 0..BlockSize /\ t \in 0..BlockSize /\ f <= t /\ BlockSize \in Nat /\ win' = [block |-> win.block, from |-> f + x, to |-> t]
  BY BlocksLemma
<1>2. k = t - f /\ k \in Nat /\ Position \in Nat /\ Position + k <= Len(wire) /\ Len(wire) \in Nat /\ \A i \in 1..k : w[i] = wire[Position + i]
  BY WindowIs, MessageAssumption
<1>3. Window' = [i \in 1..d |-> wire[mem[Active][(f + x) + i]]]
  BY <1>1 DEF Window, Active
<1>4. w = [i \in 1..(t - f) |-> wire[mem[Active][f + i]]]
  BY DEF Window
<1>5. d \in Nat /\ d = k - x /\ f + x <= t /\ f \in Nat
  <2>1. f + x <= t
    OBVIOUS
  <2> HIDE DEF k, f, t
  <2> QED BY <1>1, <1>2, <2>1
<1>6. ASSUME NEW i \in 1..d
      PROVE  x + i \in 1..k /\ (f + x) + i = f + (x + i) /\ Position + (x + i) \in 1..Len(wire)
  <2> DEFINE l == Len(wire)
             p == Position
  <2>1. p \in Nat /\ l \in Nat /\ p + k <= l /\ k \in Nat
    BY <1>2
  <2> HIDE DEF d, k, f, t, l, p
  <2>2. x + i \in 1..k /\ (f + x) + i = f + (x + i) /\ p + (x + i) \in 1..l
    BY <1>5, <1>6, <2>1
  <2> QED BY <2>2 DEF p, l
<1>7. ASSUME NEW i \in 1..d PROVE wire[mem[Active][(f + x) + i]] = w[x + i] /\ w[x + i] \in O
  <2>1. x + i \in 1..k /\ (f + x) + i = f + (x + i) /\ Position + (x + i) \in 1..Len(wire)
    BY <1>6
  <2>2. w[x + i] = wire[mem[Active][f + (x + i)]]
    BY <1>2, <1>4, <2>1
  <2>3. w[x + i] = wire[Position + (x + i)]
    BY <1>2, <2>1
  <2> QED BY <2>1, <2>2, <2>3
<1> DEFINE W == [i \in 1..d |-> wire[mem[Active][(f + x) + i]]]
<1>8. W \in [1..d -> O] /\ DOMAIN W = 1..d /\ \A i \in 1..d : W[i] = w[x + i]
  BY <1>7
<1> HIDE DEF W, d, O
<1>9. W \in Seq(O)
  BY <1>5, <1>8, IsASeq
<1>10. Len(W) \in Nat /\ DOMAIN W = 1..Len(W)
  BY <1>9, LenProperties
<1>11. Len(W) = d
  BY <1>5, <1>8, <1>10
<1>12. Window' = W
  BY <1>3 DEF W, d
<1> QED BY <1>5, <1>8, <1>11, <1>12

\* Header lines were parsed and the empty line has not come yet.
LEMMA RestGoesOn ==
  ASSUME IInv, ParseRest, NEW m \in Nat \ {0}, Parsed(m), Stands(Current, m + 1),
         NEW j, RestMore(Window, script[Current], m + 1, j)
  PROVE  IInv'
<1> DEFINE k == Current
           r == script[k]
           L == Len(r.lines)
           M == m + 1
<1>1. PICK w, x : w = Window /\ x = RestConsumed(w)
  OBVIOUS
<1>2. ClientInv /\ WindowInv /\ Reads(w, r, M)
  BY <1>1, StandsReads DEF IInv
<1>3. RestMore(w, r, M, j)
  BY <1>1
<1>4. /\ x \in Nat /\ x <= Len(w) /\ x = LineAt(r, j + 1) - LineAt(r, M) /\ LineAt(r, j + 1) \in Nat
      /\ j \in (M - 1)..L /\ j + 1 \in Lines(r) /\ HeaderEnds(w) = EndsOf(r, M, j)
      /\ \A i \in M..j : r.bad # i /\ EndAt(r, M, i) + 1 <= Len(w) /\ EndAt(r, M, i) + 1 <= x
      /\ \A u : Len(u) = Len(w) - x /\ (\A i \in 1..Len(u) : u[i] = w[x + i]) => LineEnds(u) = {}
  BY <1>1, <1>2, <1>3, MoreLeft
<1>5. /\ pc = "rest" /\ win' = [win EXCEPT !.from = @ + x] /\ pc' = "fill_rest" /\ err' = err
      /\ UNCHANGED <<client, taken, mem, buffer, line, raw, served>>
  <2>1. Stops(w) = {}
    BY <1>3 DEF RestMore
  <2> QED BY <1>1, <2>1 DEF ParseRest
<1>6. UNCHANGED <<script, wire>>
  BY <1>5 DEF client
<1>7. L \in Nat /\ L > 0 /\ m + 1 = M /\ j \in m..L /\ j \in 1..L /\ m \in Nat
  <2>1. L \in Nat /\ L > 0
    BY <1>2, WindowLines
  <2> HIDE DEF L, k
  <2> QED BY <1>4, <2>1
<1>8. win.from + x <= win.to
  <2>1. Len(w) = win.to - win.from /\ win.to \in Nat /\ win.from \in Nat
    BY <1>1, <1>2, WindowIs, BlocksLemma
  <2> DEFINE f == win.from
             t == win.to
             n == Len(w)
  <2>2. n = t - f /\ t \in Nat /\ f \in Nat /\ x \in Nat /\ x <= n
    BY <1>4, <2>1
  <2> HIDE DEF f, t, n
  <2>3. f + x <= t
    BY <2>2
  <2> QED BY <2>3 DEF f, t
<1>9. Taken(m, j, x)
  <2> HIDE DEF M
  <2>1. /\ j \in m..Len(script[Current].lines) /\ HeaderEnds(Window) = EndsOf(script[Current], M, j)
        /\ \A i \in M..j : /\ script[Current].bad # i /\ EndAt(script[Current], M, i) + 1 <= Len(Window)
                           /\ EndAt(script[Current], M, i) + 1 <= x
    BY <1>1, <1>4, <1>7
  <2> QED BY <1>4, <1>5, <1>8, <2>1 DEF Taken, M
<1>10. Parsed(j)' /\ WindowInv' /\ Position' = Position + x
  BY <1>9, HeadersTaken
<1>11. LineEnds(Window') = {}
  <2>1. Len(Window') = Len(w) - x /\ \A i \in 1..Len(Window') : Window'[i] = w[x + i]
    BY <1>1, <1>2, <1>4, <1>5, <1>6, <1>8, WindowMoves
  <2> QED BY <1>4, <2>1
<1>12. Current' = k /\ k \in 1..Len(script) /\ Current' <= Len(script') /\ script'[Current'] = r
  <2>1. Current' = k
    BY <1>5 DEF Current
  <2>2. k \in 1..Len(script) /\ Len(script) \in Nat
    BY Standing DEF Stands
  <2> HIDE DEF k
  <2>3. k <= Len(script)
    BY <2>2
  <2> QED BY <1>6, <2>1, <2>2, <2>3
<1>13. Position' = StartOf(Current)' - 1 + LineAt(r, j + 1)
  <2> DEFINE s == StartOf(k)
             a == LineAt(r, M)
             b == LineAt(r, j + 1)
             p == Position
  <2>1. StartOf(Current)' = s
    BY <1>6, <1>12, ScriptStays
  <2>2. p = s - 1 + a /\ x = b - a /\ s \in Nat /\ a \in Nat /\ b \in Nat /\ p \in Nat
    <3>1. p = s - 1 + a
      BY DEF Stands
    <3>2. s \in Nat
      <4>1. script \in Scripts /\ k \in 1..(Len(script) + 1)
        BY Standing
      <4> QED BY <4>1, StartLemma
    <3>3. a \in Nat
      BY <1>2, WindowLines
    <3>4. p \in Nat
      BY <1>2 DEF WindowInv
    <3> QED BY <1>4, <3>1, <3>2, <3>3, <3>4
  <2> HIDE DEF s, a, b, p
  <2>3. p + x = s - 1 + b
    BY <2>2
  <2>4. Position' = p + x
    BY <1>10 DEF p
  <2> QED BY <2>1, <2>3, <2>4 DEF b
<1>14. AtRest' /\ ~AtLine' /\ ~AtClose' /\ ~AtClose /\ pc' # "serve"
  BY <1>5 DEF AtRest, AtLine, AtClose
<1>15. ReaderInv'
  <2>1. (raw \in [size : Int, cap : Int, gen : Int] /\ raw.size <= raw.cap)'
    BY <1>5 DEF IInv, ReaderInv
  <2>2. (\E i \in 1..Len(script[Current].lines) : Parsed(i) /\ Position = StartOf(Current) - 1 + LineAt(script[Current], i + 1))'
    <3>1. j \in 1..Len(script'[Current'].lines) /\ LineAt(script[Current], j + 1)' = LineAt(r, j + 1)
      <4>1. j \in 1..Len(script'[Current'].lines)
        BY <1>7, <1>12
      <4>2. LineAt(script[Current], j + 1)' = LineAt(r, j + 1)
        BY <1>12 DEF LineAt
      <4> QED BY <4>1, <4>2
    <3> QED BY <1>10, <1>13, <3>1
  <2> QED BY <1>11, <1>12, <1>14, <2>1, <2>2 DEF ReaderInv
<1>16. ClientInv'
  BY <1>2, <1>5, ClientStays
<1>17. Answered' /\ err = "none" /\ ~(Len(served) > 0 /\ script[Len(served)].close)
  BY <1>5, <1>6, <1>14, AnsweredStays
<1>18. Closing'
  BY <1>5, <1>6, <1>14, <1>17 DEF Closing
<1> QED BY <1>10, <1>15, <1>16, <1>17, <1>18 DEF IInv

\* The empty line was found: the head is whole.
LEMMA RestEnds ==
  ASSUME IInv, ParseRest, NEW m \in Nat \ {0}, m <= Len(script[Current].lines), Parsed(m), Stands(Current, m + 1),
         RestDone(Window, script[Current], m + 1)
  PROVE  IInv'
<1> DEFINE k == Current
           r == script[k]
           L == Len(r.lines)
           M == m + 1
<1>1. PICK w, x : w = Window /\ x = RestConsumed(w)
  OBVIOUS
<1>2. ClientInv /\ WindowInv /\ Reads(w, r, M)
  BY <1>1, StandsReads DEF IInv
<1>3. RestDone(w, r, M)
  BY <1>1
<1>4. /\ x \in Nat /\ x <= Len(w) /\ x = HeadLen(r) - LineAt(r, M) /\ HeadLen(r) \in Nat /\ LineAt(r, M) \in Nat
      /\ HeaderEnds(w) = EndsOf(r, M, L)
      /\ \A i \in M..L : r.bad # i /\ EndAt(r, M, i) + 1 <= Len(w) /\ EndAt(r, M, i) + 1 <= x
  BY <1>1, <1>2, <1>3, DoneLeft
<1>5. /\ pc = "rest" /\ win' = [win EXCEPT !.from = @ + x] /\ pc' = "serve" /\ err' = err
      /\ UNCHANGED <<client, taken, mem, buffer, line, raw, served>>
  <2>1. Stops(w) # {} /\ IsEmpty(w, Lowest(Stops(w)))
    BY <1>3 DEF RestDone
  <2> QED BY <1>1, <2>1 DEF ParseRest
<1>6. UNCHANGED <<script, wire>>
  BY <1>5 DEF client
<1>7. L \in Nat /\ L > 0 /\ L \in m..L /\ m \in Nat
  <2>1. L \in Nat /\ L > 0
    BY <1>2, WindowLines
  <2>2. m <= L
    OBVIOUS
  <2> HIDE DEF L, k
  <2> QED BY <2>1, <2>2
<1>8. win.from + x <= win.to
  <2>1. Len(w) = win.to - win.from /\ win.to \in Nat /\ win.from \in Nat
    BY <1>1, <1>2, WindowIs, BlocksLemma
  <2> DEFINE f == win.from
             t == win.to
             n == Len(w)
  <2>2. n = t - f /\ t \in Nat /\ f \in Nat /\ x \in Nat /\ x <= n
    BY <1>4, <2>1
  <2> HIDE DEF f, t, n
  <2>3. f + x <= t
    BY <2>2
  <2> QED BY <2>3 DEF f, t
<1>9. Taken(m, L, x)
  <2> HIDE DEF M
  <2>1. /\ L \in m..Len(script[Current].lines) /\ HeaderEnds(Window) = EndsOf(script[Current], M, L)
        /\ \A i \in M..L : /\ script[Current].bad # i /\ EndAt(script[Current], M, i) + 1 <= Len(Window)
                           /\ EndAt(script[Current], M, i) + 1 <= x
    BY <1>1, <1>4, <1>7
  <2> QED BY <1>4, <1>5, <1>8, <2>1 DEF Taken, M
<1>10. Parsed(L)' /\ WindowInv' /\ Position' = Position + x
  <2>1. PICK l : l = L
    OBVIOUS
  <2>2. Taken(m, l, x)
    BY <1>9, <2>1
  <2>3. Parsed(l)' /\ WindowInv' /\ Position' = Position + x
    BY <2>2, HeadersTaken
  <2>4. L' = l
    BY <1>5, <1>6, <2>1 DEF Current
  <2> QED BY <2>3, <2>4 DEF Parsed
<1>12. Current' = k /\ k \in 1..Len(script) /\ Current' <= Len(script') /\ script'[Current'] = r
  <2>1. Current' = k
    BY <1>5 DEF Current
  <2>2. k \in 1..Len(script) /\ Len(script) \in Nat
    BY Standing DEF Stands
  <2> HIDE DEF k
  <2>3. k <= Len(script)
    BY <2>2
  <2> QED BY <1>6, <2>1, <2>2, <2>3
<1>13. Position' = StartOf(Current + 1)' - 1
  <2> DEFINE s == StartOf(k)
             z == StartOf(k + 1)
             a == LineAt(r, M)
             h == HeadLen(r)
             p == Position
  <2>1. StartOf(Current + 1)' = z
    BY <1>6, <1>12, ScriptStays
  <2>2. p = s - 1 + a /\ x = h - a /\ s \in Nat /\ a \in Nat /\ h \in Nat /\ p \in Nat /\ z = s + h
    <3>1. p = s - 1 + a
      BY DEF Stands
    <3>2. s \in Nat /\ z = s + h
      <4>1. script \in Scripts /\ k \in 1..(Len(script) + 1)
        BY Standing
      <4> QED BY <1>12, <4>1, StartLemma
    <3>4. p \in Nat
      BY <1>2 DEF WindowInv
    <3> QED BY <1>4, <3>1, <3>2, <3>4
  <2> HIDE DEF s, a, h, p, z
  <2>3. p + x = z - 1
    BY <2>2
  <2>4. Position' = p + x
    BY <1>10 DEF p
  <2> QED BY <2>1, <2>3, <2>4
<1>14. r.bad = 0
  <2>1. r.bad \in 0..L
    BY <1>2, LinesLemma DEF Reads
  <2>2. \A i \in 1..m : r.bad # i
    BY DEF Parsed, Fits
  <2>3. \A i \in M..L : r.bad # i
    BY <1>4
  <2>4. r.bad = 0 \/ r.bad \in 1..m \/ r.bad \in M..L
    <3> DEFINE c == r.bad
    <3> HIDE DEF c, L
    <3> QED BY <1>7, <2>1 DEF c
  <2> QED BY <2>2, <2>3, <2>4
<1>15. ~AtRest' /\ ~AtLine' /\ ~AtClose' /\ ~AtClose /\ pc' = "serve" /\ ~Filling'
  BY <1>5 DEF AtRest, AtLine, AtClose, Filling
<1>16. ReaderInv'
  <2>1. (raw \in [size : Int, cap : Int, gen : Int] /\ raw.size <= raw.cap)'
    BY <1>5 DEF IInv, ReaderInv
  <2> QED BY <1>10, <1>12, <1>13, <1>14, <1>15, <2>1 DEF ReaderInv
<1>17. ClientInv'
  BY <1>2, <1>5, ClientStays
<1>18. Answered' /\ err = "none" /\ ~(Len(served) > 0 /\ script[Len(served)].close)
  BY <1>5, <1>6, <1>15, AnsweredStays
<1>19. Closing'
  BY <1>5, <1>6, <1>15, <1>18 DEF Closing
<1> QED BY <1>10, <1>16, <1>17, <1>18, <1>19 DEF IInv

\* MessageRestView::parse() and what follows from its result.
LEMMA ParseRestKeeps ==
  ASSUME IInv, ParseRest
  PROVE  IInv'
<1> DEFINE r == script[Current]
<1>1. pc = "rest" /\ AtRest /\ ~AtClose
  BY DEF ParseRest, AtRest, AtClose
<1>2. Current \in 1..Len(script) /\ Len(script) \in Nat
  BY <1>1, Standing
<1>3. PICK m \in 1..Len(r.lines) : Parsed(m) /\ Stands(Current, m + 1)
  BY <1>1, Standing
<1>4. Reads(Window, r, m + 1)
  BY <1>3, StandsReads DEF IInv
<1>5. m \in Nat \ {0} /\ m <= Len(r.lines)
  <2>1. Len(r.lines) \in Nat
    BY <1>4, WindowLines
  <2> QED BY <1>3, <2>1
<1>6. CASE RestBad(Window, r)
  <2>1. err' = "illegal_byte_sequence" /\ pc' = "close" /\ UNCHANGED <<client, window, raw, served>>
    BY <1>6 DEF ParseRest, RestBad, window
  <2>2. ~Deliverable(r)
    BY <1>6 DEF RestBad, Deliverable
  <2>3. Current <= Len(script)
    BY <1>2
  <2> QED BY <1>1, <2>1, <2>2, <2>3, FailKeeps
<1>7. CASE RestDone(Window, r, m + 1)
  BY <1>3, <1>5, <1>7, RestEnds
<1>8. CASE \E j : RestMore(Window, r, m + 1, j)
  BY <1>3, <1>5, <1>8, RestGoesOn
<1> QED BY <1>4, <1>6, <1>7, <1>8, RestLemma

-----------------------------------------------------------------------------
(* The invariant. *)

\* The connection begins with nothing written and nothing read.
LEMMA InitHolds ==
  ASSUME Init
  PROVE  IInv
<1>1. /\ script \in Scripts /\ build = EmptyBuild /\ sent = 0 /\ wire = <<>> /\ taken = 0
      /\ mem = <<NoBlock>> /\ buffer = <<1>> /\ win = [block |-> 1, from |-> 0, to |-> 0]
      /\ raw = [size |-> 0, cap |-> BlockSize, gen |-> 0]
      /\ headers = {} /\ pc = "read" /\ err = "none" /\ served = <<>>
  BY DEF Init
<1>2. Len(script) \in Nat /\ StartOf(1) = 1 /\ \A k \in 1..Len(script) : Whole(script[k]) /\ StartOf(k) \in Nat
  BY <1>1, StartLemma
<1>3. \A k \in 1..Len(script) : StartOf(k) >= 1
  BY <1>1, StartPositive
<1>4. ClientInv
  <2>1. 0 < Len(script) => BuildOK(script[1])
    <3> SUFFICES ASSUME 0 < Len(script) PROVE BuildOK(script[1])
      OBVIOUS
    <3>1. Whole(script[1])
      BY <1>2
    <3> DEFINE e == EmptyBuild
    <3>2. /\ Holds(e, script[1]) /\ BuiltTo(e) = PieceAt(script[1], 0)
          /\ e.put = 0 /\ e.out = 0 /\ Len(e.blocks) = 1 /\ 0 <= Len(Pieces(script[1]))
      BY <3>1, EmptyHolds
    <3>3. build = e
      BY <1>1
    <3> HIDE DEF e
    <3>4. /\ Holds(build, script[1]) /\ BuiltTo(build) = PieceAt(script[1], 0)
          /\ build.put = 0 /\ build.out = 0 /\ Len(build.blocks) = 1 /\ 0 <= Len(Pieces(script[1]))
      BY <3>2, <3>3, Zenon
    <3> QED BY <3>4 DEF BuildOK
  <2>2. EmptyBuild.out = 0 /\ BlockAt(1) = 0
    BY BlockAtLemma DEF EmptyBuild
  <2>3. wire \in Seq(Octets) /\ Len(wire) = 0
    BY <1>1
  <2>4. Len(wire) = StartOf(sent + 1) - 1 + BlockAt(build.out + 1)
    BY <1>1, <1>2, <2>2, <2>3
  <2>5. \A k \in 1..Len(script) : \A n \in 1..HeadLen(script[k]) : ~(StartOf(k) - 1 + n <= Len(wire))
    <3> SUFFICES ASSUME NEW k \in 1..Len(script), NEW n \in 1..HeadLen(script[k]) PROVE ~(StartOf(k) - 1 + n <= 0)
      BY <2>3
    <3> DEFINE s == StartOf(k)
    <3>1. s \in Nat /\ s >= 1 /\ n \in Nat /\ n >= 1
      BY <1>1, <1>2, <1>3, StartLemma
    <3> HIDE DEF s
    <3> QED BY <3>1 DEF s
  <2> QED BY <1>1, <1>2, <2>1, <2>3, <2>4, <2>5 DEF ClientInv, WireOK
<1>5. WindowInv
  <2>1. NoBlock \in [1..BlockSize -> Nat]
    BY DEF NoBlock
  <2>2. mem \in Seq([1..BlockSize -> Nat]) /\ Len(mem) = 1 /\ buffer \in Seq(Nat) /\ Len(buffer) = 1 /\ buffer[1] = 1
    BY <1>1, <2>1
  <2>3. win.block = 1 /\ win.from = 0 /\ win.to = 0 /\ Position = 0
    BY <1>1 DEF Position
  <2>4. win \in [block : 1..Len(buffer), from : 0..BlockSize, to : 0..BlockSize]
    BY <1>1, <2>2, MessageAssumption
  <2>5. Len(wire) = 0
    BY <1>1
  <2> QED BY <1>1, <2>2, <2>3, <2>4, <2>5 DEF WindowInv
<1>6. Len(served) = 0 /\ served \in Seq(Nat) /\ Current = 1
  BY <1>1 DEF Current
<1>7. ReaderInv
  <2>1. Position = 0
    BY <1>1 DEF Position
  <2>2. raw \in [size : Int, cap : Int, gen : Int] /\ raw.size <= raw.cap
    BY <1>1, MessageAssumption
  <2>3. AtLine /\ ~AtRest /\ pc # "serve" /\ ~Filling
    BY <1>1 DEF AtLine, AtRest, Filling
  <2> QED BY <1>1, <1>2, <1>6, <2>1, <2>2, <2>3 DEF ReaderInv
<1>8. Answered
  BY <1>2, <1>6 DEF Answered
<1>9. Closing
  BY <1>1 DEF Closing, AtClose
<1> QED BY <1>4, <1>5, <1>7, <1>8, <1>9 DEF IInv

\* Every step of the client and of the server keeps it.
LEMMA StepKeeps ==
  ASSUME IInv, [Next]_vars
  PROVE  IInv'
<1>1. wire \in Seq(Octets) /\ Len(wire) \in Nat /\ Len(wire) >= Len(wire)
  BY DEF IInv, ClientInv, WireOK
<1>2. ASSUME UNCHANGED vars PROVE IInv'
  <2>1. UNCHANGED <<script, window, parsed, pc, err, served>> /\ UNCHANGED client /\ wire' = wire
    BY <1>2 DEF vars, client, window, parsed
  <2>2. ClientInv'
    BY <2>1, ClientStays DEF IInv
  <2>3. WindowInv' /\ ReaderInv' /\ Answered' /\ Closing'
    BY <1>1, <2>1, ServerStays
  <2> QED BY <2>2, <2>3 DEF IInv
<1>3. ASSUME ClientAppend PROVE IInv'
  <2>1. UNCHANGED <<script, window, parsed, pc, err, served>> /\ wire' = wire
    BY <1>3 DEF ClientAppend
  <2>2. ClientInv'
    BY <1>3, ClientAppendKeeps DEF IInv
  <2>3. WindowInv' /\ ReaderInv' /\ Answered' /\ Closing'
    BY <1>1, <2>1, ServerStays
  <2> QED BY <2>2, <2>3 DEF IInv
<1>4. ASSUME ClientWrite PROVE IInv'
  <2>1. UNCHANGED <<script, window, parsed, pc, err, served>>
    BY <1>4 DEF ClientWrite
  <2>2. ClientInv' /\ Len(wire') >= Len(wire) /\ \A p \in 1..Len(wire) : wire'[p] = wire[p]
    BY <1>4, ClientWriteKeeps DEF IInv
  <2>3. wire' \in Seq(Octets)
    BY <2>2 DEF ClientInv, WireOK
  <2>4. WindowInv' /\ ReaderInv' /\ Answered' /\ Closing'
    BY <2>1, <2>2, <2>3, ServerStays
  <2> QED BY <2>2, <2>4 DEF IInv
<1>5. ASSUME Read PROVE IInv'
  BY <1>5, ReadKeeps
<1>6. ASSUME ParseLine PROVE IInv'
  BY <1>6, ParseLineKeeps
<1>7. ASSUME ParseRest PROVE IInv'
  BY <1>7, ParseRestKeeps
<1>8. ASSUME NEW n \in 1..BlockSize, Fill(n) PROVE IInv'
  BY <1>8, FillKeeps
<1>9. ASSUME NEW e \in {"illegal_byte_sequence", "not_connected"}, FillFails(e) PROVE IInv'
  BY <1>9, FillFailsKeeps
<1>10. ASSUME FillReset PROVE IInv'
  BY <1>10, FillResetKeeps
<1>11. ASSUME Serve PROVE IInv'
  BY <1>11, ServeKeeps
<1>12. ASSUME Deregister PROVE IInv'
  BY <1>12, DeregisterKeeps
<1> QED BY <1>2, <1>3, <1>4, <1>5, <1>6, <1>7, <1>8, <1>9, <1>10, <1>11, <1>12 DEF Next, ClientStep, ServerStep

\* The octets of the script are the octets of the builder's blocks, of the
\* wire and of the window, in order, and the reader stands at the start of a
\* line of the request after those answered, whose earlier lines have views
\* in memory that rotate() and fill() do not write before the next read().
THEOREM Invariance == Spec => []IInv
<1>1. Init => IInv
  BY InitHolds
<1>2. IInv /\ [Next]_vars => IInv'
  BY StepKeeps
<1> QED BY <1>1, <1>2, PTL DEF Spec

-----------------------------------------------------------------------------
(* The properties. *)

\* The types of the window and of the blocks.
LEMMA TypesHold ==
  ASSUME IInv
  PROVE  TypeOK /\ "0" \notin {wire[i] : i \in DOMAIN wire}
<1>1. /\ mem \in Seq([1..BlockSize -> Nat]) /\ buffer \in Seq(Nat) /\ Len(buffer) = Len(mem)
      /\ \A i \in 1..Len(buffer) : buffer[i] \in 1..Len(mem)
      /\ \A a \in 1..Len(mem) : \E i \in 1..Len(buffer) : buffer[i] = a
      /\ taken <= Len(wire)
  BY DEF IInv, WindowInv
<1>2. DOMAIN buffer = 1..Len(buffer) /\ DOMAIN mem = 1..Len(mem)
  BY <1>1
<1>3. {buffer[i] : i \in DOMAIN buffer} = DOMAIN mem
  <2>1. \A i \in DOMAIN buffer : buffer[i] \in DOMAIN mem
    BY <1>1, <1>2
  <2>2. \A a \in DOMAIN mem : \E i \in DOMAIN buffer : a = buffer[i]
    BY <1>1, <1>2
  <2> QED BY <2>1, <2>2
<1>4. win.block \in DOMAIN buffer /\ 0 <= win.from /\ win.from <= win.to /\ win.to <= BlockSize
  <2>1. WindowInv
    BY DEF IInv
  <2> QED BY <1>2, <2>1, BlocksLemma
<1>5. wire \in Seq(Octets)
  BY DEF IInv, ClientInv, WireOK
<1>6. \A i \in DOMAIN wire : wire[i] \in Octets
  BY <1>5
<1> QED BY <1>1, <1>3, <1>4, <1>6 DEF TypeOK, Octets

\* The spans of the lines of a request of which every line is parsed.
LEMMA SpansHold ==
  ASSUME Current \in 1..Len(script), script \in Scripts, Parsed(Len(script[Current].lines))
  PROVE  {SpanOf(line.view)} \cup {SpanOf(h) : h \in headers} = LineSpans(Current)
<1> DEFINE k == Current
           L == Len(script[k].lines)
           S(i) == Span(k, i)
<1>1. L \in Nat /\ L > 0 /\ DOMAIN script[k].lines = 1..L
  <2>1. Whole(script[k])
    BY StartLemma
  <2>2. L \in Nat \ {0}
    BY <2>1, LinesLemma
  <2>3. script[k].lines \in Seq(1..BlockSize)
    BY <2>1 DEF Whole, Request
  <2> QED BY <2>2, <2>3
<1>2. SpanOf(line.view) = S(1) /\ {SpanOf(h) : h \in headers} = {S(i) : i \in 2..L}
  BY DEF Parsed
<1>3. LineSpans(k) = {S(i) : i \in 1..L}
  BY <1>1 DEF LineSpans, Span
<1>4. \A i : i \in 1..L <=> i = 1 \/ i \in 2..L
  <2> HIDE DEF L
  <2> QED BY <1>1
<1>5. {S(1)} \cup {S(i) : i \in 2..L} = {S(i) : i \in 1..L}
  <2> HIDE DEF L, S, k
  <2> QED BY <1>4
<1> QED BY <1>2, <1>3, <1>5

\* The path of the current request stays where it was decoded: no query is
\* decoded behind it into the same string.
StaysPut == script[Current].target = "encoded" => script[Current].query = 0

\* The request the service sees is the next request of the script.
LEMMA ServedHead ==
  ASSUME IInv, StaysPut, pc = "serve"
  PROVE  HeadsExact
<1> DEFINE k == Current
           r == script[k]
           L == Len(r.lines)
<1>1. k <= Len(script) /\ Parsed(L) /\ r.bad = 0 /\ Position = StartOf(k + 1) - 1
  BY DEF IInv, ReaderInv
<1>2. script \in Scripts /\ Len(script) \in Nat /\ k \in 1..(Len(script) + 1)
  BY Standing
<1>3. k \in 1..Len(script) /\ script \in Seq(Request)
  BY <1>1, <1>2, MessageAssumption
<1>4. Whole(r) /\ StartOf(k) \in Nat /\ StartOf(k + 1) \in Nat
  BY <1>2, <1>3, StartLemma
<1>5. {SpanOf(line.view)} \cup {SpanOf(h) : h \in headers} = LineSpans(k)
  BY <1>1, <1>2, <1>3, SpansHold
<1>6. line.view.pos = StartOf(k)
  <2>1. SpanOf(line.view) = Span(k, 1)
    BY <1>1 DEF Parsed
  <2>2. line.view.pos = StartOf(k) + LineAt(r, 1)
    BY <2>1 DEF SpanOf, Span
  <2>3. LineAt(r, 1) = 0
    BY <1>4, LinesLemma
  <2> QED BY <1>4, <2>2, <2>3
<1>7. Intact(line.view) /\ \A h \in headers : Intact(h)
  BY <1>1 DEF Parsed, Kept
<1>8. r.target \in PathForms => Fresh(line.path, k)
  <2> SUFFICES ASSUME r.target \in PathForms PROVE Fresh(line.path, k)
    OBVIOUS
  <2>1. line.path.in = "block" => line.path.view = line.view
    BY <1>1 DEF Parsed, PathHeld
  <2>2. line.path.view = line.view => Intact(line.path.view)
    BY <1>7, Zenon DEF Intact
  <2>3. line.path.in = "raw" => line.path.gen = raw.gen
    BY <1>1 DEF Parsed, PathHeld, StaysPut
  <2> QED BY <1>6, <2>1, <2>2, <2>3 DEF Fresh
<1>9. r.target \in QueryForms => Fresh(line.query, k)
  <2> SUFFICES ASSUME r.target \in QueryForms PROVE Fresh(line.query, k)
    OBVIOUS
  <2>1. line.query.in # "raw" /\ (line.query.in = "block" => line.query.view = line.view)
    BY <1>1 DEF Parsed, QueryHeld
  <2>2. line.query.view = line.view => Intact(line.query.view)
    BY <1>7, Zenon DEF Intact
  <2> QED BY <1>6, <2>1, <2>2 DEF Fresh
<1>10. WindowInv
  BY DEF IInv
<1> DEFINE z == StartOf(k + 1)
           p == Position
           d == win.to - win.from
<1>11. p = z - 1 /\ z \in Nat /\ p \in Nat /\ d \in Int /\ taken \in Nat /\ p = taken - d
  <2>1. win.to \in Nat /\ win.from \in Nat
    BY <1>10, BlocksLemma
  <2>2. p \in Nat /\ taken \in Nat
    BY <1>10 DEF WindowInv
  <2> QED BY <1>1, <1>4, <2>1, <2>2 DEF Position
<1>12. \A i \in 1..d : mem[Active][win.from + i] = z + i - 1
  <2> SUFFICES ASSUME NEW i \in 1..d PROVE mem[Active][win.from + i] = z + i - 1
    OBVIOUS
  <2>1. mem[Active][win.from + i] = p + i
    BY <1>10 DEF WindowInv
  <2>2. p + i = z + i - 1
    <3>1. i \in Int
      BY <1>11
    <3> HIDE DEF p, z, d
    <3> QED BY <1>11, <3>1
  <2> QED BY <2>1, <2>2
<1>13. z + win.to - win.from = taken + 1
  <2>1. win.to \in Nat /\ win.from \in Nat
    BY <1>10, BlocksLemma
  <2>2. z + d = taken + 1
    <3> HIDE DEF p, z, d
    <3> QED BY <1>11
  <2>3. z + win.to - win.from = z + d
    <3> HIDE DEF z
    <3> QED BY <1>11, <2>1
  <2> QED BY <2>2, <2>3
<1> QED BY <1>5, <1>6, <1>7, <1>8, <1>9, <1>12, <1>13, TypesHold DEF HeadsExact

\* Message::read(): when the service runs, the views it is given are the lines
\* of the next request the client built, whole and where they were parsed, and
\* what is left of the window are the octets behind that head, for every block
\* size and every script of requests of all forms of target.  The path and the
\* query are claimed of the forms that have them: the others keep those of an
\* earlier request (TargetDefaults).  One request is excepted: the one whose
\* path is decoded and followed by a query, because RequestLine::parse() keeps
\* the path as a view of a string that decoding the query may move
\* (request/line.h 66-67).
THEOREM HeadsExactEach == Spec => []((pc = "serve" => StaysPut) => HeadsExact)
<1>1. IInv => ((pc = "serve" => StaysPut) => HeadsExact)
  <2> SUFFICES ASSUME IInv, pc = "serve" => StaysPut PROVE HeadsExact
    OBVIOUS
  <2>1. CASE pc = "serve"
    BY <2>1, ServedHead
  <2>2. CASE pc # "serve"
    BY <2>2, TypesHold DEF HeadsExact
  <2> QED BY <2>1, <2>2
<1> QED BY <1>1, Invariance, PTL

\* Hence HeadsExact holds of every client that sends no request with an
\* escape in its path and a query behind it.
THEOREM HeadsExactHolds ==
  ASSUME \A s \in Scripts : \A i \in DOMAIN s : s[i].target = "encoded" => s[i].query = 0
  PROVE  Spec => []HeadsExact
<1>1. IInv => (pc = "serve" => StaysPut)
  <2> SUFFICES ASSUME IInv, pc = "serve" PROVE StaysPut
    OBVIOUS
  <2>1. Current <= Len(script) /\ Current \in 1..(Len(script) + 1) /\ script \in Scripts /\ Len(script) \in Nat
    BY Standing DEF IInv, ReaderInv
  <2>2. Current \in 1..Len(script) /\ script \in Seq(Request)
    BY <2>1, MessageAssumption
  <2>3. Current \in DOMAIN script
    BY <2>2
  <2> QED BY <2>1, <2>3 DEF StaysPut
<1> QED BY <1>1, Invariance, HeadsExactEach, PTL

\* The requests up to the first that cannot be delivered or asked to close.
LEMMA LeadingIs ==
  ASSUME IInv, AtClose, err # "connection_reset"
  PROVE  Leading = 1..Len(served)
<1> DEFINE n == Len(served)
           L == Len(script)
<1>1. script \in Scripts /\ L \in Nat /\ n \in Nat /\ Current = n + 1
  BY Standing
<1>2. DOMAIN script = 1..L
  BY <1>1, MessageAssumption
<1>3. n <= L /\ \A k \in 1..n : Deliverable(script[k]) /\ (k < n => ~script[k].close)
  BY DEF IInv, Answered
<1>4. \/ n > 0 /\ script[n].close
      \/ n + 1 <= L /\ ~Deliverable(script[n + 1])
      \/ n = L
  BY <1>1 DEF IInv, Closing
<1> HIDE DEF n, L
<1>5. ASSUME NEW k \in 1..n PROVE k \in Leading
  <2>1. k \in DOMAIN script
    BY <1>1, <1>2, <1>3
  <2>2. ASSUME NEW j \in 1..k PROVE Deliverable(script[j]) /\ (j < k => ~script[j].close)
    <3>1. j \in 1..n /\ (j < k => j < n)
      BY <1>1
    <3> QED BY <1>3, <3>1
  <2> QED BY <2>1, <2>2 DEF Leading
<1>6. ASSUME NEW k \in Leading PROVE k \in 1..n
  <2>1. k \in 1..L /\ \A j \in 1..k : Deliverable(script[j]) /\ (j < k => ~script[j].close)
    BY <1>2 DEF Leading
  <2>2. SUFFICES ASSUME k > n PROVE FALSE
    BY <1>1, <2>1
  <2>3. n > 0 => n \in 1..k /\ n < k
    BY <1>1, <2>1, <2>2
  <2>4. n + 1 \in 1..k /\ n # L
    BY <1>1, <2>1, <2>2
  <2> QED BY <1>4, <2>1, <2>3, <2>4
<1> QED BY <1>5, <1>6 DEF n

\* The serving loop: a connection that no error of the transport cut short has
\* answered every request up to the first one that cannot be delivered or that
\* asked to close, each once and in order, and read() refused nothing else.
THEOREM AnswersCompleteHolds == Spec => []AnswersComplete
<1>1. IInv => AnswersComplete
  <2> SUFFICES ASSUME IInv, pc = "closed", err # "connection_reset"
               PROVE  /\ Len(served) = Cardinality(Leading)
                      /\ \A k \in DOMAIN served : served[k] = StartOf(k)
                      /\ err = "illegal_byte_sequence" <=> \E k \in DOMAIN script : k = Current /\ ~Deliverable(script[k])
                                                              /\ \A j \in 1..(k - 1) : ~script[j].close
    BY DEF AnswersComplete
  <2> DEFINE n == Len(served)
             L == Len(script)
  <2>1. script \in Scripts /\ L \in Nat /\ n \in Nat /\ Current = n + 1 /\ served \in Seq(Nat) /\ DOMAIN served = 1..n
    BY Standing
  <2>2. AtClose /\ DOMAIN script = 1..L
    BY <2>1, MessageAssumption DEF AtClose
  <2>3. n = Cardinality(Leading)
    <3>1. Leading = 1..n
      BY <2>2, LeadingIs
    <3>2. Cardinality(1..n) = n
      <4> HIDE DEF n
      <4> QED BY <2>1, FS_Interval
    <3> QED BY <3>1, <3>2
  <2>4. \A k \in DOMAIN served : served[k] = StartOf(k)
    BY <2>1 DEF IInv, Answered
  <2>5. ASSUME err = "illegal_byte_sequence"
        PROVE  \E k \in DOMAIN script : k = Current /\ ~Deliverable(script[k]) /\ \A j \in 1..(k - 1) : ~script[j].close
    <3>1. n + 1 <= L /\ ~Deliverable(script[n + 1])
      BY <2>1, <2>5 DEF IInv, Closing
    <3>2. (\A k \in 1..n : k < n => ~script[k].close) /\ ~(n > 0 /\ script[n].close)
      BY <2>5 DEF IInv, Answered
    <3> HIDE DEF n, L
    <3>3. n + 1 \in DOMAIN script /\ (n + 1) - 1 = n
      BY <2>1, <2>2, <3>1
    <3>4. ASSUME NEW j \in 1..((n + 1) - 1) PROVE ~script[j].close
      <4>1. j \in 1..n /\ (j < n \/ (j = n /\ n > 0))
        BY <2>1, <3>3
      <4> QED BY <3>2, <4>1
    <3> QED BY <2>1, <3>1, <3>3, <3>4
  <2>6. ASSUME err # "illegal_byte_sequence", NEW k \in DOMAIN script, k = Current, ~Deliverable(script[k]),
               \A j \in 1..(k - 1) : ~script[j].close
        PROVE  FALSE
    <3>1. err \in {"none", "not_connected"}
      BY <2>6 DEF IInv, Closing
    <3>2. (err = "none" => n > 0 /\ script[n].close) /\ (err = "not_connected" => n = L)
      BY <2>2 DEF IInv, Closing
    <3> HIDE DEF n, L
    <3>3. k = n + 1 /\ k \in 1..L /\ (n > 0 => n \in 1..(k - 1)) /\ n # L
      BY <2>1, <2>2, <2>6
    <3> QED BY <2>6, <3>1, <3>2, <3>3
  <2> QED BY <2>3, <2>4, <2>5, <2>6
<1> QED BY <1>1, Invariance, PTL
=============================================================================
