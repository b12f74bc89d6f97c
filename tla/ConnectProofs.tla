--------------------------- MODULE ConnectProofs ---------------------------
(***************************************************************************)
(* Proofs about Connect and the transfer loops it composes (Transfer), for *)
(* every payload, buffer size, number of arrivals and of addresses.  The   *)
(* first part shows what the operators on payloads compute: the size of a  *)
(* payload is the sum of its chunks, and Advance finds the chunk and the   *)
(* offset that stand for the bytes written.  The second is the inductive   *)
(* invariant TInv of the transfers, the third the invariant CInv of the    *)
(* connection attempts.                                                    *)
(***************************************************************************)
EXTENDS Connect, FiniteSetTheorems, SequenceTheorems, TLAPS

-----------------------------------------------------------------------------
(* The bytes of a payload.  Facts about the recursive FlattenSeq are shown *)
(* with the least index at which they could fail.                          *)

LEMMA LeastNat ==
  ASSUME NEW T \in SUBSET Nat, T # {}
  PROVE  \E n \in T : \A m \in T : n <= m
<1> DEFINE U == {0..n : n \in T}
<1>1. U \subseteq FiniteSubsetsOf(Nat)
  <2> SUFFICES ASSUME NEW n \in T PROVE 0..n \in FiniteSubsetsOf(Nat)
    OBVIOUS
  <2>1. IsFiniteSet(0..n)
    BY FS_Interval
  <2> QED BY <2>1 DEF FiniteSubsetsOf
<1>2. U # {}
  OBVIOUS
<1>3. IsWellFoundedOn(StrictSubsetOrdering(Nat), FiniteSubsetsOf(Nat))
  BY FS_StrictSubsetOrderingWellFounded
<1>4. \E x \in U : \A y \in U : ~ (<<y, x>> \in StrictSubsetOrdering(Nat))
  <2> HIDE DEF U
  <2> QED BY <1>1, <1>2, <1>3, WFMin
<1>5. PICK n \in T : \A m \in T : ~ (<<0..m, 0..n>> \in StrictSubsetOrdering(Nat))
  BY <1>4
<1>6. ASSUME NEW m \in T, ~ (n <= m) PROVE FALSE
  <2>1. n \in 0..n /\ n \notin 0..m
    BY <1>6
  <2>2. 0..m \subseteq 0..n /\ 0..m \subseteq Nat /\ 0..n \subseteq Nat
    BY <1>6
  <2> QED BY <1>5, <2>1, <2>2 DEF StrictSubsetOrdering
<1> QED BY <1>6

\* f concatenates ever more of the sequences of s.
Joins(f, s, S, n) ==
  /\ f \in [1..n -> Seq(S)]
  /\ \A i \in 1..n : f[i] = IF i = 1 THEN s[i] ELSE f[i - 1] \o s[i]

LEMMA JoinsExist ==
  ASSUME NEW S, NEW s \in Seq(Seq(S)), NEW n \in 1..Len(s)
  PROVE  \E f : Joins(f, s, S, n)
<1> DEFINE P(k) == \E f : Joins(f, s, S, k)
           T == {k \in 1..n : ~ P(k)}
<1>0. n \in Nat /\ n \in 1..n /\ \A i \in 1..n : s[i] \in Seq(S)
  OBVIOUS
<1>3. 1 \in 1..n => P(1)
  <2> DEFINE g == [i \in 1..1 |-> s[1]]
  <2>1. Joins(g, s, S, 1)
    BY <1>0 DEF Joins
  <2> QED BY <2>1
<1>4. ASSUME NEW m \in 1..n, m # 1, P(m - 1) PROVE P(m)
  <2>2. PICK f : Joins(f, s, S, m - 1)
    BY <1>4
  <2>3. f \in [1..(m - 1) -> Seq(S)] /\ f[m - 1] \in Seq(S)
    BY <1>0, <1>4, <2>2 DEF Joins
  <2> DEFINE e == f[m - 1] \o s[m]
             g == [i \in 1..m |-> IF i = m THEN e ELSE f[i]]
  <2>4. e \in Seq(S)
    BY <1>0, <2>3, ConcatProperties
  <2>5. /\ g \in [1..m -> Seq(S)] /\ g[m] = e
        /\ \A i \in 1..(m - 1) : g[i] = f[i]
    <3> HIDE DEF e
    <3> QED BY <1>0, <2>3, <2>4
  <2> HIDE DEF g
  <2>6. ASSUME NEW i \in 1..m PROVE g[i] = IF i = 1 THEN s[i] ELSE g[i - 1] \o s[i]
    <3>1. CASE i = m
      <4>1. m - 1 \in 1..(m - 1)
        BY <1>0, <1>4
      <4> QED BY <1>4, <2>5, <3>1, <4>1
    <3>2. CASE i # m
      <4>1. i \in 1..(m - 1)
        BY <1>0, <2>6, <3>2
      <4>2. f[i] = IF i = 1 THEN s[i] ELSE f[i - 1] \o s[i]
        BY <2>2, <4>1 DEF Joins
      <4>3. i # 1 => i - 1 \in 1..(m - 1)
        BY <1>0, <4>1
      <4> QED BY <2>5, <4>1, <4>2, <4>3
    <3> QED BY <3>1, <3>2
  <2>7. Joins(g, s, S, m)
    BY <2>5, <2>6 DEF Joins
  <2> QED BY <2>7
<1> HIDE DEF P
<1>5. T = {}
  <2> SUFFICES ASSUME T # {} PROVE FALSE
    OBVIOUS
  <2>1. PICK m \in T : \A k \in T : m <= k
    <3>1. T \subseteq Nat
      BY <1>0
    <3> QED BY <3>1, LeastNat
  <2>2. m \in 1..n /\ ~ P(m)
    BY <2>1
  <2>3. CASE m = 1
    BY <1>3, <2>2, <2>3
  <2>4. CASE m # 1
    <3>1. m - 1 \in 1..n /\ ~ (m <= m - 1)
      BY <1>0, <2>2, <2>4
    <3>2. P(m - 1)
      BY <2>1, <3>1
    <3> QED BY <1>4, <2>2, <2>4, <3>2
  <2> QED BY <2>3, <2>4
<1>6. P(n)
  BY <1>0, <1>5
<1> QED BY <1>6 DEF P

LEMMA FlattenJoins ==
  ASSUME NEW S, NEW s \in Seq(Seq(S)), Len(s) # 0
  PROVE  \E f : Joins(f, s, S, Len(s)) /\ FlattenSeq(s) = f[Len(s)]
<1>0. Len(s) \in Nat /\ Len(s) \in 1..Len(s) /\ \A i \in 1..Len(s) : s[i] \in Seq(S)
  OBVIOUS
<1> DEFINE n == Len(s)
           Eq(f) == f = [i \in 1..n |-> IF i = 1 THEN s[i] ELSE f[i - 1] \o s[i]]
           g == CHOOSE f : Eq(f)
<1>1. FlattenSeq(s) = g[n]
  BY DEF FlattenSeq
<1>2. \E f : Eq(f)
  <2>1. PICK f : Joins(f, s, S, n)
    BY <1>0, JoinsExist
  <2>2. f = [i \in 1..n |-> f[i]] /\ \A i \in 1..n : f[i] = IF i = 1 THEN s[i] ELSE f[i - 1] \o s[i]
    BY <2>1 DEF Joins
  <2>3. Eq(f)
    BY <2>2
  <2> QED BY <2>3
<1>3. Eq(g)
  BY <1>2
<1> HIDE DEF g
<1>4. /\ g = [i \in 1..n |-> g[i]]
      /\ \A i \in 1..n : g[i] = IF i = 1 THEN s[i] ELSE g[i - 1] \o s[i]
  BY <1>3
<1>5. \A i \in 1..n : g[i] \in Seq(S)
  <2> DEFINE T == {i \in 1..n : g[i] \notin Seq(S)}
  <2> SUFFICES ASSUME T # {} PROVE FALSE
    OBVIOUS
  <2>1. PICK m \in T : \A k \in T : m <= k
    <3>1. T \subseteq Nat
      OBVIOUS
    <3> QED BY <3>1, LeastNat
  <2>2. m \in 1..n /\ g[m] \notin Seq(S)
    BY <2>1
  <2>3. m # 1
    BY <1>0, <1>4, <2>2
  <2>4. m - 1 \in 1..n /\ m - 1 \notin T
    BY <1>0, <2>1, <2>2, <2>3
  <2>5. g[m] = g[m - 1] \o s[m] /\ g[m - 1] \in Seq(S) /\ s[m] \in Seq(S)
    BY <1>0, <1>4, <2>2, <2>3, <2>4
  <2> QED BY <2>2, <2>5, ConcatProperties
<1>6. g \in [1..n -> Seq(S)]
  BY <1>4, <1>5
<1> QED BY <1>1, <1>4, <1>6 DEF Joins

\* The chunks of a payload as sequences of bytes.
Chunks(p) == [i \in DOMAIN p |-> [k \in 1..p[i] |-> <<i, k>>]]

LEMMA ChunksType ==
  ASSUME NEW p \in Seq(Nat)
  PROVE  /\ Chunks(p) \in Seq(Seq(Nat \X Nat)) /\ Len(Chunks(p)) = Len(p)
         /\ \A i \in 1..Len(p) : Len(Chunks(p)[i]) = p[i]
<1> DEFINE c(i) == [k \in 1..p[i] |-> <<i, k>>]
<1>1. DOMAIN p = 1..Len(p) /\ Len(p) \in Nat /\ \A i \in 1..Len(p) : p[i] \in Nat /\ i \in Nat
  OBVIOUS
<1>2. ASSUME NEW i \in 1..Len(p) PROVE c(i) \in Seq(Nat \X Nat) /\ Len(c(i)) = p[i]
  <2>1. \A k \in 1..p[i] : <<i, k>> \in Nat \X Nat
    BY <1>1
  <2> QED BY <1>1, <2>1
<1>3. Chunks(p) = [i \in 1..Len(p) |-> c(i)]
  BY <1>1 DEF Chunks
<1> HIDE DEF c
<1>4. [i \in 1..Len(p) |-> c(i)] \in Seq(Seq(Nat \X Nat))
  BY <1>1, <1>2
<1> QED BY <1>1, <1>2, <1>3, <1>4

\* The bytes of a payload and of its first chunks; the lengths add up.
Running(f, p) ==
  /\ Bytes(p) = f[Len(p)]
  /\ \A i \in 1..Len(p) : f[i] \in Seq(Nat \X Nat)
  /\ Len(f[1]) = p[1]
  /\ \A i \in 1..Len(p) : i # 1 => Len(f[i]) = Len(f[i - 1]) + p[i]

LEMMA BytesRun ==
  ASSUME NEW p \in Seq(Nat), Len(p) # 0
  PROVE  \E f : Running(f, p)
<1> DEFINE n == Len(p)
           s == Chunks(p)
           B == Nat \X Nat
<1>1. s \in Seq(Seq(B)) /\ Len(s) = n /\ \A i \in 1..n : Len(s[i]) = p[i]
  BY ChunksType
<1>2. n \in 1..n /\ 1 \in 1..n /\ n \in Nat
  OBVIOUS
<1>3. Bytes(p) = FlattenSeq(s)
  BY DEF Bytes, Chunks
<1> HIDE DEF s, B
<1>4. \E f : Joins(f, s, B, Len(s)) /\ FlattenSeq(s) = f[Len(s)]
  <2>1. Len(s) # 0
    BY <1>1
  <2> HIDE DEF n
  <2> QED BY <1>1, <2>1, FlattenJoins
<1>5. PICK f : Joins(f, s, B, n) /\ FlattenSeq(s) = f[n]
  BY <1>1, <1>4
<1>6. \A i \in 1..n : f[i] \in Seq(B) /\ s[i] \in Seq(B)
  <2>1. \A i \in 1..n : s[i] \in Seq(B)
    BY <1>1, ElementOfSeq
  <2>2. \A i \in 1..n : f[i] \in Seq(B)
    BY <1>5 DEF Joins
  <2> QED BY <2>1, <2>2
<1>7. Len(f[1]) = p[1]
  BY <1>1, <1>2, <1>5 DEF Joins
<1>8. ASSUME NEW i \in 1..n, i # 1 PROVE Len(f[i]) = Len(f[i - 1]) + p[i]
  <2>1. i - 1 \in 1..n
    BY <1>2, <1>8
  <2>2. f[i] = f[i - 1] \o s[i]
    BY <1>5, <1>8 DEF Joins
  <2> DEFINE a == f[i - 1]
             b == s[i]
  <2>3. a \in Seq(B) /\ b \in Seq(B) /\ Len(b) = p[i]
    BY <1>1, <1>6, <2>1
  <2> HIDE DEF a, b
  <2>4. Len(a \o b) = Len(a) + Len(b)
    BY <2>3
  <2> QED BY <2>2, <2>3, <2>4 DEF a, b
<1> QED BY <1>3, <1>5, <1>6, <1>7, <1>8 DEF Running, B

LEMMA BytesNone == ASSUME NEW p \in Seq(Nat), Len(p) = 0 PROVE Bytes(p) = <<>>
<1>1. Len(Chunks(p)) = 0 /\ Chunks(p) \in Seq(Seq(Nat \X Nat))
  BY ChunksType
<1>2. Chunks(p) = <<>>
  BY <1>1
<1>3. Bytes(p) = FlattenSeq(Chunks(p))
  BY DEF Bytes, Chunks
<1> QED BY <1>1, <1>2, <1>3 DEF FlattenSeq

LEMMA BytesType ==
  ASSUME NEW p \in Seq(Nat)
  PROVE  Bytes(p) \in Seq(Nat \X Nat) /\ Size(p) \in Nat
<1>1. Bytes(p) \in Seq(Nat \X Nat)
  <2>2. CASE Len(p) = 0
    <3>1. Bytes(p) = <<>>
      BY <2>2, BytesNone
    <3> QED BY <3>1
  <2>3. CASE Len(p) # 0
    <3>1. PICK f : Running(f, p)
      BY <2>3, BytesRun
    <3>2. Len(p) \in 1..Len(p)
      BY <2>3
    <3> QED BY <3>1, <3>2 DEF Running
  <2> QED BY <2>2, <2>3
<1> QED BY <1>1, LenProperties DEF Size

\* The size of a payload is the running sum of its chunk sizes.
Sums(c, p) ==
  /\ \A i \in 0..Len(p) : c[i] \in Nat
  /\ c[0] = 0
  /\ \A i \in 1..Len(p) : c[i] = c[i - 1] + p[i]

LEMMA SizeSums ==
  ASSUME NEW p \in Seq(Nat), NEW c, Sums(c, p)
  PROVE  Size(p) = c[Len(p)]
<1>0. Len(p) \in Nat /\ \A i \in 1..Len(p) : p[i] \in Nat
  OBVIOUS
<1>1. CASE Len(p) = 0
  <2>1. Bytes(p) = <<>>
    BY <1>1, BytesNone
  <2>2. Len(<<>>) = 0
    OBVIOUS
  <2> QED BY <1>1, <2>1, <2>2 DEF Size, Sums
<1>2. CASE Len(p) # 0
  <2> DEFINE n == Len(p)
  <2>1. PICK f : Running(f, p)
    BY <1>2, BytesRun
  <2>2. n \in 1..n /\ 1 \in 1..n
    BY <1>0, <1>2
  <2> DEFINE T == {i \in 1..n : Len(f[i]) # c[i]}
  <2>4. T = {}
    <3> SUFFICES ASSUME T # {} PROVE FALSE
      OBVIOUS
    <3>1. PICK m \in T : \A k \in T : m <= k
      <4>1. T \subseteq Nat
        BY <1>0
      <4> QED BY <4>1, LeastNat
    <3>2. m \in 1..n /\ Len(f[m]) # c[m] /\ c[m] = c[m - 1] + p[m]
      BY <3>1 DEF Sums
    <3>3. CASE m = 1
      <4>1. Len(f[1]) = p[1] /\ c[1] = c[0] + p[1] /\ p[1] \in Nat /\ c[0] = 0
        BY <1>0, <2>1, <2>2, <3>2, <3>3 DEF Running, Sums
      <4> QED BY <3>2, <3>3, <4>1
    <3>4. CASE m # 1
      <4>1. m - 1 \in 1..n /\ ~ (m <= m - 1)
        BY <1>0, <3>2, <3>4
      <4>2. Len(f[m - 1]) = c[m - 1]
        BY <3>1, <4>1
      <4>3. Len(f[m]) = Len(f[m - 1]) + p[m]
        BY <2>1, <3>2, <3>4 DEF Running
      <4> QED BY <3>2, <4>2, <4>3
    <3> QED BY <3>3, <3>4
  <2>5. Len(f[n]) = c[n]
    BY <2>2, <2>4
  <2> QED BY <2>1, <2>5 DEF Size, Running
<1> QED BY <1>1, <1>2

LEMMA SumsExist ==
  ASSUME NEW p \in Seq(Nat)
  PROVE  \E c : Sums(c, p)
<1>0. Len(p) \in Nat /\ \A i \in 1..Len(p) : p[i] \in Nat
  OBVIOUS
<1>1. CASE Len(p) = 0
  <2> DEFINE c == [i \in 0..0 |-> 0]
  <2>1. c[0] = 0 /\ \A i \in 0..Len(p) : c[i] \in Nat
    BY <1>1
  <2>2. \A i \in 1..Len(p) : c[i] = c[i - 1] + p[i]
    BY <1>1
  <2>3. Sums(c, p)
    BY <2>1, <2>2 DEF Sums
  <2> QED BY <2>3
<1>2. CASE Len(p) # 0
  <2> DEFINE n == Len(p)
  <2>1. PICK f : Running(f, p)
    BY <1>2, BytesRun
  <2>2. n \in 1..n /\ n \in Nat
    BY <1>0, <1>2
  <2> DEFINE c == [i \in 0..n |-> IF i = 0 THEN 0 ELSE Len(f[i])]
  <2>4. c[0] = 0 /\ \A i \in 1..n : c[i] = Len(f[i])
    BY <2>2
  <2> HIDE DEF c
  <2>5. \A i \in 0..n : c[i] \in Nat
    <3> SUFFICES ASSUME NEW i \in 0..n PROVE c[i] \in Nat
      OBVIOUS
    <3>1. i # 0 => i \in 1..n
      BY <2>2
    <3>2. i # 0 => Len(f[i]) \in Nat
      BY <2>1, <3>1, LenProperties DEF Running
    <3> QED BY <2>4, <3>1, <3>2
  <2>6. ASSUME NEW i \in 1..n PROVE c[i] = c[i - 1] + p[i]
    <3>1. CASE i = 1
      <4>1. Len(f[1]) = p[1] /\ p[1] \in Nat
        BY <1>0, <2>1, <2>6, <3>1 DEF Running
      <4> QED BY <2>4, <2>6, <3>1, <4>1
    <3>2. CASE i # 1
      <4>1. i - 1 \in 1..n
        BY <2>2, <2>6, <3>2
      <4>2. Len(f[i]) = Len(f[i - 1]) + p[i]
        BY <2>1, <2>6, <3>2 DEF Running
      <4> QED BY <2>4, <2>6, <4>1, <4>2
    <3> QED BY <3>1, <3>2
  <2>7. Sums(c, p)
    BY <2>4, <2>5, <2>6 DEF Sums
  <2> QED BY <2>7
<1> QED BY <1>1, <1>2

\* Consecutive runs of chunks: their sizes add up.
LEMMA SizeSplit ==
  ASSUME NEW p \in Seq(Nat), NEW i \in 0..Len(p), NEW j \in i..Len(p)
  PROVE  /\ Size(SubSeq(p, 1, i)) \in Nat /\ Size(SubSeq(p, i + 1, j)) \in Nat
         /\ Size(SubSeq(p, 1, j)) = Size(SubSeq(p, 1, i)) + Size(SubSeq(p, i + 1, j))
<1>0. Len(p) \in Nat /\ i \in Nat /\ j \in Nat /\ i <= j /\ j <= Len(p)
      /\ \A k \in 1..Len(p) : p[k] \in Nat
  OBVIOUS
<1>1. PICK c : Sums(c, p)
  BY SumsExist
<1>2. ASSUME NEW m \in 0..Len(p)
      PROVE  Size(SubSeq(p, 1, m)) = c[m]
  <2> DEFINE q == SubSeq(p, 1, m)
  <2>1. q \in Seq(Nat) /\ Len(q) = m /\ \A k \in 1..m : q[k] = p[k]
    BY <1>0, <1>2
  <2>2. 0..m \subseteq 0..Len(p) /\ 1..m \subseteq 1..Len(p)
    BY <1>0, <1>2
  <2> HIDE DEF q
  <2>3. Sums(c, q)
    BY <1>1, <2>1, <2>2 DEF Sums
  <2> QED BY <2>1, <2>3, SizeSums DEF q
<1>3. Size(SubSeq(p, i + 1, j)) = c[j] - c[i]
  <2> DEFINE q == SubSeq(p, i + 1, j)
             d == [k \in 0..(j - i) |-> c[i + k] - c[i]]
  <2>1. q \in Seq(Nat) /\ Len(q) = j - i /\ \A k \in 1..(j - i) : q[k] = p[i + k]
    BY <1>0
  <2> HIDE DEF q
  <2>2. \A k \in 0..(j - i) : i + k \in 0..Len(p)
    BY <1>0
  <2>3. \A k \in 1..(j - i) : i + k \in 1..Len(p) /\ i + k - 1 = i + (k - 1)
    BY <1>0
  <2>4. \A k \in 0..(j - i) : d[k] = c[i + k] - c[i]
    OBVIOUS
  <2> HIDE DEF d
  <2>5. \A k \in 1..(j - i) : c[i + k] = c[i + (k - 1)] + p[i + k]
    BY <1>1, <2>3 DEF Sums
  <2>6. \A k \in 0..(j - i) : c[i + k] \in Nat
    BY <1>1, <2>2 DEF Sums
  <2>7. c[i] \in Nat /\ c[i + 0] = c[i] /\ 0 \in 0..(j - i)
    BY <1>0, <1>1 DEF Sums
  <2>8. \A k \in 1..(j - i) : d[k] = d[k - 1] + q[k]
    <3> SUFFICES ASSUME NEW k \in 1..(j - i) PROVE d[k] = d[k - 1] + q[k]
      OBVIOUS
    <3>1. k \in 0..(j - i) /\ k - 1 \in 0..(j - i)
      BY <1>0
    <3>2. d[k] = c[i + k] - c[i] /\ d[k - 1] = c[i + (k - 1)] - c[i]
      BY <2>4, <3>1
    <3>3. p[i + k] \in Nat /\ q[k] = p[i + k]
      BY <1>0, <2>1, <2>3
    <3>4. c[i + k] = c[i + (k - 1)] + p[i + k] /\ c[i + (k - 1)] \in Nat /\ c[i + k] \in Nat
      BY <2>5, <2>6, <3>1
    <3>5. c[i + k] - c[i] = (c[i + (k - 1)] - c[i]) + p[i + k]
      <4> DEFINE x == c[i + k]
                 y == c[i + (k - 1)]
                 z == c[i]
                 w == p[i + k]
      <4>1. x = y + w /\ x \in Nat /\ y \in Nat /\ z \in Nat /\ w \in Nat
        BY <2>7, <3>3, <3>4
      <4> HIDE DEF x, y, z, w
      <4>2. x - z = (y - z) + w
        BY <4>1
      <4> QED BY <4>2 DEF x, y, z, w
    <3> QED BY <3>2, <3>3, <3>5
  <2>9. \A k \in 0..(j - i) : d[k] \in Nat
    <3> DEFINE T == {k \in 0..(j - i) : d[k] \notin Nat}
    <3> SUFFICES ASSUME T # {} PROVE FALSE
      OBVIOUS
    <3>1. PICK m \in T : \A k \in T : m <= k
      <4>1. T \subseteq Nat
        BY <1>0
      <4> QED BY <4>1, LeastNat
    <3>2. m \in 0..(j - i) /\ d[m] \notin Nat
      BY <3>1
    <3>3. d[0] = 0
      BY <2>4, <2>7
    <3>4. m # 0
      BY <3>2, <3>3
    <3>5. m \in 1..(j - i) /\ m - 1 \in 0..(j - i) /\ ~ (m <= m - 1)
      BY <1>0, <3>2, <3>4
    <3>6. d[m - 1] \in Nat
      BY <3>1, <3>5
    <3>7. q[m] \in Nat
      BY <1>0, <2>1, <2>3, <3>5
    <3>8. d[m] = d[m - 1] + q[m]
      BY <2>8, <3>5
    <3> QED BY <3>2, <3>6, <3>7, <3>8
  <2>10. Sums(d, q)
    BY <2>1, <2>4, <2>7, <2>8, <2>9 DEF Sums
  <2>11. Size(q) = d[j - i]
    BY <2>1, <2>10, SizeSums
  <2>12. j - i \in 0..(j - i) /\ i + (j - i) = j
    BY <1>0
  <2> QED BY <2>4, <2>11, <2>12 DEF q
<1>5. /\ Size(SubSeq(p, 1, i)) \in Nat /\ Size(SubSeq(p, 1, j)) \in Nat
      /\ Size(SubSeq(p, i + 1, j)) \in Nat /\ c[i] \in Nat /\ c[j] \in Nat
  <2>1. SubSeq(p, 1, i) \in Seq(Nat) /\ SubSeq(p, 1, j) \in Seq(Nat) /\ SubSeq(p, i + 1, j) \in Seq(Nat)
    BY <1>0
  <2>2. i \in 0..Len(p) /\ j \in 0..Len(p)
    BY <1>0
  <2>3. c[i] \in Nat /\ c[j] \in Nat
    BY <1>1, <2>2 DEF Sums
  <2>4. Size(SubSeq(p, 1, i)) \in Nat
    BY <2>1, BytesType
  <2>5. Size(SubSeq(p, 1, j)) \in Nat
    BY <2>1, BytesType
  <2>6. Size(SubSeq(p, i + 1, j)) \in Nat
    BY <2>1, BytesType
  <2> QED BY <2>3, <2>4, <2>5, <2>6
<1>6. Size(SubSeq(p, 1, i)) = c[i] /\ Size(SubSeq(p, 1, j)) = c[j]
  BY <1>0, <1>2
<1> QED BY <1>3, <1>5, <1>6

LEMMA SizePrefix ==
  ASSUME NEW p \in Seq(Nat), NEW i \in 0..Len(p)
  PROVE  /\ Size(SubSeq(p, 1, i)) \in Nat /\ Size(p) \in Nat
         /\ Size(SubSeq(p, 1, i)) <= Size(p)
<1>1. Len(p) \in i..Len(p) /\ SubSeq(p, 1, Len(p)) = p
  OBVIOUS
<1>2. /\ Size(SubSeq(p, 1, i)) \in Nat /\ Size(SubSeq(p, i + 1, Len(p))) \in Nat
      /\ Size(SubSeq(p, 1, Len(p)))
           = Size(SubSeq(p, 1, i)) + Size(SubSeq(p, i + 1, Len(p)))
  BY <1>1, SizeSplit
<1> DEFINE x == Size(SubSeq(p, 1, i))
           y == Size(SubSeq(p, i + 1, Len(p)))
           z == Size(p)
<1>3. x \in Nat /\ y \in Nat /\ z = x + y
  BY <1>1, <1>2, Zenon
<1> HIDE DEF x, y, z
<1>4. x \in Nat /\ z \in Nat /\ x <= z
  BY <1>3
<1> QED BY <1>4 DEF x, z

LEMMA SizeEmpty == Bytes(<<>>) = <<>> /\ Size(<<>>) = 0
<1>1. <<>> \in Seq(Nat) /\ Len(<<>>) = 0
  OBVIOUS
<1>2. Bytes(<<>>) = <<>>
  BY <1>1, BytesNone
<1>3. Size(<<>>) = Len(<<>>)
  BY <1>2 DEF Size
<1> QED BY <1>1, <1>2, <1>3

\* Where a partial write leaves the loop: a chunk and an offset that stand for
\* exactly o bytes more.
LEMMA AdvanceExact ==
  ASSUME payload \in Seq(Nat), idx \in 1..(Len(payload) + 1), NEW o \in Nat
  PROVE  /\ Advance(o)[1] \in 1..(Len(payload) + 1) /\ Advance(o)[2] \in 0..o
         /\ Size(SubSeq(payload, 1, Advance(o)[1] - 1)) + Advance(o)[2]
              = Size(SubSeq(payload, 1, idx - 1)) + o
<1> DEFINE End(k) == Size(SubSeq(payload, idx, k))
           K == {k \in (idx - 1)..Len(payload) : End(k) <= o}
           j == Max(K)
<1>0. Len(payload) \in Nat /\ idx \in Nat /\ idx - 1 \in 0..Len(payload) /\ (idx - 1) + 1 = idx
  OBVIOUS
<1>1. \A k \in (idx - 1)..Len(payload) :
        /\ End(k) \in Nat /\ Size(SubSeq(payload, 1, idx - 1)) \in Nat
        /\ Size(SubSeq(payload, 1, k)) = Size(SubSeq(payload, 1, idx - 1)) + End(k)
  BY <1>0, SizeSplit
<1>2. idx - 1 \in K
  <2>1. SubSeq(payload, idx, idx - 1) = <<>>
    BY <1>0, SubSeqEmpty
  <2>2. End(idx - 1) = 0
    BY <2>1, SizeEmpty
  <2> QED BY <1>0, <2>2
<1>3. j \in K
  <2> HIDE DEF End
  <2>1. \E m \in K : \A k \in K : m >= k
    <3> DEFINE T == {Len(payload) - k : k \in K}
    <3>1. T \subseteq Nat /\ T # {}
      BY <1>0, <1>2
    <3>2. PICK t \in T : \A u \in T : t <= u
      <4> HIDE DEF T
      <4> QED BY <3>1, LeastNat
    <3>3. PICK m \in K : t = Len(payload) - m
      BY <3>2
    <3>4. \A k \in K : Len(payload) - m <= Len(payload) - k
      BY <3>2, <3>3
    <3>5. \A k \in K : m >= k
      BY <1>0, <3>3, <3>4
    <3> QED BY <3>5
  <2> HIDE DEF K
  <2> QED BY <2>1 DEF Max
<1>4. Advance(o) = <<j + 1, o - End(j)>>
  BY DEF Advance
<1>5. j \in (idx - 1)..Len(payload) /\ End(j) <= o /\ End(j) \in Nat
  BY <1>1, <1>3
<1>6. Size(SubSeq(payload, 1, j)) = Size(SubSeq(payload, 1, idx - 1)) + End(j)
  BY <1>1, <1>5
<1>7. Size(SubSeq(payload, 1, idx - 1)) \in Nat
  BY <1>1, <1>5
<1> HIDE DEF j, End
<1>8. Advance(o)[1] = j + 1 /\ Advance(o)[2] = o - End(j) /\ (j + 1) - 1 = j
  BY <1>0, <1>4, <1>5
<1>9. Advance(o)[1] \in 1..(Len(payload) + 1) /\ Advance(o)[2] \in 0..o
  BY <1>0, <1>5, <1>8
<1>10. Size(SubSeq(payload, 1, Advance(o)[1] - 1)) = Size(SubSeq(payload, 1, j))
  BY <1>8
<1> QED BY <1>5, <1>6, <1>7, <1>8, <1>9, <1>10

LEMMA MinOfTwo ==
  ASSUME NEW x \in Int, NEW y \in Int
  PROVE  Min({x, y}) \in Int /\ Min({x, y}) <= x /\ Min({x, y}) <= y
         /\ Min({x, y}) \in {x, y}
<1>1. \E m \in {x, y} : \A k \in {x, y} : m =< k
  <2>1. CASE x <= y
    BY <2>1
  <2>2. CASE ~ (x <= y)
    BY <2>2
  <2> QED BY <2>1, <2>2
<1> DEFINE S == {x, y}
           m == Min(S)
<1>2. m \in S /\ \A k \in S : m =< k
  <2> HIDE DEF S
  <2>1. \E n \in S : \A k \in S : n =< k
    BY <1>1 DEF S
  <2> QED BY <2>1 DEF Min
<1> HIDE DEF m
<1>3. m \in Int /\ m <= x /\ m <= y /\ m \in {x, y}
  BY <1>2
<1> QED BY <1>3 DEF m

LEMMA MinOfThree ==
  ASSUME NEW x \in Int, NEW y \in Int, NEW z \in Int
  PROVE  Min({x, y, z}) \in Int /\ Min({x, y, z}) <= x /\ Min({x, y, z}) <= y
<1> DEFINE S == {x, y, z}
           m == Min(S)
<1>1. \E n \in S : \A k \in S : n =< k
  <2>1. CASE x <= y /\ x <= z
    BY <2>1
  <2>2. CASE y <= x /\ y <= z
    BY <2>2
  <2>3. CASE z <= x /\ z <= y
    BY <2>3
  <2> QED BY <2>1, <2>2, <2>3
<1>2. m \in S /\ \A k \in S : m =< k
  <2> HIDE DEF S
  <2> QED BY <1>1 DEF Min
<1> HIDE DEF m
<1>3. m \in Int /\ m <= x /\ m <= y
  BY <1>2
<1> QED BY <1>3 DEF m

-----------------------------------------------------------------------------
(* What goes over the wire.                                                *)

Byte == Nat \X Nat

\* The wire holds what the position (idx, offset) stands for.
Exact ==
  /\ wire \in Seq(Byte) /\ IsPrefix(wire, Bytes(payload))
  /\ Len(wire) = Size(SubSeq(payload, 1, idx - 1)) + offset

LEMMA RestFacts ==
  ASSUME payload \in Seq(Nat), Exact
  PROVE  /\ Len(wire) \in 0..Size(payload)
         /\ Rest = SubSeq(Bytes(payload), Len(wire) + 1, Size(payload))
         /\ Rest \in Seq(Byte) /\ Len(Rest) = Size(payload) - Len(wire)
         /\ Rest = <<>> => Len(wire) = Size(payload)
<1> DEFINE B == Bytes(payload)
           l == Len(wire)
           n == Size(payload)
<1>1. B \in Seq(Byte) /\ n \in Nat /\ n = Len(B)
  BY BytesType DEF Byte, Size
<1>2. l \in Nat /\ l <= n
  BY <1>1 DEF Exact, IsPrefix
<1>3. Rest = SubSeq(B, l + 1, n)
  BY DEF Exact, Rest
<1> HIDE DEF B, l, n
<1>4. SubSeq(B, l + 1, n) \in Seq(Byte) /\ Len(SubSeq(B, l + 1, n)) = n - l
  BY <1>1, <1>2
<1>5. ASSUME SubSeq(B, l + 1, n) = <<>> PROVE l = n
  <2>1. Len(<<>>) = 0
    OBVIOUS
  <2>2. n - l = 0
    BY <1>4, <1>5, <2>1
  <2> QED BY <1>1, <1>2, <2>2
<1>6. l \in 0..n
  BY <1>1, <1>2
<1> QED BY <1>3, <1>4, <1>5, <1>6 DEF B, l, n

\* The next k bytes of the payload extend the wire.
LEMMA WireGrows ==
  ASSUME payload \in Seq(Nat), Exact, NEW k \in 1..Len(Rest)
  PROVE  /\ wire \o SubSeq(Rest, 1, k) \in Seq(Byte)
         /\ Len(wire \o SubSeq(Rest, 1, k)) = Len(wire) + k
         /\ Len(wire) + k \in 0..Size(payload)
         /\ IsPrefix(wire \o SubSeq(Rest, 1, k), Bytes(payload))
<1> DEFINE B == Bytes(payload)
           l == Len(wire)
           n == Size(payload)
           w == wire \o SubSeq(Rest, 1, k)
<1>1. B \in Seq(Byte) /\ n \in Nat /\ n = Len(B)
  BY BytesType DEF Byte, Size
<1>2. /\ l \in 0..n /\ Rest = SubSeq(B, l + 1, n) /\ Rest \in Seq(Byte)
      /\ Len(Rest) = n - l /\ k \in 1..(n - l)
  BY RestFacts
<1>3. wire \in Seq(Byte) /\ SubSeq(wire, 1, l) = SubSeq(B, 1, l) /\ l = Len(wire)
  BY DEF Exact, IsPrefix
<1> HIDE DEF B, l, n
<1>4. SubSeq(Rest, 1, k) \in Seq(Byte) /\ Len(SubSeq(Rest, 1, k)) = k
  BY <1>1, <1>2
<1>5. w \in Seq(Byte) /\ Len(w) = l + k
  BY <1>3, <1>4
<1>6. l + k \in 0..n
  BY <1>1, <1>2
<1>7. \A i \in 1..(l + k) : w[i] = B[i]
  <2> SUFFICES ASSUME NEW i \in 1..(l + k) PROVE w[i] = B[i]
    OBVIOUS
  <2>1. CASE i <= l
    <3>1. w[i] = wire[i]
      BY <1>2, <1>3, <1>4, <2>1
    <3>2. wire[i] = SubSeq(wire, 1, l)[i]
      BY <1>2, <1>3, <2>1
    <3>3. SubSeq(B, 1, l)[i] = B[i]
      BY <1>1, <1>2, <2>1
    <3> QED BY <1>3, <3>1, <3>2, <3>3
  <2>2. CASE ~ (i <= l)
    <3> DEFINE r == SubSeq(Rest, 1, k)
    <3>0. i - l \in 1..k /\ i - l \in 1..(n - l) /\ (l + 1) + (i - l) - 1 = i
      BY <1>1, <1>2, <2>2
    <3>1. w[i] = r[i - l]
      <4>1. r \in Seq(Byte) /\ Len(r) = k /\ w = wire \o r
        BY <1>4
      <4> HIDE DEF r, w
      <4>2. \A j \in 1..(Len(wire) + Len(r)) :
              (wire \o r)[j] = IF j <= Len(wire) THEN wire[j] ELSE r[j - Len(wire)]
        BY <1>3, <4>1, ConcatProperties, Zenon
      <4>3. i \in 1..(Len(wire) + Len(r)) /\ ~ (i <= Len(wire))
        BY <1>3, <2>2, <4>1
      <4> QED BY <1>3, <4>1, <4>2, <4>3
    <3>2. r[i - l] = Rest[i - l]
      BY <1>2, <3>0
    <3>3. SubSeq(B, l + 1, n)[i - l] = B[i]
      BY <1>1, <1>2, <3>0
    <3> QED BY <1>2, <3>1, <3>2, <3>3
  <2> QED BY <2>1, <2>2
<1> HIDE DEF w
<1>8. SubSeq(w, 1, l + k) = w
  BY <1>5
<1>9. SubSeq(B, 1, l + k) \in Seq(Byte) /\ Len(SubSeq(B, 1, l + k)) = l + k
      /\ \A i \in 1..(l + k) : SubSeq(B, 1, l + k)[i] = B[i]
  BY <1>1, <1>2, <1>6
<1>10. w = SubSeq(B, 1, l + k)
  <2> DEFINE v == SubSeq(B, 1, l + k)
  <2>1. v \in Seq(Byte) /\ Len(v) = Len(w) /\ \A i \in 1..Len(w) : w[i] = v[i]
    BY <1>5, <1>7, <1>9
  <2> HIDE DEF v
  <2>2. w = v
    BY <1>5, <2>1, SeqEqual
  <2> QED BY <2>2 DEF v
<1>11. IsPrefix(w, B)
  BY <1>1, <1>5, <1>6, <1>8, <1>10 DEF IsPrefix
<1> QED BY <1>5, <1>6, <1>11 DEF w, l, n, B

-----------------------------------------------------------------------------
(* The inductive invariant of connecting and transferring.                 *)

Errors == {"none", "not_connected", "canceled", "again", "errno", "io_error",
           "no_message", "invalid_argument"}

\* Bytes are neither made up nor kept back: what a receiving loop has taken,
\* what waits for it and what the peer still has are all that was ever there,
\* and only splice, sendv, send and send_file go round with bytes in hand.
Moved ==
  /\ wire \in Seq(Byte)
  /\ inbox + left <= Arrivals
  /\ (pc # "idle" /\ op \in Receiving) => Len(wire) + inbox + left <= Arrivals
  /\ (pc # "idle" /\ op \in (Receiving \ {"splice"}) \cup {"tls_write"}) =>
       wire = <<>>

\* Until it is up, a socket has only been connected.
Before ==
  (phase # "up" \/ op = "connect") =>
    /\ op \in {"recv", "connect"} /\ wire = <<>> /\ payload = <<>>
    /\ result.size = 0 /\ result.err \in {"none", "not_connected"}
    /\ result.err = "not_connected" => stopped

\* The coroutine that awaits a connection holds the descriptor it tries.
Attempt ==
  /\ phase = "resolving" => pc = "idle"
  /\ (phase = "trying" /\ pc # "idle") => held = ai

TInv == TypeOK /\ Moved /\ WireExact /\ Before /\ Attempt /\ ResultsHonest

LEMMA TypeFacts ==
  ASSUME TypeOK
  PROVE  /\ payload \in Seq(Nat) /\ Size(payload) \in Nat /\ Len(payload) \in Nat
         /\ Cap \in Nat /\ Arrivals \in Nat /\ queued \in Nat /\ inbox \in Nat
         /\ left \in Nat /\ offset \in Nat /\ idx \in Nat
<1>1. payload \in Seq(Nat)
  <2>1. <<>> \in Seq(Nat)
    OBVIOUS
  <2>2. payload \in Payloads \cup {<<>>}
    BY DEF TypeOK, TransferTypeOK
  <2> QED BY <2>1, <2>2, TransferAssumption
<1>2. Size(payload) \in Nat
  BY <1>1, BytesType
<1>3. Cap \in Nat /\ Arrivals \in Nat
  BY TransferAssumption
<1>4. Len(payload) \in Nat
  BY <1>1
<1>5. queued \in Nat /\ inbox \in Nat /\ left \in Nat
  BY <1>3 DEF TypeOK, TransferTypeOK
<1>6. offset \in Nat
  BY <1>2 DEF TypeOK, TransferTypeOK
<1>7. idx \in Nat
  BY <1>4 DEF TypeOK, TransferTypeOK
<1> QED BY <1>1, <1>2, <1>3, <1>4, <1>5, <1>6, <1>7

LEMMA InitInvariant == Init => TInv
<1> SUFFICES ASSUME Init PROVE TInv
  OBVIOUS
<1>0. Size(<<>>) = 0 /\ Len(<<>>) = 0 /\ <<>> \in Seq(Byte)
  BY SizeEmpty
<1>1. Cap \in Nat /\ Arrivals \in Nat /\ NAddr \in Nat /\ NAddr >= 1
  BY TransferAssumption, ConnectAssumption
<1>2. TransferTypeOK
  <2>1. /\ payload \in Payloads \cup {<<>>} /\ idx \in 1..(Len(payload) + 1)
        /\ offset \in 0..Size(payload)
    BY <1>0 DEF Init, TransferInit
  <2>2. /\ result.size \in 0..(Size(payload) + Cap + Arrivals)
        /\ result.err = "none"
    BY <1>0, <1>1 DEF Init, TransferInit
  <2>3. queued \in 0..Cap /\ inbox \in 0..Arrivals /\ left \in 0..Arrivals /\ flen \in Nat
    BY <1>1 DEF Init, TransferInit
  <2>4. sig \in [{"IN", "OUT"} -> {"clear", "set"}]
    BY DEF Init, TransferInit
  <2> QED BY <2>1, <2>2, <2>3, <2>4 DEF Init, TransferInit, TransferTypeOK, Receiving
<1>3. TypeOK
  <2>1. fd \in [Addr -> {"none", "connecting", "up", "refused", "closed", "leaked"}]
    BY DEF Init
  <2> QED BY <1>1, <1>2, <2>1 DEF Init, TypeOK
<1>4. Moved
  BY <1>0, <1>1 DEF Init, TransferInit, Moved
<1>5. WireExact /\ Before /\ Attempt
  BY DEF Init, TransferInit, WireExact, Before, Attempt
<1>6. ResultsHonest
  BY <1>0 DEF Init, TransferInit, ResultsHonest, Sending
<1> QED BY <1>3, <1>4, <1>5, <1>6 DEF TInv

\* A loop that goes to await a signal keeps its place.
LEMMA AgainKeeps ==
  ASSUME TInv, pc # "idle", phase = "up", NEW e \in {"IN", "OUT"}, Again(e),
         UNCHANGED <<kernelVars, sig, stopped>>, UNCHANGED connVars
  PROVE  TInv'
<1> USE DEF TInv, Again, kernelVars, connVars
<1>1. TransferTypeOK'
  BY DEF TypeOK, TransferTypeOK
<1>2. TypeOK'
  BY <1>1 DEF TypeOK
<1>3. Moved' /\ WireExact' /\ Before' /\ Attempt'
  BY DEF Moved, WireExact, Before, Attempt
<1>4. ResultsHonest'
  BY DEF ResultsHonest
<1> QED BY <1>2, <1>3, <1>4

\* A loop that returns an honest result without moving a byte.
LEMMA ReturnKeeps ==
  ASSUME TInv, pc # "idle", NEW n, NEW e \in Errors, Return(n, e),
         UNCHANGED wire, UNCHANGED <<kernelVars, sig, stopped>>, UNCHANGED connVars,
         n \in 0..(Size(payload) + Cap + Arrivals),
         phase = "up" \/ (n = 0 /\ e = "not_connected" /\ stopped),
         op = "connect" => n = 0 /\ e = "not_connected" /\ stopped,
         op # "splice" => n = Len(wire),
         (e = "none" /\ op \in Sending \ {"tls_write"}) =>
           (n = Size(payload) \/ (op = "send_file" /\ flen < Size(payload))),
         e = "not_connected" => peer # "open" \/ stopped
  PROVE  TInv'
<1> USE DEF TInv, kernelVars, connVars
<1>0. payload \in Seq(Nat) /\ Size(payload) \in Nat /\ Len(payload) \in Nat
  BY TypeFacts
<1>a. /\ pc' = "idle" /\ result'.size = n /\ result'.err \in {e, "not_connected"}
      /\ idx' = 1 /\ offset' = 0 /\ waits' = "IN" /\ UNCHANGED <<op, payload>>
      /\ result'.err # e => op \in EmptyIsGone /\ n = 0
      /\ result'.err \in Errors
  BY DEF Return, Errors
<1>b. op \in EmptyIsGone /\ n = 0 => wire = <<>>
  <2>1. wire \in Seq(Byte)
    BY DEF Moved
  <2>2. op \in EmptyIsGone => op # "splice"
    BY DEF EmptyIsGone
  <2> QED BY <2>1, <2>2
<1>1. TransferTypeOK'
  <2>1. result'.size \in 0..(Size(payload') + Cap + Arrivals)
    BY <1>a
  <2>2. idx' \in 1..(Len(payload') + 1) /\ offset' \in 0..Size(payload')
    BY <1>0, <1>a
  <2> QED BY <1>a, <2>1, <2>2 DEF TypeOK, TransferTypeOK, Errors
<1>2. TypeOK'
  BY <1>1 DEF TypeOK
<1>3. Moved' /\ WireExact'
  BY <1>a DEF Moved, WireExact
<1>4. Before' /\ Attempt'
  BY <1>a DEF Before, Attempt
<1>5. ResultsHonest'
  BY <1>a, <1>b DEF ResultsHonest
<1> QED BY <1>2, <1>3, <1>4, <1>5

\* An operation starts at its first byte.
LEMMA StartsKeeps ==
  ASSUME TInv, phase = "up", Starts, UNCHANGED connVars
  PROVE  TInv'
<1> USE DEF TInv, connVars
<1>0. PICK o \in Receiving \cup Sending, p \in Payloads :
        Start(o, p, IF o = "send_file" THEN Size(p) ELSE 0)
  BY DEF Starts
<1>1. p \in Seq(Nat) /\ Size(p) \in Nat /\ Len(p) \in Nat /\ Bytes(p) \in Seq(Byte)
  BY TransferAssumption, BytesType DEF Byte
<1>2. /\ op' = o /\ waits' = "IN" /\ payload' = p /\ idx' = 1 /\ offset' = 0
      /\ wire' = <<>> /\ pc' \in {"try", "idle"} /\ pc = "idle"
      /\ UNCHANGED <<queued, inbox, left, peer, ready, sig, stopped>>
  BY <1>0 DEF Start
<1>3. flen' = (IF o = "send_file" THEN Size(p) ELSE 0) /\ flen' \in Nat
  BY <1>0, <1>1 DEF Start
<1>4. result'.size = 0 /\ result'.err \in Errors
  <2>1. \/ result' = [size |-> 0, err |-> "none"]
        \/ result' = [size |-> 0, err |-> CASE o = "send_file" -> "errno"
                                            [] Len(p) > MaxChunks -> "invalid_argument"
                                            [] OTHER -> "none"]
    BY <1>0 DEF Start
  <2> QED BY <2>1 DEF Errors
<1>5. TransferTypeOK'
  <2>1. op' \in Receiving \cup Sending \cup {"connect"} /\ payload' \in Payloads \cup {<<>>}
    BY <1>2
  <2>2. idx' \in 1..(Len(payload') + 1) /\ offset' \in 0..Size(payload')
    BY <1>1, <1>2
  <2>3. result'.size \in 0..(Size(payload') + Cap + Arrivals)
    BY <1>1, <1>2, <1>4, TypeFacts
  <2> QED BY <1>2, <1>3, <1>4, <2>1, <2>2, <2>3 DEF TypeOK, TransferTypeOK, Errors
<1>6. TypeOK'
  BY <1>5 DEF TypeOK
<1>7. Moved'
  <2>1. <<>> \in Seq(Byte) /\ Len(<<>>) = 0
    OBVIOUS
  <2>2. inbox \in Nat /\ left \in Nat
    BY TypeFacts
  <2> QED BY <1>2, <2>1, <2>2 DEF Moved
<1>8. WireExact'
  <2>1. IsPrefix(<<>>, Bytes(p))
    <3>1. Len(<<>>) = 0
      OBVIOUS
    <3>2. SubSeq(<<>>, 1, 0) = <<>> /\ SubSeq(Bytes(p), 1, 0) = <<>>
      BY <1>1, SubSeqEmpty
    <3>3. Len(Bytes(p)) \in Nat
      BY <1>1
    <3> QED BY <3>1, <3>2, <3>3 DEF IsPrefix
  <2>2. SubSeq(p, 1, 1 - 1) = <<>>
    BY <1>1, SubSeqEmpty
  <2>3. Len(<<>>) = Size(SubSeq(p, 1, 1 - 1)) + 0
    <3>1. Size(SubSeq(p, 1, 1 - 1)) = 0
      BY <2>2, SizeEmpty, Zenon
    <3>2. Len(<<>>) = 0
      OBVIOUS
    <3> QED BY <3>1, <3>2
  <2> QED BY <1>2, <2>1, <2>3 DEF WireExact
<1>9. o # "connect" /\ phase' = "up"
  BY DEF Receiving, Sending
<1>10. Before' /\ Attempt'
  BY <1>2, <1>9 DEF Before, Attempt
<1>11. ResultsHonest'
  <2> SUFFICES ASSUME pc' = "idle" PROVE ResultsHonest'
    BY DEF ResultsHonest
  <2>1. /\ o \in {"sendv", "send_file"}
        /\ o = "sendv" => (Len(p) > MaxChunks \/ Size(p) = 0)
        /\ result'.err = CASE o = "send_file" -> "errno"
                           [] Len(p) > MaxChunks -> "invalid_argument"
                           [] OTHER -> "none"
    BY <1>0 DEF Start
  <2>2. Len(wire') = 0
    BY <1>2
  <2>3. result'.err \in {"errno", "invalid_argument", "none"}
    BY <2>1
  <2>4. result'.err = "none" => o = "sendv" /\ Size(p) = 0
    BY <2>1
  <2> QED BY <1>2, <1>4, <2>2, <2>3, <2>4 DEF ResultsHonest
<1> QED BY <1>6, <1>7, <1>8, <1>10, <1>11

\* Receiving: bytes leave the inbox, and the result is their number.
LEMMA TakeKeeps ==
  ASSUME TInv, phase = "up", op \in Receiving, pc = "try", NEW n \in 1..inbox,
         op = "splice" => n <= Cap - queued,
         op \notin {"splice", "accept"} => n <= Size(payload),
         Take(n), UNCHANGED connVars
  PROVE  TInv'
<1> USE DEF TInv, connVars
<1>0. /\ payload \in Seq(Nat) /\ Size(payload) \in Nat /\ Len(payload) \in Nat
      /\ Cap \in Nat /\ Arrivals \in Nat /\ queued \in Nat /\ inbox \in Nat
      /\ left \in Nat /\ n \in Nat /\ n <= inbox
  BY TypeFacts
<1> DEFINE b == [k \in 1..n |-> <<1, k>>]
<1>1. b \in Seq(Byte) /\ Len(b) = n
  <2>1. \A k \in 1..n : <<1, k>> \in Byte
    BY <1>0 DEF Byte
  <2>2. b \in [1..n -> Byte] /\ n \in Nat
    BY <1>0, <2>1
  <2> HIDE DEF b
  <2> QED BY <2>2
<1>2. /\ inbox' = inbox - n /\ wire' = wire \o b
      /\ UNCHANGED <<op, payload, left, peer, flen, ready, sig, stopped>>
  BY DEF Take, Return
<1> HIDE DEF b
<1>3. wire' \in Seq(Byte) /\ Len(wire') = Len(wire) + n /\ Len(wire) \in Nat
  <2>1. wire \in Seq(Byte)
    BY DEF Moved
  <2>2. wire \o b \in Seq(Byte) /\ Len(wire \o b) = Len(wire) + Len(b)
    BY <1>1, <2>1, ConcatProperties, Zenon
  <2> QED BY <1>1, <1>2, <2>1, <2>2
<1>4. Len(wire) + inbox + left <= Arrivals /\ (op # "splice" => wire = <<>>)
  BY DEF Moved
<1>5. op # "splice" => Len(wire') = n
  BY <1>0, <1>3, <1>4
<1>6. inbox' \in 0..Arrivals /\ inbox' + left' <= Arrivals /\ Len(wire') + inbox' + left' <= Arrivals
  BY <1>0, <1>2, <1>3, <1>4
<1>7. op \notin Sending /\ op # "connect"
  BY DEF Receiving, Sending
<1>8. CASE op = "splice"
  <2>1. queued' = queued + n /\ queued' \in 0..Cap
        /\ UNCHANGED <<op, pc, waits, payload, idx, offset, result>>
    BY <1>0, <1>8 DEF Take
  <2>2. TransferTypeOK'
    BY <1>2, <1>6, <2>1 DEF TypeOK, TransferTypeOK
  <2>3. TypeOK'
    BY <2>2 DEF TypeOK
  <2>4. Moved'
    BY <1>2, <1>3, <1>6, <1>8, <2>1 DEF Moved
  <2>5. WireExact' /\ Before' /\ Attempt' /\ ResultsHonest'
    BY <1>2, <1>7, <2>1 DEF WireExact, Before, Attempt, ResultsHonest
  <2> QED BY <2>3, <2>4, <2>5
<1>9. CASE op # "splice"
  <2>1. Return(n, "none") /\ UNCHANGED queued
    BY <1>9 DEF Take
  <2>2. /\ pc' = "idle" /\ result' = [size |-> n, err |-> "none"]
        /\ idx' = 1 /\ offset' = 0 /\ waits' = "IN"
    <3>1. n # 0
      OBVIOUS
    <3> QED BY <2>1, <3>1 DEF Return
  <2>3. result'.size \in 0..(Size(payload') + Cap + Arrivals) /\ result'.err = "none" /\ result'.size = n
    BY <1>0, <1>2, <1>6, <2>2 DEF TypeOK, TransferTypeOK
  <2>4. idx' \in 1..(Len(payload') + 1) /\ offset' \in 0..Size(payload')
    BY <1>0, <1>2, <2>2
  <2>5. TransferTypeOK'
    BY <1>2, <1>6, <2>1, <2>2, <2>3, <2>4 DEF TypeOK, TransferTypeOK
  <2>6. TypeOK'
    BY <2>5 DEF TypeOK
  <2>7. Moved'
    BY <1>3, <1>6, <2>2 DEF Moved
  <2>8. WireExact' /\ Before' /\ Attempt'
    BY <1>2, <1>7, <2>2 DEF WireExact, Before, Attempt
  <2>9. ResultsHonest'
    BY <1>2, <1>5, <1>7, <1>9, <2>3 DEF ResultsHonest
  <2> QED BY <2>6, <2>7, <2>8, <2>9
<1> QED BY <1>8, <1>9

LEMMA TryReceiveKeeps ==
  ASSUME TInv, phase = "up", TryReceive, UNCHANGED connVars
  PROVE  TInv'
<1>0. op \in Receiving /\ pc = "try" /\ pc # "idle" /\ op \notin Sending /\ op # "connect"
  BY DEF TryReceive, Receiving, Sending
<1>1. /\ Size(payload) \in Nat /\ Cap \in Nat /\ Arrivals \in Nat /\ queued \in Nat
      /\ inbox \in Nat /\ left \in Nat
  BY TypeFacts DEF TInv
<1>2. wire \in Seq(Byte) /\ Len(wire) \in Nat /\ Len(wire) <= Arrivals
      /\ (op # "splice" => wire = <<>>)
  <2>1. wire \in Seq(Byte) /\ Len(wire) + inbox + left <= Arrivals
    BY <1>0 DEF TInv, Moved
  <2> QED BY <1>0, <1>1, <2>1 DEF TInv, Moved
<1>3. Len(<<>>) = 0
  OBVIOUS
<1> DEFINE room == CASE op = "splice" -> Cap - queued
                     [] op = "accept" -> 1
                     [] OTHER -> Size(payload)
           still == UNCHANGED wire /\ UNCHANGED <<kernelVars, sig, stopped>>
           none == ReceivedNone(op)
<1>4. none \in Errors
  BY DEF ReceivedNone, Errors
<1>5. none # "not_connected"
  BY DEF ReceivedNone
<1>6. /\ op = "splice" => room = Cap - queued
      /\ op = "accept" => room = 1
      /\ op \notin {"splice", "accept"} => room = Size(payload)
      /\ room \in Int
  BY <1>1
<1>7. CASE inbox > 0 /\ room > 0 /\ \E n \in 1..Min({inbox, room}) : Take(n)
  <2> HIDE DEF room
  <2>1. PICK n \in 1..Min({inbox, room}) : Take(n)
    BY <1>7
  <2>2. n \in 1..inbox /\ n <= room
    <3> DEFINE m == Min({inbox, room})
    <3>1. inbox \in Int
      BY <1>1
    <3>2. m \in Int /\ m <= inbox /\ m <= room
      BY <1>6, <3>1, MinOfTwo, Zenon
    <3>3. n \in 1..m
      BY <2>1
    <3> HIDE DEF m
    <3> QED BY <1>1, <1>6, <3>2, <3>3
  <2> QED BY <1>0, <1>6, <2>1, <2>2, TakeKeeps
<1>8. CASE room = 0 /\ op # "splice" /\ Return(0, none) /\ still
  <2> HIDE DEF none, room
  <2> QED BY <1>0, <1>1, <1>2, <1>3, <1>4, <1>5, <1>8, ReturnKeeps
<1>9. CASE /\ still
           /\ Return(0, IF op = "tls_read" THEN "io_error" ELSE "errno")
  <2>1. PICK e \in {"io_error", "errno"} : Return(0, e)
    BY <1>9
  <2>2. e \in Errors /\ e \notin {"none", "not_connected"}
    BY DEF Errors
  <2> QED BY <1>0, <1>1, <1>2, <1>3, <1>9, <2>1, <2>2, ReturnKeeps
<1>10. CASE peer = "fin" /\ Return(Len(wire), none) /\ still
  <2> HIDE DEF none, room
  <2> QED BY <1>0, <1>1, <1>2, <1>4, <1>5, <1>10, ReturnKeeps
<1>11. CASE Return(Len(wire), "none") /\ still
  BY <1>0, <1>1, <1>2, <1>11, ReturnKeeps DEF Errors
<1>12. CASE Return(0, "canceled") /\ still
  BY <1>0, <1>1, <1>2, <1>3, <1>12, ReturnKeeps DEF Errors
<1>13. CASE (\E e \in {"IN", "OUT"} : Again(e)) /\ UNCHANGED <<kernelVars, sig, stopped>>
  BY <1>0, <1>13, AgainKeeps
<1> QED BY <1>7, <1>8, <1>9, <1>10, <1>11, <1>12, <1>13 DEF TryReceive, AcceptAgain

\* Sending: the kernel takes the next n bytes.
LEMMA AcceptKeeps ==
  ASSUME TInv, phase = "up", op \in Sending, pc = "try", NEW n \in 1..Len(Rest),
         Accept(n), UNCHANGED connVars
  PROVE  TInv'
<1> USE DEF TInv, connVars
<1>0. /\ payload \in Seq(Nat) /\ Size(payload) \in Nat /\ Len(payload) \in Nat
      /\ Cap \in Nat /\ Arrivals \in Nat /\ queued \in Nat /\ offset \in Nat
      /\ idx \in 1..(Len(payload) + 1) /\ n \in Nat
  BY TypeFacts DEF TypeOK, TransferTypeOK
<1>1. Exact
  BY DEF WireExact, Moved, Exact
<1> DEFINE w == wire \o SubSeq(Rest, 1, n)
<1>2. /\ w \in Seq(Byte) /\ Len(w) = Len(wire) + n /\ IsPrefix(w, Bytes(payload))
      /\ Len(wire) + n \in 0..Size(payload) /\ Len(wire) \in Nat
  BY <1>0, <1>1, WireGrows DEF Exact
<1>3. /\ wire' = w /\ queued' = Min({queued + n, Cap})
      /\ UNCHANGED <<op, payload, inbox, left, peer, flen, ready, sig, stopped>>
  BY DEF Accept, Return
<1> HIDE DEF w
<1>4. queued' \in 0..Cap
  <2>1. queued + n \in Int /\ Cap \in Int
    BY <1>0
  <2> DEFINE m == Min({queued + n, Cap})
  <2>2. m \in Int /\ m <= Cap /\ m \in {queued + n, Cap}
    BY <2>1, MinOfTwo
  <2> HIDE DEF m
  <2>3. m \in 0..Cap
    BY <1>0, <2>2
  <2> QED BY <1>3, <2>3 DEF m
<1>5. op \notin Receiving /\ op # "connect"
  BY DEF Receiving, Sending
<1>6. CASE Len(wire) + n = Size(payload) \/ op = "tls_write"
  <2>1. Return(Len(wire) + n, "none")
    BY <1>6 DEF Accept
  <2>2. /\ pc' = "idle" /\ result' = [size |-> Len(wire) + n, err |-> "none"]
        /\ idx' = 1 /\ offset' = 0 /\ waits' = "IN"
    <3>1. Len(wire) + n # 0
      BY <1>0, <1>2
    <3> QED BY <2>1, <3>1 DEF Return
  <2>3. result'.size = Len(wire) + n /\ result'.err = "none"
    BY <2>2
  <2>4. result'.size \in 0..(Size(payload') + Cap + Arrivals)
    BY <1>0, <1>2, <1>3, <2>3
  <2>5. idx' \in 1..(Len(payload') + 1) /\ offset' \in 0..Size(payload')
    BY <1>0, <1>3, <2>2
  <2>6. TransferTypeOK'
    BY <1>3, <1>4, <2>2, <2>3, <2>4, <2>5 DEF TypeOK, TransferTypeOK
  <2>7. TypeOK'
    BY <2>6 DEF TypeOK
  <2>8. Moved' /\ WireExact' /\ Before' /\ Attempt'
    BY <1>2, <1>3, <1>5, <2>2 DEF Moved, WireExact, Before, Attempt
  <2>9. ResultsHonest'
    BY <1>2, <1>3, <1>5, <1>6, <2>3 DEF ResultsHonest
  <2> QED BY <2>7, <2>8, <2>9
<1>7. CASE Len(wire) + n # Size(payload) /\ op # "tls_write"
  <2> DEFINE i == Advance(offset + n)[1]
             o == Advance(offset + n)[2]
             here == Size(SubSeq(payload, 1, idx - 1))
             there == Size(SubSeq(payload, 1, i - 1))
  <2>1. idx' = i /\ offset' = o /\ UNCHANGED <<op, pc, waits, payload, result>>
    BY <1>7 DEF Accept
  <2>2. i \in 1..(Len(payload) + 1) /\ o \in 0..(offset + n) /\ there + o = here + (offset + n)
    BY <1>0, AdvanceExact
  <2>3. Len(wire) = here + offset
    BY <1>1 DEF Exact
  <2>4. here \in Nat /\ there \in Nat
    <3>1. idx - 1 \in 0..Len(payload) /\ i - 1 \in 0..Len(payload)
      BY <1>0, <2>2
    <3> QED BY <1>0, <3>1, SizePrefix
  <2> HIDE DEF i, o, here, there
  <2>5. Len(w) = there + o /\ o \in 0..Size(payload)
    BY <1>0, <1>2, <2>2, <2>3, <2>4
  <2>6. TransferTypeOK'
    BY <1>3, <1>4, <2>1, <2>2, <2>5 DEF TypeOK, TransferTypeOK
  <2>7. TypeOK'
    BY <2>6 DEF TypeOK
  <2>8. Len(wire') = Size(SubSeq(payload', 1, idx' - 1)) + offset'
    BY <1>3, <2>1, <2>5 DEF there
  <2>9. WireExact'
    BY <1>2, <1>3, <2>8 DEF WireExact
  <2>10. Moved' /\ Before' /\ Attempt'
    BY <1>2, <1>3, <1>5, <1>7, <2>1 DEF Moved, Before, Attempt
  <2>11. ResultsHonest'
    BY <2>1 DEF ResultsHonest
  <2> QED BY <2>7, <2>9, <2>10, <2>11
<1> QED BY <1>6, <1>7

LEMMA TrySendKeeps ==
  ASSUME TInv, phase = "up", TrySend, UNCHANGED connVars
  PROVE  TInv'
<1>0. op \in Sending /\ pc = "try" /\ pc # "idle" /\ op \notin Receiving /\ op # "connect"
  BY DEF TrySend, Receiving, Sending
<1>1. /\ payload \in Seq(Nat) /\ Size(payload) \in Nat /\ Cap \in Nat
      /\ Arrivals \in Nat /\ queued \in Nat /\ offset \in Nat /\ flen \in Nat
      /\ idx \in 1..(Len(payload) + 1)
  BY TypeFacts DEF TInv, TypeOK, TransferTypeOK
<1>2. Exact
  BY <1>0 DEF TInv, WireExact, Moved, Exact
<1>3. /\ Len(wire) \in 0..Size(payload) /\ Rest \in Seq(Byte)
      /\ Len(Rest) = Size(payload) - Len(wire)
      /\ Rest = <<>> => Len(wire) = Size(payload)
  BY <1>1, <1>2, RestFacts
<1>4. Len(wire) \in Nat /\ Len(wire) \in 0..(Size(payload) + Cap + Arrivals)
      /\ offset <= Len(wire) /\ Len(Rest) \in Int
  <2>1. idx - 1 \in 0..Len(payload)
    BY <1>1
  <2>2. Size(SubSeq(payload, 1, idx - 1)) \in Nat
    BY <1>1, <2>1, SizePrefix
  <2>3. Len(wire) = Size(SubSeq(payload, 1, idx - 1)) + offset
    BY <1>2 DEF Exact
  <2> DEFINE s == Size(SubSeq(payload, 1, idx - 1))
             l == Len(wire)
             n == Size(payload)
             r == Len(Rest)
  <2>4. s \in Nat /\ l = s + offset /\ l \in 0..n /\ n \in Nat /\ r = n - l
    BY <1>1, <1>3, <2>2, <2>3
  <2> HIDE DEF s, l, n, r
  <2>5. l \in Nat /\ l \in 0..(n + Cap + Arrivals) /\ offset <= l /\ r \in Int
    BY <1>1, <2>4
  <2> QED BY <2>5 DEF l, n, r
<1> DEFINE still == UNCHANGED wire /\ UNCHANGED <<kernelVars, sig, stopped>>
<1>5. CASE Rest # <<>> /\ \E n \in Takes : Accept(n)
  <2>1. PICK n \in Takes : Accept(n)
    BY <1>5
  <2>2. Len(Rest) >= 1
    BY <1>3, <1>4, <1>5
  <2>3. n \in 1..Len(Rest)
    <3>1. CASE op = "sendto"
      BY <1>4, <2>1, <2>2, <3>1 DEF Takes
    <3>2. CASE op = "send_file"
      <4> DEFINE m == Min({Cap - queued, Len(Rest), flen - offset})
      <4>1. n \in 1..m
        BY <2>1, <3>2 DEF Takes
      <4>2. m \in Int /\ m <= Len(Rest)
        <5>1. Cap - queued \in Int /\ flen - offset \in Int
          BY <1>1
        <5> QED BY <1>4, <5>1, MinOfThree, Zenon
      <4> HIDE DEF m
      <4> QED BY <1>4, <4>1, <4>2
    <3>3. CASE op \notin {"sendto", "send_file"}
      <4> DEFINE m == Min({Cap - queued, Len(Rest)})
      <4>1. n \in 1..m
        BY <2>1, <3>3 DEF Takes
      <4>2. m \in Int /\ m <= Len(Rest)
        <5>1. Cap - queued \in Int
          BY <1>1
        <5> QED BY <1>4, <5>1, MinOfTwo, Zenon
      <4> HIDE DEF m
      <4> QED BY <1>4, <4>1, <4>2
    <3> QED BY <3>1, <3>2, <3>3
  <2> QED BY <1>0, <2>1, <2>3, AcceptKeeps
<1>6. CASE (Rest = <<>> \/ (op = "send_file" /\ flen <= offset)) /\ NothingTaken /\ still
  <2>1. CASE op = "send_file" /\ Rest = <<>>
    <3>1. Return(Len(wire), "no_message")
      BY <1>6, <2>1 DEF NothingTaken
    <3> QED BY <1>0, <1>4, <1>6, <3>1, ReturnKeeps DEF Errors
  <2>2. CASE ~ (op = "send_file" /\ Rest = <<>>)
    <3>1. Return(Len(wire), "none")
      BY <1>6, <2>2 DEF NothingTaken
    <3>2. Len(wire) = Size(payload) \/ (op = "send_file" /\ flen < Size(payload))
      <4>1. CASE Rest = <<>>
        BY <1>3, <4>1
      <4>2. CASE Rest # <<>>
        <5>1. Len(Rest) # 0
          BY <1>3, <4>2
        <5> QED BY <1>1, <1>3, <1>4, <1>6, <4>2, <5>1
      <4> QED BY <4>1, <4>2
    <3> QED BY <1>0, <1>4, <1>6, <3>1, <3>2, ReturnKeeps DEF Errors
  <2> QED BY <2>1, <2>2
<1>7. CASE still /\ Return(Len(wire), IF op = "tls_write" THEN "io_error" ELSE "errno")
  <2>1. PICK e \in {"io_error", "errno"} : Return(Len(wire), e)
    BY <1>7
  <2>2. e \in Errors /\ e \notin {"none", "not_connected"}
    BY DEF Errors
  <2> QED BY <1>0, <1>4, <1>7, <2>1, <2>2, ReturnKeeps
<1>8. CASE (\E e \in {"IN", "OUT"} : Again(e)) /\ UNCHANGED <<kernelVars, sig, stopped>>
  BY <1>0, <1>8, AgainKeeps
<1>9. CASE op = "tls_write" /\ peer = "fin" /\ Return(0, "not_connected") /\ still
  <2>1. wire = <<>> /\ Len(<<>>) = 0
    BY <1>0, <1>9 DEF TInv, Moved
  <2> QED BY <1>0, <1>1, <1>9, <2>1, ReturnKeeps DEF Errors
<1> QED BY <1>5, <1>6, <1>7, <1>8, <1>9 DEF TrySend, TlsWriteBlocked

\* The signals: the awaiting loop goes on, sleeps, or is refused.
LEMMA SignalsKeep ==
  ASSUME TInv, Signals, UNCHANGED connVars
  PROVE  TInv'
<1> USE DEF TInv, connVars, kernelVars
<1>0. /\ Size(payload) \in Nat /\ Cap \in Nat /\ Arrivals \in Nat /\ inbox \in Nat
      /\ left \in Nat /\ payload \in Seq(Nat)
  BY TypeFacts
<1>1. CASE Await /\ stopped
  <2>0. pc = "await" /\ pc # "idle"
    BY <1>1 DEF Await
  <2>1. /\ Return(Len(wire), Refusal(op)) /\ UNCHANGED wire
        /\ UNCHANGED <<kernelVars, sig, stopped>>
    BY <1>1 DEF Await
  <2>2. wire \in Seq(Byte) /\ Len(wire) \in Nat
    BY DEF Moved
  <2>3. Refusal(op) \in {"canceled", "again", "not_connected"}
    BY DEF Refusal
  <2>4. (phase # "up" \/ op = "connect") => Len(wire) = 0 /\ Refusal(op) = "not_connected"
    <3>1. Len(<<>>) = 0
      OBVIOUS
    <3> QED BY <3>1 DEF Before, Refusal
  <2>5. Len(wire) \in 0..(Size(payload) + Cap + Arrivals)
    <3>1. op \in Receiving \/ op \in Sending \/ op = "connect"
      BY DEF TypeOK, TransferTypeOK
    <3>2. CASE op \in Receiving
      BY <1>0, <2>0, <2>2, <3>2 DEF Moved
    <3>3. CASE op \in Sending
      <4>1. Exact
        BY <2>0, <3>3 DEF WireExact, Moved, Exact
      <4>2. Len(wire) \in 0..Size(payload)
        BY <1>0, <4>1, RestFacts
      <4> QED BY <1>0, <2>2, <4>2
    <3>4. CASE op = "connect"
      BY <1>0, <2>4, <3>4
    <3> QED BY <3>1, <3>2, <3>3, <3>4
  <2> DEFINE e == Refusal(op)
  <2>6. e \in Errors /\ e # "none"
    BY <2>3 DEF Errors
  <2>7. Return(Len(wire), e)
    BY <2>1
  <2> HIDE DEF e
  <2>8. (phase # "up" \/ op = "connect") => Len(wire) = 0 /\ e = "not_connected"
    BY <2>4 DEF e
  <2> QED BY <1>1, <2>0, <2>1, <2>5, <2>6, <2>7, <2>8, ReturnKeeps
<1>2. CASE Await /\ ~ stopped
  <2>1. /\ pc = "await" /\ pc' \in {"try", "asleep"}
        /\ sig' = [sig EXCEPT ![waits] = "clear"]
        /\ UNCHANGED <<op, waits, payload, idx, offset, wire, result, kernelVars, stopped>>
    BY <1>2 DEF Await
  <2>2. sig' \in [{"IN", "OUT"} -> {"clear", "set"}]
    BY <2>1 DEF TypeOK, TransferTypeOK
  <2>3. TransferTypeOK'
    BY <2>1, <2>2 DEF TypeOK, TransferTypeOK
  <2>4. TypeOK'
    BY <2>3 DEF TypeOK
  <2>5. Moved' /\ WireExact' /\ Before' /\ Attempt' /\ ResultsHonest'
    BY <2>1 DEF Moved, WireExact, Before, Attempt, ResultsHonest
  <2> QED BY <2>4, <2>5
<1>3. CASE Stop
  <2>1. /\ stopped' = TRUE /\ (pc # "idle" => pc' # "idle") /\ (pc = "idle" => pc' = "idle")
        /\ pc' \in {"idle", "try", "await", "asleep"}
        /\ UNCHANGED <<op, waits, payload, idx, offset, wire, result, kernelVars, sig>>
    BY <1>3 DEF Stop, TypeOK, TransferTypeOK
  <2>3. TransferTypeOK'
    BY <2>1 DEF TypeOK, TransferTypeOK
  <2>4. TypeOK'
    BY <2>3 DEF TypeOK
  <2>5. Moved' /\ WireExact' /\ Before' /\ Attempt'
    BY <2>1 DEF Moved, WireExact, Before, Attempt
  <2>6. ResultsHonest'
    BY <2>1 DEF ResultsHonest
  <2> QED BY <2>4, <2>5, <2>6
<1>4. CASE \E e \in {"IN", "OUT"} : Publish(e)
  <2>0. PICK e \in {"IN", "OUT"} : Publish(e)
    BY <1>4
  <2>1. /\ ready' \subseteq {"IN", "OUT"}
        /\ (pc # "idle" => pc' # "idle") /\ (pc = "idle" => pc' = "idle")
        /\ pc' \in {"idle", "try", "await", "asleep"}
        /\ UNCHANGED <<op, waits, payload, idx, offset, wire, result, queued, inbox,
                       left, peer, flen, stopped>>
    BY <2>0 DEF Publish, TypeOK, TransferTypeOK
  <2>2. sig' \in [{"IN", "OUT"} -> {"clear", "set"}]
    BY <2>0 DEF Publish, TypeOK, TransferTypeOK
  <2>3. TransferTypeOK'
    BY <2>1, <2>2 DEF TypeOK, TransferTypeOK
  <2>4. TypeOK'
    BY <2>3 DEF TypeOK
  <2>5. Moved' /\ WireExact' /\ Before' /\ Attempt'
    BY <2>1 DEF Moved, WireExact, Before, Attempt
  <2>6. ResultsHonest'
    BY <2>1 DEF ResultsHonest
  <2> QED BY <2>4, <2>5, <2>6
<1> QED BY <1>1, <1>2, <1>3, <1>4 DEF Signals

\* The peer and the file.
LEMMA PeerKeeps ==
  ASSUME TInv, phase = "up", Peer \/ FileShrinks, UNCHANGED connVars
  PROVE  TInv'
<1> USE DEF TInv, connVars, coroVars
<1>0. /\ Size(payload) \in Nat /\ Cap \in Nat /\ Arrivals \in Nat /\ inbox \in Nat
      /\ left \in Nat /\ queued \in Nat /\ offset \in Nat /\ wire \in Seq(Byte)
      /\ Len(wire) \in Nat
  BY TypeFacts DEF Moved
<1>1. CASE PeerSends
  <2>1. /\ inbox' = inbox + 1 /\ left' = left - 1 /\ left > 0
        /\ ready' \subseteq {"IN", "OUT"}
        /\ UNCHANGED <<coroVars, queued, peer, flen, sig, stopped>>
    BY <1>1 DEF PeerSends, TypeOK, TransferTypeOK
  <2>2. inbox' \in 0..Arrivals /\ left' \in 0..Arrivals /\ inbox' + left' = inbox + left
    BY <1>0, <2>1 DEF Moved
  <2>3. Len(wire') + inbox' + left' = Len(wire) + inbox + left
    BY <1>0, <2>1
  <2>4. TransferTypeOK'
    BY <2>1, <2>2 DEF TypeOK, TransferTypeOK
  <2>5. TypeOK'
    BY <2>4 DEF TypeOK
  <2>6. Moved'
    BY <2>1, <2>2, <2>3 DEF Moved
  <2>7. WireExact' /\ Before' /\ Attempt' /\ ResultsHonest'
    BY <2>1 DEF WireExact, Before, Attempt, ResultsHonest
  <2> QED BY <2>5, <2>6, <2>7
<1>2. CASE PeerCloses \/ PeerResets
  <2>1. /\ peer' \in {"fin", "rst"} /\ ready' \subseteq {"IN", "OUT"}
        /\ UNCHANGED <<coroVars, queued, inbox, left, flen, sig, stopped>>
    BY <1>2 DEF PeerCloses, PeerResets, TypeOK, TransferTypeOK
  <2>4. TransferTypeOK'
    BY <2>1 DEF TypeOK, TransferTypeOK
  <2>5. TypeOK'
    BY <2>4 DEF TypeOK
  <2>7. Moved' /\ WireExact' /\ Before' /\ Attempt' /\ ResultsHonest'
    BY <2>1 DEF Moved, WireExact, Before, Attempt, ResultsHonest
  <2> QED BY <2>5, <2>7
<1>3. CASE PeerReads
  <2>1. /\ queued' = queued - 1 /\ queued > 0 /\ ready' \subseteq {"IN", "OUT"}
        /\ UNCHANGED <<coroVars, inbox, left, peer, flen, sig, stopped>>
    BY <1>3 DEF PeerReads, TypeOK, TransferTypeOK
  <2>2. queued' \in 0..Cap
    BY <1>0, <2>1 DEF TypeOK, TransferTypeOK
  <2>4. TransferTypeOK'
    BY <2>1, <2>2 DEF TypeOK, TransferTypeOK
  <2>5. TypeOK'
    BY <2>4 DEF TypeOK
  <2>7. Moved' /\ WireExact' /\ Before' /\ Attempt' /\ ResultsHonest'
    BY <2>1 DEF Moved, WireExact, Before, Attempt, ResultsHonest
  <2> QED BY <2>5, <2>7
<1>4. CASE FileShrinks
  <2>1. /\ pc # "idle" /\ flen' = offset
        /\ UNCHANGED <<coroVars, queued, inbox, left, peer, ready, sig, stopped>>
    BY <1>4 DEF FileShrinks
  <2>4. TransferTypeOK'
    BY <1>0, <2>1 DEF TypeOK, TransferTypeOK
  <2>5. TypeOK'
    BY <2>4 DEF TypeOK
  <2>7. Moved' /\ WireExact' /\ Before' /\ Attempt' /\ ResultsHonest'
    BY <2>1 DEF Moved, WireExact, Before, Attempt, ResultsHonest
  <2> QED BY <2>5, <2>7
<1> QED BY <1>1, <1>2, <1>3, <1>4 DEF Peer

FdState == {"none", "connecting", "up", "refused", "closed", "leaked"}

\* Connecting moves no byte and leaves the transfer's own state as it is.
LEMMA ConnectingKeeps ==
  ASSUME TInv,
         Connecting \/ \E a \in Addr : Establish(a) \/ Refuse(a)
  PROVE  TInv'
<1> USE DEF TInv
<1>0. /\ fd \in [Addr -> FdState] /\ NAddr \in Nat /\ NAddr >= 1 /\ ai \in 1..(NAddr + 1)
      /\ held \in 0..NAddr /\ regs \subseteq Addr /\ dyn \in BOOLEAN
      /\ ec \in {"none", "errno", "not_connected"}
  BY ConnectAssumption DEF TypeOK, FdState
<1>1. CASE Resolve
  <2>1. /\ phase = "resolving" /\ phase' \in {"trying", "failed"}
        /\ UNCHANGED <<transferVars, dyn, ai, ec, fd, held, regs>>
    BY <1>1 DEF Resolve
  <2>2. TransferTypeOK'
    BY <2>1 DEF TypeOK, TransferTypeOK, transferVars, coroVars, kernelVars
  <2>3. TypeOK'
    BY <2>1, <2>2 DEF TypeOK, Addr
  <2>4. Moved' /\ WireExact' /\ Before' /\ Attempt' /\ ResultsHonest'
    BY <2>1 DEF Moved, WireExact, Before, Attempt, ResultsHonest, transferVars,
         coroVars, kernelVars
  <2> QED BY <2>3, <2>4
<1>2. CASE TryAddress /\ \E e \in {"errno", "none", "no_socket"} : Fails(e)
  <2>0. PICK e \in {"errno", "none", "no_socket"} : Fails(e)
    BY <1>2
  <2>1. /\ phase = "trying" /\ pc = "idle" /\ ai <= LastAddr
        /\ UNCHANGED <<payload, idx, offset, wire, result, kernelVars, stopped, dyn, phase>>
        /\ UNCHANGED <<held, regs, sig, op, pc, waits>> /\ ai' = ai + 1
    BY <1>2, <2>0 DEF TryAddress, Fails
  <2>2. fd' \in [Addr -> FdState]
    BY <1>0, <2>0 DEF Fails, FdState
  <2>3. ec' \in {"none", "errno", "not_connected"}
    BY <1>0, <2>0 DEF Fails
  <2>4. ai' \in 1..(NAddr + 1)
    <3>1. LastAddr = NAddr \/ LastAddr = 1
      BY DEF LastAddr
    <3>2. NAddr \in Nat /\ NAddr >= 1 /\ ai \in Nat /\ ai >= 1
      BY <1>0
    <3>3. ai' = ai + 1 /\ ai <= LastAddr
      BY <2>1, Zenon
    <3> QED BY <3>1, <3>2, <3>3
  <2>5. TransferTypeOK'
    BY <2>1 DEF TypeOK, TransferTypeOK, kernelVars
  <2>6. TypeOK'
    BY <2>1, <2>2, <2>3, <2>4, <2>5 DEF TypeOK, FdState
  <2>7. Moved' /\ WireExact' /\ Before' /\ Attempt' /\ ResultsHonest'
    BY <2>1 DEF Moved, WireExact, Before, Attempt, ResultsHonest, kernelVars
  <2> QED BY <2>6, <2>7
<1>3. CASE TryAddress /\ InitDevice
  <2>1. /\ phase = "trying" /\ pc = "idle" /\ ai <= LastAddr
        /\ UNCHANGED <<payload, idx, offset, wire, result, kernelVars, stopped, dyn, phase>>
    BY <1>3 DEF TryAddress
  <2>2. ai \in Addr
    BY <1>0, <2>1 DEF LastAddr, Addr
  <2>a. \/ /\ op' = "connect" /\ pc' = "await" /\ waits' = "OUT"
           /\ UNCHANGED <<ec, ai>>
        \/ ec' = "errno" /\ ai' = ai + 1 /\ UNCHANGED <<op, pc, waits>>
    BY <1>3 DEF InitDevice
  <2>b. ai' \in 1..(NAddr + 1) /\ ec' \in {"none", "errno", "not_connected"}
    BY <1>0, <2>2, <2>a DEF Addr
  <2>3. fd' \in [Addr -> FdState]
    <3>1. fd' = [b \in Addr |-> CASE b = ai -> "connecting" [] b = held -> "leaked"
                                  [] OTHER -> fd[b]]
      BY <1>3 DEF InitDevice, Emplace
    <3>2. \A b \in Addr : (CASE b = ai -> "connecting" [] b = held -> "leaked"
                             [] OTHER -> fd[b]) \in FdState
      BY <1>0 DEF FdState
    <3> QED BY <3>1, <3>2
  <2>4. held' = ai /\ regs' \subseteq Addr /\ held' \in 0..NAddr
    BY <1>0, <1>3, <2>2 DEF InitDevice, Emplace, Addr
  <2>5. sig' \in [{"IN", "OUT"} -> {"clear", "set"}]
    BY <1>3 DEF InitDevice
  <2>6. TransferTypeOK'
    BY <2>1, <2>5, <2>a DEF TypeOK, TransferTypeOK, kernelVars
  <2>7. TypeOK'
    BY <2>1, <2>3, <2>4, <2>6, <2>b DEF TypeOK, FdState
  <2>8. Moved' /\ WireExact' /\ Before' /\ Attempt' /\ ResultsHonest'
    <3>1. "connect" \notin Receiving \cup Sending \cup {"tls_write"}
      BY DEF Receiving, Sending
    <3>2. wire = <<>> /\ payload = <<>>
      BY <2>1 DEF Before
    <3> QED BY <2>1, <2>4, <2>a, <3>1, <3>2 DEF Moved, WireExact, Before, Attempt,
              ResultsHonest, kernelVars
  <2> QED BY <2>7, <2>8
<1>4. CASE Check
  <2>1. /\ phase = "trying" /\ pc = "try" /\ pc' = "idle" /\ phase' # "resolving"
        /\ phase' \in {"trying", "up", "threw"}
        /\ UNCHANGED <<op, waits, payload, idx, offset, wire, result, kernelVars,
                       sig, stopped, dyn, fd, held, regs>>
    BY <1>4 DEF Check
  <2>2. ai' \in {ai, ai + 1} /\ ec' \in {ec, "errno"} /\ held = ai
    BY <1>4, <2>1 DEF Check, Attempt
  <2>3. ai' \in 1..(NAddr + 1)
    BY <1>0, <2>2
  <2>4. TransferTypeOK'
    BY <2>1 DEF TypeOK, TransferTypeOK, kernelVars
  <2>5. TypeOK'
    BY <1>0, <2>1, <2>2, <2>3, <2>4 DEF TypeOK
  <2>6. Moved' /\ WireExact' /\ Before' /\ Attempt'
    BY <2>1 DEF Moved, WireExact, Before, Attempt, kernelVars
  <2>7. ResultsHonest'
    <3>1. /\ wire = <<>> /\ result.size = 0 /\ op \in {"recv", "connect"}
          /\ result.err \in {"none", "not_connected"}
          /\ result.err = "not_connected" => stopped
      BY <2>1 DEF Before
    <3>2. Len(wire') = 0 /\ op' \notin Sending
      BY <2>1, <3>1 DEF Sending
    <3> QED BY <2>1, <3>1, <3>2 DEF ResultsHonest
  <2> QED BY <2>5, <2>6, <2>7
<1>5. CASE Cancelled \/ Exhausted
  <2>1. /\ phase = "trying" /\ pc = "idle" /\ phase' \in {"trying", "up", "threw", "failed"}
        /\ UNCHANGED <<transferVars, dyn, fd, held, regs>>
    BY <1>5 DEF Cancelled, Exhausted
  <2>2. ec' \in {"none", "errno", "not_connected"} /\ ai' \in 1..(NAddr + 1)
    BY <1>0, <1>5 DEF Cancelled, Exhausted
  <2>3. TransferTypeOK'
    BY <2>1 DEF TypeOK, TransferTypeOK, transferVars, coroVars, kernelVars
  <2>4. TypeOK'
    BY <2>1, <2>2, <2>3 DEF TypeOK
  <2>5. Moved' /\ WireExact' /\ Before' /\ Attempt' /\ ResultsHonest'
    BY <2>1 DEF Moved, WireExact, Before, Attempt, ResultsHonest, transferVars,
         coroVars, kernelVars
  <2> QED BY <2>4, <2>5
<1>6. CASE \E a \in Addr : Establish(a)
  <2>0. PICK a \in Addr : Establish(a)
    BY <1>6
  <2>1. /\ fd' = [fd EXCEPT ![a] = "up"] /\ ready' \subseteq ready \cup {"OUT"}
        /\ UNCHANGED <<coroVars, queued, inbox, left, peer, flen, sig, stopped, dyn,
                       phase, ai, ec, held, regs>>
    BY <2>0 DEF Establish
  <2>2. fd' \in [Addr -> FdState]
    BY <1>0, <2>1 DEF FdState
  <2>3. TransferTypeOK'
    BY <2>1 DEF TypeOK, TransferTypeOK, coroVars
  <2>4. TypeOK'
    BY <2>1, <2>2, <2>3 DEF TypeOK, FdState
  <2>5. Moved' /\ WireExact' /\ Before' /\ Attempt' /\ ResultsHonest'
    BY <2>1 DEF Moved, WireExact, Before, Attempt, ResultsHonest, coroVars
  <2> QED BY <2>4, <2>5
<1>7. CASE \E a \in Addr : Refuse(a)
  <2>0. PICK a \in Addr : Refuse(a)
    BY <1>7
  <2>1. /\ fd' = [fd EXCEPT ![a] = "refused"] /\ regs' = regs \ {a}
        /\ UNCHANGED <<transferVars, dyn, phase, ai, ec, held>>
    BY <2>0 DEF Refuse
  <2>2. fd' \in [Addr -> FdState] /\ regs' \subseteq Addr
    BY <1>0, <2>1 DEF FdState
  <2>3. TransferTypeOK'
    BY <2>1 DEF TypeOK, TransferTypeOK, transferVars, coroVars, kernelVars
  <2>4. TypeOK'
    BY <2>1, <2>2, <2>3 DEF TypeOK, FdState
  <2>5. Moved' /\ WireExact' /\ Before' /\ Attempt' /\ ResultsHonest'
    BY <2>1 DEF Moved, WireExact, Before, Attempt, ResultsHonest, transferVars,
         coroVars, kernelVars
  <2> QED BY <2>4, <2>5
<1>8. TryAddress => <1>2!1 \/ <1>3!1
  BY DEF TryAddress
<1> QED BY <1>1, <1>2, <1>3, <1>4, <1>5, <1>6, <1>7, <1>8 DEF Connecting

(***************************************************************************)
(* Whatever is sent and received, in whatever portions the kernel takes    *)
(* and gives, and whatever the peer, the poller and a cancellation do in   *)
(* between: the invariant holds (io.h, tls.h, pipe.h, net/socket.h).       *)
(***************************************************************************)
THEOREM Invariance == Spec => []TInv
<1>1. ASSUME TInv, [Next]_vars PROVE TInv'
  <2>1. CASE Connecting \/ \E a \in Addr : Establish(a) \/ Refuse(a)
    BY <1>1, <2>1, ConnectingKeeps
  <2>2. CASE Signals /\ UNCHANGED connVars
    BY <1>1, <2>2, SignalsKeep
  <2>3. CASE phase = "up" /\ UNCHANGED connVars /\ Starts
    BY <1>1, <2>3, StartsKeeps
  <2>4. CASE phase = "up" /\ UNCHANGED connVars /\ Calls
    BY <1>1, <2>4, TryReceiveKeeps, TrySendKeeps DEF Calls
  <2>5. CASE phase = "up" /\ UNCHANGED connVars /\ (Peer \/ FileShrinks)
    BY <1>1, <2>5, PeerKeeps
  <2>6. CASE UNCHANGED vars
    <3> USE DEF TInv
    <3>1. TransferTypeOK'
      BY <1>1, <2>6 DEF TypeOK, TransferTypeOK, vars, transferVars, coroVars, kernelVars
    <3>2. TypeOK'
      BY <1>1, <2>6, <3>1 DEF TypeOK, vars, connVars
    <3>3. Moved' /\ WireExact' /\ Before' /\ Attempt' /\ ResultsHonest'
      BY <1>1, <2>6 DEF Moved, WireExact, Before, Attempt, ResultsHonest, vars,
           transferVars, coroVars, kernelVars, connVars
    <3> QED BY <3>2, <3>3
  <2> QED BY <1>1, <2>1, <2>2, <2>3, <2>4, <2>5, <2>6 DEF Next
<1> QED BY <1>1, InitInvariant, PTL DEF Spec

(***************************************************************************)
(* For every payload, buffer size and number of addresses: at every moment *)
(* the bytes on the wire are a prefix of the payload, no byte twice and    *)
(* none skipped, and the loop's chunk and offset say how long it is        *)
(* (io.h 282-424).                                                         *)
(***************************************************************************)
THEOREM TransfersSoundHolds == Spec => []TransfersSound
<1>1. TInv => TransfersSound
  BY DEF TInv, TransfersSound
<1> QED BY <1>1, Invariance, PTL

(***************************************************************************)
(* Every result a loop returns is honest: a send without an error is       *)
(* complete but for a shrunken file and TLS, sizes are what was moved, and *)
(* not_connected means gone or cancelled, or that recv() or write() moved  *)
(* nothing (io.h 174-177, 310-320, 384, 423).                              *)
(***************************************************************************)
THEOREM ResultsHonestHolds == Spec => []ResultsHonest
<1>1. TInv => ResultsHonest
  BY DEF TInv
<1> QED BY <1>1, Invariance, PTL

-----------------------------------------------------------------------------
(* Which descriptor a connected client has.                                *)

\* Until the addresses are known nothing has happened.
Untouched ==
  phase = "resolving" =>
    /\ held = 0 /\ ai = 1 /\ regs = {} /\ ready = {}
    /\ sig = [e \in {"IN", "OUT"} |-> "clear"]
    /\ \A a \in Addr : fd[a] = "none"

\* While addresses are tried, the network answers the descriptor held only,
\* which the poller knows or whose address is passed, and an address that was
\* passed left its error.
Held ==
  phase = "trying" =>
    /\ \A a \in Addr : fd[a] \in {"connecting", "up"} =>
                         a = held /\ (a \in regs \/ held < ai)
    /\ pc # "idle" => fd[held] \in {"connecting", "up", "refused"} /\ waits = "OUT"
    /\ ai > 1 => ec # "none"
    /\ held <= ai /\ \A a \in regs : a <= held

\* One establishment is announced once: as an event the poller has yet to
\* publish, as the set signal, or as the resumed coroutine.
Announced ==
  phase = "trying" =>
    /\ ready \subseteq {"OUT"}
    /\ pc = "try" => fd[held] # "connecting"
    /\ stopped => pc # "asleep"
    /\ ~ stopped =>
         /\ (pc = "idle" /\ held # 0) =>
              (held < ai /\ (fd[held] = "refused" \/ held \notin regs))
         /\ (held # 0 /\ fd[held] = "connecting") =>
              ("OUT" \notin ready /\ sig["OUT"] = "clear")
         /\ "OUT" \in ready => (sig["OUT"] = "clear" /\ pc \in {"await", "asleep"})
         /\ sig["OUT"] = "set" => pc = "await"

CInv == TInv /\ Untouched /\ Held /\ Announced

LEMMA CFacts ==
  ASSUME TypeOK
  PROVE  /\ fd \in [Addr -> FdState] /\ NAddr \in Nat /\ NAddr >= 1 /\ ai \in Nat
         /\ ai >= 1 /\ held \in Nat /\ held <= NAddr /\ regs \subseteq Addr
         /\ sig \in [{"IN", "OUT"} -> {"clear", "set"}]
         /\ pc \in {"idle", "try", "await", "asleep"}
<1>1. NAddr \in Nat /\ NAddr >= 1
  BY ConnectAssumption
<1>2. fd \in [Addr -> FdState] /\ regs \subseteq Addr
  BY DEF TypeOK, FdState
<1>3. ai \in Nat /\ ai >= 1 /\ held \in Nat /\ held <= NAddr
  BY <1>1 DEF TypeOK
<1>4. sig \in [{"IN", "OUT"} -> {"clear", "set"}] /\ pc \in {"idle", "try", "await", "asleep"}
  BY DEF TypeOK, TransferTypeOK
<1> QED BY <1>1, <1>2, <1>3, <1>4

LEMMA InitConnect == Init => CInv
  BY InitInvariant DEF Init, TransferInit, CInv, Untouched, Held, Announced

\* A step that leaves the attempts alone and does not take up a new one.
LEMMA AwayKeeps ==
  ASSUME CInv, TInv', phase' \notin {"resolving", "trying"}
  PROVE  CInv'
  BY DEF CInv, Untouched, Held, Announced

LEMMA ConnectStep ==
  ASSUME Surprises = FALSE, CInv, TInv',
         Connecting \/ \E a \in Addr : Establish(a) \/ Refuse(a)
  PROVE  /\ CInv'
         /\ phase # "up" /\ phase' = "up" =>
              held # 0 /\ fd[held] = "up" /\ held \in regs
<1> USE DEF CInv
<1>0. /\ fd \in [Addr -> FdState] /\ NAddr \in Nat /\ NAddr >= 1 /\ ai \in Nat
      /\ ai >= 1 /\ held \in Nat /\ held <= NAddr /\ regs \subseteq Addr
      /\ sig \in [{"IN", "OUT"} -> {"clear", "set"}]
      /\ pc \in {"idle", "try", "await", "asleep"}
  BY CFacts DEF TInv
<1>a. (phase = "trying" /\ pc # "idle") => (held = ai /\ held \in Addr)
  BY <1>0 DEF TInv, Attempt, Addr
<1>1. CASE Resolve
  <2>1. /\ phase = "resolving" /\ phase' \in {"trying", "failed"} /\ pc = "idle"
        /\ UNCHANGED <<ready, sig, pc, stopped, ai, ec, fd, held, regs>>
    BY <1>1 DEF Resolve, transferVars, coroVars, kernelVars, TInv, Attempt
  <2>2. /\ held = 0 /\ ai = 1 /\ regs = {} /\ ready = {} /\ sig["OUT"] = "clear"
        /\ \A a \in Addr : fd[a] = "none"
    BY <2>1 DEF Untouched
  <2>3. Untouched'
    BY <2>1 DEF Untouched
  <2>4. Held'
    BY <2>1, <2>2 DEF Held
  <2>5. Announced'
    BY <2>1, <2>2 DEF Announced
  <2> QED BY <2>1, <2>3, <2>4, <2>5
<1>2. CASE TryAddress /\ Fails("errno")
  <2>1. /\ phase = "trying" /\ phase' = phase /\ pc = "idle" /\ held # ai
        /\ ec' = "errno" /\ ai' = ai + 1 /\ fd' = [fd EXCEPT ![ai] = "closed"]
        /\ UNCHANGED <<ready, sig, pc, waits, stopped, held, regs>>
    BY <1>2 DEF TryAddress, Fails, kernelVars
  <2>2. \A a \in Addr : fd'[a] = IF a = ai THEN "closed" ELSE fd[a]
    BY <1>0, <2>1
  <2>3. held # 0 => (held \in Addr /\ fd'[held] = fd[held])
    BY <1>0, <2>1, <2>2 DEF Addr
  <2>4. Untouched'
    BY <2>1 DEF Untouched
  <2>5. Held'
    <3>1. held <= ai
      BY <2>1 DEF Held
    <3>2. held' <= ai' /\ held' < ai'
      BY <1>0, <2>1, <3>1
    <3> QED BY <2>1, <2>2, <3>2 DEF Held
  <2>6. Announced'
    <3>1. (~ stopped /\ held # 0) => held' < ai'
      BY <1>0, <2>1 DEF Announced
    <3> QED BY <2>1, <2>3, <3>1 DEF Announced
  <2> QED BY <2>1, <2>4, <2>5, <2>6
<1>3. CASE TryAddress /\ InitDevice
  <2>1. /\ phase = "trying" /\ phase' = phase /\ pc = "idle" /\ ai <= LastAddr
        /\ held' = ai /\ sig' = [e \in {"IN", "OUT"} |-> "clear"]
        /\ UNCHANGED <<ready, stopped>>
    BY <1>3 DEF TryAddress, InitDevice, Emplace, kernelVars
  <2>a. \/ /\ regs' = regs \cup {ai} /\ pc' = "await" /\ waits' = "OUT"
           /\ UNCHANGED <<ec, ai>>
        \/ ec' = "errno" /\ ai' = ai + 1 /\ UNCHANGED <<regs, pc, waits>>
    BY <1>3 DEF InitDevice
  <2>2. ai \in Addr
    <3>1. LastAddr = NAddr \/ LastAddr = 1
      BY DEF LastAddr
    <3> QED BY <1>0, <2>1, <3>1 DEF Addr
  <2>3. fd' = [b \in Addr |-> CASE b = ai -> "connecting" [] b = held -> "leaked"
                                [] OTHER -> fd[b]]
    BY <1>3 DEF InitDevice, Emplace
  <2>4. fd'[ai] = "connecting"
    <3> DEFINE F == [b \in Addr |-> CASE b = ai -> "connecting" [] b = held -> "leaked"
                                      [] OTHER -> fd[b]]
    <3>1. F[ai] = (CASE ai = ai -> "connecting" [] ai = held -> "leaked"
                     [] OTHER -> fd[ai])
      BY <2>2
    <3>2. ai # held
      BY <1>3 DEF TryAddress
    <3>3. F[ai] = "connecting"
      BY <3>1, <3>2
    <3> HIDE DEF F
    <3> QED BY <2>3, <3>3 DEF F
  <2>5. \A b \in Addr : b # ai => fd'[b] \in {"leaked", fd[b]} /\ (b = held => fd'[b] = "leaked")
    BY <2>3
  <2>6. \A b \in Addr : fd[b] \in {"connecting", "up"} => b = held
    BY <2>1 DEF Held
  <2>7. Untouched'
    BY <2>1 DEF Untouched
  <2>8. Held'
    <3>1. \A a \in Addr : fd'[a] \in {"connecting", "up"} => a = held'
      BY <2>1, <2>5, <2>6
    <3>2. ai > 1 => ec # "none"
      BY <2>1 DEF Held
    <3>3. (held' \in regs' \/ held' < ai') /\ held' <= ai'
      BY <1>0, <2>1, <2>a
    <3>4. \A a \in regs' : a <= held'
      <4>1. held <= ai /\ \A a \in regs : a <= held /\ a \in Nat
        BY <1>0, <2>1 DEF Held, Addr
      <4> QED BY <1>0, <2>1, <2>a, <4>1
    <3> QED BY <1>0, <2>1, <2>4, <2>a, <3>1, <3>2, <3>3, <3>4 DEF Held
  <2>9. Announced'
    <3>1. ~ stopped => "OUT" \notin ready
      BY <2>1 DEF Announced
    <3>2. sig'["OUT"] = "clear" /\ ready \subseteq {"OUT"}
      BY <2>1 DEF Announced
    <3>3. pc' = "idle" => held' < ai' /\ held' \notin regs'
      <4>1. ai \notin regs
        <5>1. held <= ai /\ held # ai /\ \A a \in regs : a <= held
          BY <1>3, <2>1 DEF Held, TryAddress
        <5> QED BY <1>0, <5>1
      <4> QED BY <1>0, <2>1, <2>a, <4>1
    <3>4. pc' \in {"idle", "await"}
      BY <2>1, <2>a
    <3> QED BY <2>1, <3>1, <3>2, <3>3, <3>4 DEF Announced
  <2> QED BY <2>1, <2>7, <2>8, <2>9
<1>4. CASE Check
  <2>1. /\ phase = "trying" /\ pc = "try" /\ pc' = "idle"
        /\ UNCHANGED <<ready, sig, stopped, fd, held, regs, waits>>
    BY <1>4 DEF Check, kernelVars
  <2>2. held = ai /\ held \in Addr /\ held # 0 /\ fd[held] \in {"up", "refused"}
    BY <1>0, <1>a, <2>1 DEF Held, Announced, Addr
  <2>3. CASE fd[held] = "refused"
    <3>1. ec' = "errno" /\ ai' = ai + 1 /\ phase' = phase
      BY <1>4, <2>3 DEF Check
    <3>2. Untouched'
      BY <2>1, <3>1 DEF Untouched
    <3>3. Held'
      <4>1. held' <= ai' /\ held' < ai'
        BY <1>0, <2>1, <2>2, <3>1
      <4> QED BY <2>1, <3>1, <4>1 DEF Held
    <3>4. Announced'
      <4>1. held' < ai'
        BY <1>0, <2>1, <2>2, <3>1
      <4> QED BY <2>1, <2>3, <3>1, <4>1 DEF Announced
    <3> QED BY <2>1, <3>1, <3>2, <3>3, <3>4
  <2>4. CASE fd[held] = "up"
    <3>1. phase' \in {"up", "threw"}
      BY <1>4, <2>4 DEF Check
    <3>2. held \in regs
      BY <1>0, <2>1, <2>2, <2>4 DEF Held
    <3> QED BY <2>2, <2>4, <3>1, <3>2, AwayKeeps
  <2> QED BY <2>2, <2>3, <2>4
<1>5. CASE Cancelled
  <2>1. /\ phase = "trying" /\ phase' = phase /\ pc = "idle" /\ held = ai
        /\ ec' = "not_connected" /\ ai' = ai + 1
        /\ UNCHANGED <<ready, sig, pc, waits, stopped, fd, held, regs>>
    BY <1>5 DEF Cancelled, transferVars, coroVars, kernelVars
  <2>2. stopped
    <3>1. held # 0
      BY <1>0, <2>1
    <3> QED BY <1>0, <2>1, <3>1 DEF Announced
  <2>3. Untouched'
    BY <2>1 DEF Untouched
  <2>4. Held'
    <3>1. held' <= ai' /\ held' < ai'
      BY <1>0, <2>1
    <3> QED BY <2>1, <3>1 DEF Held
  <2>5. Announced'
    BY <2>1, <2>2 DEF Announced
  <2> QED BY <2>1, <2>3, <2>4, <2>5
<1>6. CASE Exhausted
  <2>1. phase = "trying" /\ ai > LastAddr
    BY <1>6 DEF Exhausted
  <2>2. ai > 1
    <3>1. LastAddr = NAddr \/ LastAddr = 1
      BY DEF LastAddr
    <3> QED BY <1>0, <2>1, <3>1
  <2>3. ec # "none"
    BY <2>1, <2>2 DEF Held
  <2>4. phase' = "failed"
    BY <1>6, <2>3 DEF Exhausted
  <2> QED BY <2>4, AwayKeeps
<1>7. CASE \E a \in Addr : Establish(a)
  <2>0. PICK a \in Addr : Establish(a)
    BY <1>7
  <2>1. /\ fd[a] = "connecting" /\ fd' = [fd EXCEPT ![a] = "up"]
        /\ ready' = (IF a \in regs THEN ready \cup {"OUT"} ELSE ready)
        /\ UNCHANGED <<sig, stopped, pc, waits, phase, ai, ec, held, regs>>
    BY <2>0 DEF Establish, coroVars
  <2>2. \A b \in Addr : fd'[b] = IF b = a THEN "up" ELSE fd[b]
    BY <1>0, <2>1
  <2>3. phase # "resolving"
    BY <2>1 DEF Untouched
  <2>a. CASE phase = "trying" /\ a \notin regs
    <3>1. a = held /\ held < ai /\ held # 0 /\ fd'[held] = "up" /\ ready' = ready
      BY <2>1, <2>2, <2>a DEF Held, Addr
    <3>2. pc = "idle"
      BY <1>0, <1>a, <2>a, <3>1
    <3>3. Untouched'
      BY <2>1, <2>3 DEF Untouched
    <3>4. Held'
      BY <2>1, <2>2, <3>1, <3>2 DEF Held
    <3>5. Announced'
      BY <2>1, <2>a, <3>1, <3>2 DEF Announced
    <3> QED BY <2>1, <3>3, <3>4, <3>5
  <2>4. CASE phase = "trying" /\ a \in regs
    <3>1. a = held /\ a \in regs /\ held # 0 /\ fd'[held] = "up" /\ ready' = ready \cup {"OUT"}
      BY <2>1, <2>2, <2>4 DEF Held, Addr
    <3>2. Untouched'
      BY <2>1, <2>3 DEF Untouched
    <3>3. Held'
      BY <2>1, <2>2, <3>1 DEF Held
    <3>4. Announced'
      <4>1. ~ stopped => "OUT" \notin ready /\ sig["OUT"] = "clear"
        BY <2>1, <2>4, <3>1 DEF Announced
      <4>2. pc # "try" /\ (~ stopped => pc # "idle")
        BY <2>1, <2>4, <3>1 DEF Announced
      <4>3. ready' \subseteq {"OUT"}
        BY <2>4, <3>1 DEF Announced
      <4> QED BY <1>0, <2>1, <2>4, <3>1, <4>1, <4>2, <4>3 DEF Announced
    <3> QED BY <2>1, <3>2, <3>3, <3>4
  <2>5. CASE phase # "trying"
    BY <2>1, <2>3, <2>5, AwayKeeps
  <2> QED BY <2>4, <2>5, <2>a
<1>8. CASE \E a \in Addr : Refuse(a)
  <2>0. PICK a \in Addr : Refuse(a)
    BY <1>8
  <2>1. /\ phase = "trying" /\ fd[a] \in {"connecting", "up"}
        /\ fd' = [fd EXCEPT ![a] = "refused"] /\ regs' = regs \ {a}
        /\ UNCHANGED <<ready, sig, stopped, pc, waits, phase, ai, ec, held>>
    BY <2>0 DEF Refuse, transferVars, coroVars, kernelVars
  <2>2. \A b \in Addr : fd'[b] = IF b = a THEN "refused" ELSE fd[b]
    BY <1>0, <2>1
  <2>3. a = held /\ held # 0 /\ fd'[held] = "refused"
    BY <2>1, <2>2 DEF Held, Addr
  <2>4. Untouched'
    BY <2>1 DEF Untouched
  <2>5. Held'
    BY <2>1, <2>2, <2>3 DEF Held
  <2>6. Announced'
    BY <2>1, <2>3 DEF Announced
  <2> QED BY <2>1, <2>4, <2>5, <2>6
<1>9. TryAddress => <1>2!1 \/ <1>3!1
  BY DEF TryAddress
<1> QED BY <1>1, <1>2, <1>3, <1>4, <1>5, <1>6, <1>7, <1>8, <1>9 DEF Connecting

LEMMA SignalStep ==
  ASSUME CInv, TInv', Signals, UNCHANGED connVars
  PROVE  CInv'
<1> USE DEF CInv
<1>0. /\ fd \in [Addr -> FdState] /\ held \in Nat /\ ai \in Nat /\ ai >= 1
      /\ sig \in [{"IN", "OUT"} -> {"clear", "set"}]
      /\ pc \in {"idle", "try", "await", "asleep"}
      /\ UNCHANGED <<phase, ai, ec, fd, held, regs>>
  BY CFacts DEF TInv, connVars
<1>1. CASE phase \notin {"resolving", "trying"}
  BY <1>0, <1>1, AwayKeeps
<1>2. CASE phase = "resolving"
  <2>1. pc = "idle" /\ ready = {}
    BY <1>2 DEF TInv, Attempt, Untouched
  <2>2. UNCHANGED <<ready, sig>>
    BY <2>1 DEF Signals, Await, Stop, Publish, kernelVars
  <2> QED BY <1>0, <1>2, <2>2 DEF Untouched, Held, Announced
<1>3. CASE phase = "trying"
  <2>0. pc # "idle" => held = ai /\ held # 0
    BY <1>0, <1>3 DEF TInv, Attempt
  <2>a. Untouched'
    BY <1>0, <1>3 DEF Untouched
  <2>1. CASE Await /\ stopped
    <3>1. pc = "await" /\ pc' = "idle" /\ UNCHANGED <<ready, sig, stopped>>
      BY <2>1 DEF Await, Return, kernelVars
    <3> QED BY <1>0, <1>3, <2>1, <2>a, <3>1 DEF Held, Announced
  <2>2. CASE Await /\ ~ stopped
    <3>1. /\ pc = "await" /\ pc' = (IF sig[waits] = "set" THEN "try" ELSE "asleep")
          /\ sig' = [sig EXCEPT ![waits] = "clear"]
          /\ UNCHANGED <<waits, ready, stopped>>
      BY <2>2 DEF Await, kernelVars
    <3>2. waits = "OUT"
      BY <1>3, <3>1 DEF Held
    <3>3. sig'["OUT"] = "clear"
      BY <1>0, <3>1, <3>2
    <3>4. Held'
      BY <1>0, <3>1 DEF Held
    <3>5. Announced'
      <4>1. pc' = "try" => fd[held] # "connecting" /\ "OUT" \notin ready
        BY <1>3, <2>0, <2>2, <3>1, <3>2 DEF Announced
      <4>2. pc' \in {"try", "asleep"}
        BY <3>1
      <4> QED BY <1>0, <1>3, <2>2, <3>1, <3>3, <4>1, <4>2 DEF Announced
    <3> QED BY <2>a, <3>4, <3>5
  <2>3. CASE Stop
    <3>1. /\ stopped' = TRUE /\ pc' = (IF pc = "asleep" THEN "await" ELSE pc)
          /\ UNCHANGED <<waits, ready, sig>>
      BY <2>3 DEF Stop, kernelVars
    <3> QED BY <1>0, <1>3, <2>a, <3>1 DEF Held, Announced
  <2>4. CASE \E e \in {"IN", "OUT"} : Publish(e)
    <3>0. PICK e \in {"IN", "OUT"} : Publish(e)
      BY <2>4
    <3>1. e = "OUT" /\ "OUT" \in ready /\ ready' = ready \ {"OUT"} /\ UNCHANGED <<waits, stopped>>
      BY <1>3, <3>0 DEF Publish, Announced
    <3>2. CASE pc = "asleep"
      <4>1. waits = "OUT"
        BY <1>3, <3>2 DEF Held
      <4>2. pc' = "try" /\ UNCHANGED sig
        BY <3>0, <3>1, <3>2, <4>1 DEF Publish
      <4>3. ~ stopped
        BY <1>3, <3>2 DEF Announced
      <4>4. fd[held] # "connecting" /\ sig["OUT"] = "clear"
        BY <1>3, <2>0, <3>1, <3>2, <4>3 DEF Announced
      <4> QED BY <1>0, <1>3, <2>a, <3>1, <3>2, <4>2, <4>3, <4>4 DEF Held, Announced
    <3>3. CASE pc # "asleep"
      <4>1. pc' = pc /\ sig' = [sig EXCEPT !["OUT"] = "set"]
        BY <3>0, <3>1, <3>3 DEF Publish
      <4>2. ~ stopped => pc = "await"
        BY <1>3, <3>1, <3>3 DEF Announced
      <4>3. ~ stopped => ~ (held # 0 /\ fd[held] = "connecting")
        BY <1>3, <3>1 DEF Announced
      <4> QED BY <1>0, <1>3, <2>a, <3>1, <4>1, <4>2, <4>3 DEF Held, Announced
    <3> QED BY <3>2, <3>3
  <2> QED BY <2>1, <2>2, <2>3, <2>4 DEF Signals
<1> QED BY <1>1, <1>2, <1>3

LEMMA ConnectNext ==
  ASSUME Surprises = FALSE, CInv, TInv', [Next]_vars
  PROVE  /\ CInv'
         /\ phase # "up" /\ phase' = "up" =>
              held # 0 /\ fd[held] = "up" /\ held \in regs
<1>1. CASE Connecting \/ \E a \in Addr : Establish(a) \/ Refuse(a)
  BY <1>1, ConnectStep
<1>2. CASE Signals /\ UNCHANGED connVars
  BY <1>2, SignalStep DEF connVars
<1>3. CASE phase = "up" /\ UNCHANGED connVars
  BY <1>3, AwayKeeps DEF connVars
<1>4. CASE UNCHANGED vars
  BY <1>4 DEF vars, transferVars, coroVars, kernelVars, connVars, CInv, Untouched,
       Held, Announced
<1> QED BY <1>1, <1>2, <1>3, <1>4 DEF Next

(***************************************************************************)
(* Where socket() succeeds and connect() is asynchronous, a client that is *)
(* told it is connected is, for any number of addresses: the device owns   *)
(* the one descriptor that is established and the poller knows it, however *)
(* late answers, refusals and a cancellation fall (socket.h 112-133).      *)
(***************************************************************************)
THEOREM ConnectedIsUsableHolds ==
  ASSUME Surprises = FALSE
  PROVE  Spec => ConnectedIsUsable
<1>1. CInv /\ TInv' /\ [Next]_vars => CInv'
  BY ConnectNext
<1>2. CInv /\ TInv' /\ [Next]_vars =>
        [phase # "up" /\ phase' = "up" =>
           held # 0 /\ fd[held] = "up" /\ held \in regs]_vars
  BY ConnectNext
<1>3. Spec => [](CInv /\ TInv)
  BY <1>1, InitConnect, Invariance, PTL DEF Spec
<1> QED BY <1>2, <1>3, PTL DEF Spec, ConnectedIsUsable
=============================================================================
