---------------------------- MODULE FramesProofs ----------------------------
(***************************************************************************)
(* Frames, contexts and threads for any number of frames, workers and      *)
(* suspensions.                                                            *)
(*                                                                         *)
(* A chain is a path: every task that has started continues with a frame   *)
(* of its own context that awaits it and nothing else, and exactly one     *)
(* frame of a context does not await (Leaf).  A running frame is in one    *)
(* place, on one stack or in the queue.  So two threads never execute      *)
(* frames of one context, and the context's count follows the steps.       *)
(***************************************************************************)
EXTENDS Frames, FiniteSetTheorems, SequenceTheorems, TLAPS

\* A frame that has started and not yet been destroyed.
Started(f) == st[f] \in {"running", "io", "child", "final"}
StartedTask(f) == Started(f) /\ kind[f] = "task"

-----------------------------------------------------------------------------
(* Where running frames are.                                               *)

OnlyRunning ==
  /\ \A th \in Thread : \A i \in 1..Len(stack[th]) : st[stack[th][i]] = "running"
  /\ \A i \in 1..Len(queue) : st[queue[i]] = "running"

OncePlaced ==
  /\ \A th, u \in Thread : \A i \in 1..Len(stack[th]), j \in 1..Len(stack[u]) :
       stack[th][i] = stack[u][j] => th = u /\ i = j
  /\ \A i, j \in 1..Len(queue) : queue[i] = queue[j] => i = j
  /\ \A th \in Thread : \A i \in 1..Len(stack[th]), j \in 1..Len(queue) :
       stack[th][i] # queue[j]

Somewhere ==
  \A f \in Frame : st[f] = "running" =>
    \/ \E th \in Thread : \E i \in 1..Len(stack[th]) : stack[th][i] = f
    \/ \E i \in 1..Len(queue) : queue[i] = f

Placed == OnlyRunning /\ OncePlaced /\ Somewhere

-----------------------------------------------------------------------------
(* Chains.                                                                 *)

\* Frames are created in order, one that is not created is blank, and a
\* frame is created after the one that awaits it.
Blank == \A f \in Frame : st[f] = "none" => kind[f] = "task" /\ ctx[f] = NoCtx /\ next[f] = Nobody
InOrder == \A f, h \in Frame : h < f /\ st[f] # "none" => st[h] # "none"
Back == \A f \in Frame : next[f] \in Frame => next[f] < f /\ st[next[f]] # "none"

\* The awaiter a Detach frame owns and has not yet awaited.
Owned ==
  \A f \in Frame : st[f] = "initial" =>
    /\ kind[f] = "task" /\ ctx[f] = NoCtx
    /\ next[f] \in Frame /\ kind[next[f]] = "detach" /\ st[next[f]] = "running"
OwnedOnce ==
  \A f, g \in Frame : next[f] = next[g] /\ next[f] \in Frame /\ kind[next[f]] = "detach" => f = g

\* A started task is awaited by one frame of its context, or by block().
InContext == \A f \in Frame : Started(f) => ctx[f] \in Frame /\ st[ctx[f]] # "none"
Awaited ==
  \A f \in Frame : StartedTask(f) =>
    next[f] = Shell \/ (next[f] \in Frame /\ st[next[f]] = "child" /\ ctx[next[f]] = ctx[f])
AwaitedOnce == \A f, g \in Frame : StartedTask(f) /\ StartedTask(g) /\ next[f] = next[g] => f = g
Awaits == \A f \in Frame : st[f] = "child" => \E g \in Frame : StartedTask(g) /\ next[g] = f

\* A chain has one end.
Leaf ==
  \A f, g \in Frame :
    /\ Started(f) /\ st[f] # "child" /\ Started(g) /\ st[g] # "child"
    /\ ctx[f] = ctx[g]
    => f = g

\* The task block() drives, if any.
Driven ==
  /\ block = "idle" => shell = "none"
  /\ block = "driving" => shell \in {"initial", "final"}
  /\ block = "returned" => shell = "gone"
  /\ \A f \in Frame : next[f] = Shell =>
       /\ kind[f] = "task" /\ block # "idle"
       /\ block = "driving" => Started(f) /\ (st[f] = "final" <=> shell = "final")
       /\ block = "returned" => st[f] = "gone"
  /\ \A f, g \in Frame : next[f] = Shell /\ next[g] = Shell => f = g
  /\ \A f \in Frame : st[f] = "final" => next[f] = Shell

Links == Blank /\ InOrder /\ Back /\ Owned /\ OwnedOnce
Paths == InContext /\ Awaited /\ AwaitedOnce /\ Awaits /\ Leaf
Chains == Links /\ Paths /\ Driven

\* The frames that hold a reference to context c.
Holders(c) == {f \in Frame : Live(f) /\ ctx[f] = c}

Counted == \A c \in Frame : rc[c] = Cardinality(Holders(c))

IInv == TypeOK /\ Placed /\ Chains /\ Counted

-----------------------------------------------------------------------------
(* Stacks and the queue.                                                   *)

\* A set of frames has a last one.
LEMMA LastFrame ==
  ASSUME NEW T \in SUBSET Frame, T # {}
  PROVE  \E f \in T : \A g \in T : g <= f
<1> USE FramesAssumption
<1> DEFINE U == {f..NFrames : f \in T}
<1>1. U \subseteq FiniteSubsetsOf(Nat)
  <2> SUFFICES ASSUME NEW f \in T PROVE f..NFrames \in FiniteSubsetsOf(Nat)
    OBVIOUS
  <2>1. f \in Int /\ f..NFrames \subseteq Nat /\ IsFiniteSet(f..NFrames)
    BY FS_Interval DEF Frame
  <2> QED BY <2>1 DEF FiniteSubsetsOf
<1>2. U # {}
  OBVIOUS
<1>3. IsWellFoundedOn(StrictSubsetOrdering(Nat), FiniteSubsetsOf(Nat))
  BY FS_StrictSubsetOrderingWellFounded
<1>4. \E x \in U : \A y \in U : ~ (<<y, x>> \in StrictSubsetOrdering(Nat))
  <2> HIDE DEF U
  <2> QED BY <1>1, <1>2, <1>3, WFMin
<1>5. PICK f \in T : \A g \in T : ~ (<<g..NFrames, f..NFrames>> \in StrictSubsetOrdering(Nat))
  BY <1>4
<1>6. ASSUME NEW g \in T, ~ (g <= f) PROVE FALSE
  <2>1. f \in f..NFrames /\ f \notin g..NFrames
    BY <1>6 DEF Frame
  <2>2. g..NFrames \subseteq f..NFrames /\ g..NFrames \subseteq Nat /\ f..NFrames \subseteq Nat
    BY <1>6 DEF Frame
  <2> QED BY <2>1, <2>2, <1>5 DEF StrictSubsetOrdering
<1> QED BY <1>6

LEMMA Front ==
  \A s \in Seq(Frame) : s # <<>> =>
    /\ Len(s) \in Nat \ {0}
    /\ SubSeq(s, 1, Len(s) - 1) \in Seq(Frame) /\ Len(SubSeq(s, 1, Len(s) - 1)) = Len(s) - 1
    /\ \A i \in 1..(Len(s) - 1) : SubSeq(s, 1, Len(s) - 1)[i] = s[i]
<1> SUFFICES ASSUME NEW s \in Seq(Frame), s # <<>>
             PROVE  /\ Len(s) \in Nat \ {0}
                    /\ SubSeq(s, 1, Len(s) - 1) \in Seq(Frame)
                    /\ Len(SubSeq(s, 1, Len(s) - 1)) = Len(s) - 1
                    /\ \A i \in 1..(Len(s) - 1) : SubSeq(s, 1, Len(s) - 1)[i] = s[i]
  OBVIOUS
<1>1. Len(s) \in Nat \ {0} /\ \A i \in 1..(Len(s) - 1) : s[i] \in Frame
  OBVIOUS
<1> DEFINE n == Len(s) - 1
<1>2. n \in Nat /\ \A i \in 1..n : s[i] \in Frame
  BY <1>1
<1> HIDE DEF n
<1>3. /\ SubSeq(s, 1, n) \in Seq(Frame)
      /\ Len(SubSeq(s, 1, n)) = IF 1 <= n THEN n - 1 + 1 ELSE 0
      /\ \A i \in 1..(n - 1 + 1) : SubSeq(s, 1, n)[i] = s[1 + i - 1]
  BY <1>2, SubSeqProperties
<1>4. Len(SubSeq(s, 1, n)) = n /\ \A i \in 1..n : SubSeq(s, 1, n)[i] = s[i]
  BY <1>2, <1>3
<1> QED BY <1>1, <1>3, <1>4 DEF n

\* What the stack operations do to each stack.
LEMMA PopLemma ==
  ASSUME TypeOK, NEW th \in Thread, stack[th] # <<>>, stack' = Pop(th)
  PROVE  /\ stack' \in [Thread -> Seq(Frame)]
         /\ Len(stack[th]) \in Nat \ {0} /\ Len(stack'[th]) = Len(stack[th]) - 1
         /\ \A i \in 1..(Len(stack[th]) - 1) : stack'[th][i] = stack[th][i]
         /\ \A u \in Thread \ {th} : stack'[u] = stack[u]
<1>1. stack \in [Thread -> Seq(Frame)] /\ stack[th] \in Seq(Frame)
  BY DEF TypeOK
<1>2. stack' = [stack EXCEPT ![th] = SubSeq(stack[th], 1, Len(stack[th]) - 1)]
  BY DEF Pop
<1> QED BY <1>1, <1>2, Front

LEMMA ReplaceLemma ==
  ASSUME TypeOK, NEW th \in Thread, NEW f \in Frame, stack[th] # <<>>, stack' = Replace(th, f)
  PROVE  /\ stack' \in [Thread -> Seq(Frame)]
         /\ Len(stack[th]) \in Nat \ {0} /\ Len(stack'[th]) = Len(stack[th])
         /\ stack'[th][Len(stack[th])] = f
         /\ \A i \in 1..(Len(stack[th]) - 1) : stack'[th][i] = stack[th][i]
         /\ \A u \in Thread \ {th} : stack'[u] = stack[u]
<1>1. stack \in [Thread -> Seq(Frame)] /\ stack[th] \in Seq(Frame)
  BY DEF TypeOK
<1>2. ASSUME NEW s \in Seq(Frame), s # <<>>
      PROVE  LET r == Append(SubSeq(s, 1, Len(s) - 1), f) IN
             /\ Len(s) \in Nat \ {0}
             /\ r \in Seq(Frame) /\ Len(r) = Len(s) /\ r[Len(s)] = f
             /\ \A i \in 1..(Len(s) - 1) : r[i] = s[i]
  <2> DEFINE b == SubSeq(s, 1, Len(s) - 1)
  <2>1. /\ Len(s) \in Nat \ {0} /\ b \in Seq(Frame) /\ Len(b) = Len(s) - 1
        /\ \A i \in 1..(Len(s) - 1) : b[i] = s[i]
    BY <1>2, Front
  <2> HIDE DEF b
  <2>2. /\ Append(b, f) \in Seq(Frame) /\ Len(Append(b, f)) = Len(s) /\ Append(b, f)[Len(s)] = f
        /\ \A i \in 1..(Len(s) - 1) : Append(b, f)[i] = s[i]
    BY <2>1
  <2> QED BY <2>1, <2>2 DEF b
<1>3. stack' = [stack EXCEPT ![th] = Append(SubSeq(stack[th], 1, Len(stack[th]) - 1), f)]
  BY DEF Replace
<1> QED BY <1>1, <1>2, <1>3

LEMMA CallLemma ==
  ASSUME TypeOK, NEW th \in Thread, NEW f \in Frame, stack' = CallInline(th, f)
  PROVE  /\ stack' \in [Thread -> Seq(Frame)]
         /\ Len(stack[th]) \in Nat /\ Len(stack'[th]) = Len(stack[th]) + 1
         /\ stack'[th][Len(stack[th]) + 1] = f
         /\ \A i \in 1..Len(stack[th]) : stack'[th][i] = stack[th][i]
         /\ \A u \in Thread \ {th} : stack'[u] = stack[u]
<1>1. stack \in [Thread -> Seq(Frame)] /\ stack[th] \in Seq(Frame)
  BY DEF TypeOK
<1>2. \A s \in Seq(Frame) :
        /\ Len(s) \in Nat
        /\ Append(s, f) \in Seq(Frame) /\ Len(Append(s, f)) = Len(s) + 1
        /\ Append(s, f)[Len(s) + 1] = f
        /\ \A i \in 1..Len(s) : Append(s, f)[i] = s[i]
  OBVIOUS
<1>3. stack' = [stack EXCEPT ![th] = Append(stack[th], f)]
  BY DEF CallInline
<1> QED BY <1>1, <1>2, <1>3

\* The innermost frame of a thread runs.
LEMMA TopRuns ==
  ASSUME TypeOK, Placed, NEW th \in Thread, NEW f \in Frame, Executes(th, f)
  PROVE  /\ stack[th] # <<>> /\ Len(stack[th]) \in Nat \ {0} /\ stack[th][Len(stack[th])] = f
         /\ st[f] = "running"
<1>1. stack[th] \in Seq(Frame) /\ stack[th] # <<>> /\ stack[th][Len(stack[th])] = f
  BY DEF TypeOK, Executes
<1>2. Len(stack[th]) \in Nat \ {0}
  BY <1>1
<1>3. Len(stack[th]) \in 1..Len(stack[th])
  BY <1>2
<1>4. st[stack[th][Len(stack[th])]] = "running"
  BY <1>3 DEF Placed, OnlyRunning
<1> QED BY <1>1, <1>2, <1>4

\* f, the innermost frame of th, stops running and leaves the stack.
LEMMA PlacedPop ==
  ASSUME TypeOK, Placed, NEW th \in Thread, NEW f \in Frame, Executes(th, f),
         stack' = Pop(th), queue' = queue,
         \A h \in Frame : st'[h] = "running" <=> st[h] = "running" /\ h # f
  PROVE  Placed'
<1>1. /\ stack' \in [Thread -> Seq(Frame)]
      /\ Len(stack[th]) \in Nat \ {0} /\ Len(stack'[th]) = Len(stack[th]) - 1
      /\ \A i \in 1..(Len(stack[th]) - 1) : stack'[th][i] = stack[th][i]
      /\ \A u \in Thread \ {th} : stack'[u] = stack[u]
      /\ stack[th][Len(stack[th])] = f
  BY PopLemma, TopRuns
<1>2. /\ \A u \in Thread : Len(stack[u]) \in Nat /\ Len(stack'[u]) \in Nat
      /\ \A u \in Thread : \A i \in 1..Len(stack[u]) : stack[u][i] \in Frame
      /\ Len(queue) \in Nat /\ \A i \in 1..Len(queue) : queue[i] \in Frame
  BY <1>1 DEF TypeOK
\* What is left are the other entries.
<1>3. \A u \in Thread : \A i \in 1..Len(stack'[u]) :
        i \in 1..Len(stack[u]) /\ stack'[u][i] = stack[u][i] /\ ~ (u = th /\ i = Len(stack[th]))
  BY <1>1, <1>2
<1>4. \A u \in Thread : \A i \in 1..Len(stack[u]) : ~ (u = th /\ i = Len(stack[th])) =>
        i \in 1..Len(stack'[u]) /\ stack'[u][i] = stack[u][i]
  BY <1>1, <1>2
<1>5. Len(stack[th]) \in 1..Len(stack[th])
  BY <1>1
<1>6. \A u \in Thread : \A i \in 1..Len(stack'[u]) : stack'[u][i] # f
  BY <1>1, <1>3, <1>5 DEF Placed, OncePlaced
<1>7. \A i \in 1..Len(queue) : queue[i] # f
  BY <1>1, <1>5 DEF Placed, OncePlaced
<1>8. OnlyRunning'
  BY <1>2, <1>3, <1>6, <1>7 DEF Placed, OnlyRunning
<1>9. OncePlaced'
  BY <1>3 DEF Placed, OncePlaced
<1>10. Somewhere'
  <2> SUFFICES ASSUME NEW h \in Frame, st[h] = "running", h # f
               PROVE  \/ \E u \in Thread : \E i \in 1..Len(stack'[u]) : stack'[u][i] = h
                      \/ \E i \in 1..Len(queue) : queue[i] = h
    BY DEF Somewhere
  <2>1. CASE \E i \in 1..Len(queue) : queue[i] = h
    BY <2>1
  <2>2. ASSUME NEW u \in Thread, NEW i \in 1..Len(stack[u]), stack[u][i] = h
        PROVE  \E j \in 1..Len(stack'[u]) : stack'[u][j] = h
    BY <1>1, <1>4, <2>2
  <2> QED BY <2>1, <2>2 DEF Placed, Somewhere
<1> QED BY <1>8, <1>9, <1>10 DEF Placed

\* f, the innermost frame of th, hands its place over to g.
LEMMA PlacedReplace ==
  ASSUME TypeOK, Placed, NEW th \in Thread, NEW f \in Frame, NEW g \in Frame, Executes(th, f),
         stack' = Replace(th, g), queue' = queue, st[g] # "running",
         \A h \in Frame : st'[h] = "running" <=> h = g \/ (st[h] = "running" /\ h # f)
  PROVE  Placed'
<1>1. /\ stack' \in [Thread -> Seq(Frame)]
      /\ Len(stack[th]) \in Nat \ {0} /\ Len(stack'[th]) = Len(stack[th])
      /\ stack'[th][Len(stack[th])] = g
      /\ \A i \in 1..(Len(stack[th]) - 1) : stack'[th][i] = stack[th][i]
      /\ \A u \in Thread \ {th} : stack'[u] = stack[u]
      /\ stack[th][Len(stack[th])] = f
  <2>1. stack[th] # <<>> /\ stack[th][Len(stack[th])] = f
    BY TopRuns
  <2> QED BY <2>1, ReplaceLemma
<1>2. /\ \A u \in Thread : Len(stack[u]) \in Nat /\ Len(stack'[u]) = Len(stack[u])
      /\ \A u \in Thread : \A i \in 1..Len(stack[u]) : stack[u][i] \in Frame
      /\ Len(queue) \in Nat /\ \A i \in 1..Len(queue) : queue[i] \in Frame
  <2>1. /\ \A u \in Thread : Len(stack[u]) \in Nat
        /\ \A u \in Thread : \A i \in 1..Len(stack[u]) : stack[u][i] \in Frame
        /\ Len(queue) \in Nat /\ \A i \in 1..Len(queue) : queue[i] \in Frame
    BY DEF TypeOK
  <2> QED BY <1>1, <2>1
<1>3. \A u \in Thread : \A i \in 1..Len(stack[u]) :
        stack'[u][i] = IF u = th /\ i = Len(stack[th]) THEN g ELSE stack[u][i]
  BY <1>1, <1>2
<1>5. Len(stack[th]) \in 1..Len(stack[th])
  BY <1>1
<1>6. \A u \in Thread : \A i \in 1..Len(stack[u]) :
         /\ stack[u][i] # g
         /\ stack[u][i] = f => u = th /\ i = Len(stack[th])
  BY <1>1, <1>5 DEF Placed, OncePlaced, OnlyRunning
<1>7. \A i \in 1..Len(queue) : queue[i] # f /\ queue[i] # g
  BY <1>1, <1>5 DEF Placed, OncePlaced, OnlyRunning
<1>8. OnlyRunning'
  BY <1>2, <1>3, <1>6, <1>7 DEF Placed, OnlyRunning
<1>9. OncePlaced'
  <2>1. ASSUME NEW u \in Thread, NEW v \in Thread, NEW i \in 1..Len(stack[u]), NEW j \in 1..Len(stack[v]),
               stack'[u][i] = stack'[v][j]
        PROVE  u = v /\ i = j
    BY <1>3, <1>6, <2>1 DEF Placed, OncePlaced
  <2>2. ASSUME NEW u \in Thread, NEW i \in 1..Len(stack[u]), NEW j \in 1..Len(queue)
        PROVE  stack'[u][i] # queue[j]
    BY <1>3, <1>7 DEF Placed, OncePlaced
  <2> QED BY <1>2, <2>1, <2>2 DEF Placed, OncePlaced
<1>10. Somewhere'
  <2> SUFFICES ASSUME NEW h \in Frame, h = g \/ (st[h] = "running" /\ h # f)
               PROVE  \/ \E u \in Thread : \E i \in 1..Len(stack[u]) : stack'[u][i] = h
                      \/ \E i \in 1..Len(queue) : queue[i] = h
    BY <1>2 DEF Somewhere
  <2>1. CASE h = g
    BY <1>1, <1>5, <2>1
  <2>2. CASE \E i \in 1..Len(queue) : queue[i] = h
    BY <2>2
  <2>3. ASSUME h # g, NEW u \in Thread, NEW i \in 1..Len(stack[u]), stack[u][i] = h
        PROVE  stack'[u][i] = h
    BY <1>1, <1>3, <2>3
  <2> QED BY <2>1, <2>2, <2>3 DEF Placed, Somewhere
<1> QED BY <1>8, <1>9, <1>10 DEF Placed

\* g begins to run, called by th.
LEMMA PlacedCall ==
  ASSUME TypeOK, Placed, NEW th \in Thread, NEW g \in Frame,
         stack' = CallInline(th, g), queue' = queue, st[g] # "running",
         \A h \in Frame : st'[h] = "running" <=> h = g \/ st[h] = "running"
  PROVE  Placed'
<1>1. /\ stack' \in [Thread -> Seq(Frame)]
      /\ Len(stack[th]) \in Nat /\ Len(stack'[th]) = Len(stack[th]) + 1
      /\ stack'[th][Len(stack[th]) + 1] = g
      /\ \A i \in 1..Len(stack[th]) : stack'[th][i] = stack[th][i]
      /\ \A u \in Thread \ {th} : stack'[u] = stack[u]
  BY CallLemma
<1>2. /\ \A u \in Thread : Len(stack[u]) \in Nat /\ Len(stack'[u]) \in Nat
      /\ \A u \in Thread : \A i \in 1..Len(stack[u]) : stack[u][i] \in Frame
      /\ Len(queue) \in Nat /\ \A i \in 1..Len(queue) : queue[i] \in Frame
  BY <1>1 DEF TypeOK
<1>3. \A u \in Thread : \A i \in 1..Len(stack'[u]) :
        \/ u = th /\ i = Len(stack[th]) + 1 /\ stack'[u][i] = g
        \/ i \in 1..Len(stack[u]) /\ stack'[u][i] = stack[u][i]
  BY <1>1, <1>2
<1>4. \A u \in Thread : \A i \in 1..Len(stack[u]) : i \in 1..Len(stack'[u]) /\ stack'[u][i] = stack[u][i]
  BY <1>1, <1>2
<1>5. Len(stack[th]) + 1 \in 1..Len(stack'[th])
  BY <1>1
<1>6. /\ \A u \in Thread : \A i \in 1..Len(stack[u]) : stack[u][i] # g
      /\ \A i \in 1..Len(queue) : queue[i] # g
  BY DEF Placed, OnlyRunning
<1>7. OnlyRunning'
  <2>1. ASSUME NEW u \in Thread, NEW i \in 1..Len(stack'[u])
        PROVE  st'[stack'[u][i]] = "running"
    <3>1. CASE stack'[u][i] = g
      BY <3>1
    <3>2. CASE i \in 1..Len(stack[u]) /\ stack'[u][i] = stack[u][i]
      <4>1. stack[u][i] \in Frame /\ st[stack[u][i]] = "running"
        BY <1>2, <3>2 DEF Placed, OnlyRunning
      <4> QED BY <3>2, <4>1
    <3> QED BY <1>3, <3>1, <3>2
  <2>2. ASSUME NEW i \in 1..Len(queue)
        PROVE  st'[queue[i]] = "running"
    BY <1>2 DEF Placed, OnlyRunning
  <2> QED BY <2>1, <2>2 DEF OnlyRunning
<1>8. OncePlaced'
  <2>1. ASSUME NEW u \in Thread, NEW v \in Thread, NEW i \in 1..Len(stack'[u]), NEW j \in 1..Len(stack'[v]),
               stack'[u][i] = stack'[v][j]
        PROVE  u = v /\ i = j
    <3>1. CASE /\ i \in 1..Len(stack[u]) /\ stack'[u][i] = stack[u][i]
               /\ j \in 1..Len(stack[v]) /\ stack'[v][j] = stack[v][j]
      <4>1. \A a, b \in Thread : \A k \in 1..Len(stack[a]), l \in 1..Len(stack[b]) :
              stack[a][k] = stack[b][l] => a = b /\ k = l
        BY DEF Placed, OncePlaced
      <4>2. stack[u][i] = stack[v][j]
        BY <2>1, <3>1, Zenon
      <4>3. \A k \in 1..Len(stack[u]), l \in 1..Len(stack[v]) :
              stack[u][k] = stack[v][l] => u = v /\ k = l
        BY <4>1, Zenon
      <4>4. i \in 1..Len(stack[u]) /\ j \in 1..Len(stack[v])
        BY <3>1
      <4> QED BY <4>2, <4>3, <4>4
    <3>2. CASE /\ u = th /\ i = Len(stack[th]) + 1 /\ stack'[u][i] = g
               /\ v = th /\ j = Len(stack[th]) + 1 /\ stack'[v][j] = g
      BY <3>2
    <3>3. CASE /\ stack'[u][i] = g
               /\ j \in 1..Len(stack[v]) /\ stack'[v][j] = stack[v][j]
      BY <1>6, <2>1, <3>3
    <3>4. CASE /\ stack'[v][j] = g
               /\ i \in 1..Len(stack[u]) /\ stack'[u][i] = stack[u][i]
      BY <1>6, <2>1, <3>4
    <3> QED BY <1>3, <3>1, <3>2, <3>3, <3>4
  <2>2. ASSUME NEW u \in Thread, NEW i \in 1..Len(stack'[u]), NEW j \in 1..Len(queue)
        PROVE  stack'[u][i] # queue[j]
    BY <1>3, <1>6 DEF Placed, OncePlaced
  <2> QED BY <2>1, <2>2 DEF Placed, OncePlaced
<1>9. Somewhere'
  <2> SUFFICES ASSUME NEW h \in Frame, h = g \/ st[h] = "running"
               PROVE  \/ \E u \in Thread : \E i \in 1..Len(stack'[u]) : stack'[u][i] = h
                      \/ \E i \in 1..Len(queue) : queue[i] = h
    BY DEF Somewhere
  <2>1. CASE h = g
    BY <1>1, <1>5, <2>1
  <2>2. CASE \E i \in 1..Len(queue) : queue[i] = h
    BY <2>2
  <2>3. ASSUME NEW u \in Thread, NEW i \in 1..Len(stack[u]), stack[u][i] = h
        PROVE  i \in 1..Len(stack'[u]) /\ stack'[u][i] = h
    BY <1>4, <2>3
  <2> QED BY <2>1, <2>2, <2>3 DEF Placed, Somewhere
<1> QED BY <1>7, <1>8, <1>9 DEF Placed

\* g becomes runnable and is queued for a worker.
LEMMA PlacedQueue ==
  ASSUME TypeOK, Placed, NEW g \in Frame,
         queue' = Append(queue, g), stack' = stack, st[g] # "running",
         \A h \in Frame : st'[h] = "running" <=> h = g \/ st[h] = "running"
  PROVE  Placed' /\ queue' \in Seq(Frame)
<1>1. /\ queue' \in Seq(Frame) /\ Len(queue) \in Nat /\ Len(queue') = Len(queue) + 1
      /\ queue'[Len(queue) + 1] = g
      /\ \A i \in 1..Len(queue) : queue'[i] = queue[i] /\ queue[i] \in Frame
  BY DEF TypeOK
<1>2. \A u \in Thread : \A i \in 1..Len(stack[u]) : stack[u][i] \in Frame
  BY DEF TypeOK
<1>3. \A i \in 1..Len(queue') :
        \/ i = Len(queue) + 1 /\ queue'[i] = g
        \/ i \in 1..Len(queue) /\ queue'[i] = queue[i]
  BY <1>1
<1>4. Len(queue) + 1 \in 1..Len(queue') /\ 1..Len(queue) \subseteq 1..Len(queue')
  BY <1>1
<1>6. /\ \A u \in Thread : \A i \in 1..Len(stack[u]) : stack[u][i] # g
      /\ \A i \in 1..Len(queue) : queue[i] # g
  BY DEF Placed, OnlyRunning
<1>7. OnlyRunning'
  BY <1>1, <1>2, <1>3 DEF Placed, OnlyRunning
<1>8. OncePlaced'
  BY <1>3, <1>6 DEF Placed, OncePlaced
<1>9. Somewhere'
  <2> SUFFICES ASSUME NEW h \in Frame, h = g \/ st[h] = "running"
               PROVE  \/ \E u \in Thread : \E i \in 1..Len(stack[u]) : stack[u][i] = h
                      \/ \E i \in 1..Len(queue') : queue'[i] = h
    BY DEF Somewhere
  <2>1. CASE h = g
    BY <1>1, <1>4, <2>1
  <2>2. ASSUME NEW i \in 1..Len(queue), queue[i] = h
        PROVE  i \in 1..Len(queue') /\ queue'[i] = h
    BY <1>1, <1>4, <2>2
  <2> QED BY <2>1, <2>2 DEF Placed, Somewhere
<1> QED BY <1>1, <1>7, <1>8, <1>9 DEF Placed

\* An idle worker takes the oldest queued frame.
LEMMA PlacedTake ==
  ASSUME TypeOK, Placed, NEW w \in Thread, stack[w] = <<>>, queue # <<>>,
         stack' = [stack EXCEPT ![w] = <<Head(queue)>>], queue' = Tail(queue), st' = st
  PROVE  Placed' /\ queue' \in Seq(Frame) /\ stack' \in [Thread -> Seq(Frame)]
<1>0. Len(stack[w]) = 0 /\ stack \in [Thread -> Seq(Frame)] /\ queue \in Seq(Frame)
  BY DEF TypeOK
<1>1. /\ queue' \in Seq(Frame) /\ Len(queue) \in Nat \ {0} /\ Len(queue') = Len(queue) - 1
      /\ \A i \in 1..Len(queue') : queue'[i] = queue[i + 1]
      /\ Head(queue) = queue[1] /\ queue[1] \in Frame
  BY <1>0, HeadTailProperties
<1>2. /\ stack' \in [Thread -> Seq(Frame)]
      /\ Len(stack'[w]) = 1 /\ stack'[w][1] = queue[1]
      /\ \A u \in Thread \ {w} : stack'[u] = stack[u]
  <2>1. <<queue[1]>> \in Seq(Frame) /\ Len(<<queue[1]>>) = 1 /\ <<queue[1]>>[1] = queue[1]
    BY <1>1
  <2>2. stack' = [stack EXCEPT ![w] = <<queue[1]>>]
    BY <1>1
  <2> QED BY <1>0, <2>1, <2>2
<1>3. \A u \in Thread : Len(stack[u]) \in Nat /\ Len(stack'[u]) \in Nat
  BY <1>0, <1>2
<1>4. \A u \in Thread : \A i \in 1..Len(stack'[u]) :
        \/ u = w /\ i = 1 /\ stack'[u][i] = queue[1]
        \/ u # w /\ i \in 1..Len(stack[u]) /\ stack'[u][i] = stack[u][i]
  BY <1>2, <1>3
<1>5. \A i \in 1..Len(queue') : i + 1 \in 1..Len(queue) /\ i + 1 # 1 /\ queue'[i] = queue[i + 1]
  BY <1>1
<1>6. 1 \in 1..Len(queue) /\ 1 \in 1..Len(stack'[w])
  BY <1>1, <1>2
<1>7. OnlyRunning'
  BY <1>4, <1>5, <1>6 DEF Placed, OnlyRunning
<1>8. OncePlaced'
  <2>1. ASSUME NEW u \in Thread, NEW v \in Thread, NEW i \in 1..Len(stack'[u]), NEW j \in 1..Len(stack'[v]),
               stack'[u][i] = stack'[v][j]
        PROVE  u = v /\ i = j
    BY <1>4, <1>6, <2>1 DEF Placed, OncePlaced
  <2>2. ASSUME NEW i \in 1..Len(queue'), NEW j \in 1..Len(queue'), queue'[i] = queue'[j]
        PROVE  i = j
    <3>1. i + 1 = j + 1
      BY <1>5, <2>2 DEF Placed, OncePlaced
    <3> QED BY <1>1, <3>1
  <2>3. ASSUME NEW u \in Thread, NEW i \in 1..Len(stack'[u]), NEW j \in 1..Len(queue')
        PROVE  stack'[u][i] # queue'[j]
    BY <1>4, <1>5, <1>6 DEF Placed, OncePlaced
  <2> QED BY <2>1, <2>2, <2>3 DEF OncePlaced
<1>9. Somewhere'
  <2> SUFFICES ASSUME NEW h \in Frame, st[h] = "running"
               PROVE  \/ \E u \in Thread : \E i \in 1..Len(stack'[u]) : stack'[u][i] = h
                      \/ \E i \in 1..Len(queue') : queue'[i] = h
    BY DEF Somewhere
  <2>1. ASSUME NEW u \in Thread, NEW i \in 1..Len(stack[u]), stack[u][i] = h
        PROVE  i \in 1..Len(stack'[u]) /\ stack'[u][i] = h
    <3>1. u # w
      BY <1>0, <1>3
    <3> QED BY <1>2, <2>1, <3>1
  <2>2. ASSUME NEW i \in 1..Len(queue), queue[i] = h, i # 1
        PROVE  i - 1 \in 1..Len(queue') /\ queue'[i - 1] = h
    <3>1. i - 1 \in 1..Len(queue') /\ (i - 1) + 1 = i
      BY <1>1, <2>2
    <3> QED BY <1>1, <2>2, <3>1
  <2>3. CASE queue[1] = h
    BY <1>2, <1>6, <2>3
  <2>4. CASE \E i \in 1..Len(queue) : queue[i] = h
    BY <2>2, <2>3, <2>4
  <2>5. CASE \E u \in Thread : \E i \in 1..Len(stack[u]) : stack[u][i] = h
    BY <2>1, <2>5
  <2> QED BY <2>4, <2>5 DEF Placed, Somewhere
<1> QED BY <1>1, <1>2, <1>7, <1>8, <1>9 DEF Placed

\* Nobody begins or stops running.
LEMMA PlacedStay ==
  ASSUME TypeOK, Placed, stack' = stack, queue' = queue,
         \A h \in Frame : st'[h] = "running" <=> st[h] = "running"
  PROVE  Placed'
<1>1. /\ \A u \in Thread : \A i \in 1..Len(stack[u]) : stack[u][i] \in Frame
      /\ \A i \in 1..Len(queue) : queue[i] \in Frame
  BY DEF TypeOK
<1>2. OnlyRunning'
  <2>1. ASSUME NEW u \in Thread, NEW i \in 1..Len(stack[u]) PROVE st'[stack[u][i]] = "running"
    BY <1>1 DEF Placed, OnlyRunning
  <2>2. ASSUME NEW i \in 1..Len(queue) PROVE st'[queue[i]] = "running"
    BY <1>1 DEF Placed, OnlyRunning
  <2> QED BY <2>1, <2>2 DEF OnlyRunning
<1>3. OncePlaced'
  BY DEF Placed, OncePlaced
<1>4. Somewhere'
  BY DEF Placed, Somewhere
<1> QED BY <1>2, <1>3, <1>4 DEF Placed

-----------------------------------------------------------------------------
(* Reference counts.                                                       *)

LEMMA HoldersFinite ==
  \A c \in Frame : IsFiniteSet(Holders(c)) /\ Cardinality(Holders(c)) \in Nat
<1> SUFFICES ASSUME NEW c \in Frame
             PROVE  IsFiniteSet(Holders(c)) /\ Cardinality(Holders(c)) \in Nat
  OBVIOUS
<1>1. IsFiniteSet(Frame)
  BY FS_Interval, FramesAssumption DEF Frame
<1>2. IsFiniteSet(Holders(c))
  BY <1>1, FS_Subset DEF Holders
<1> QED BY <1>2, FS_CardinalityType

\* Frame g joins the holders of c, the first or one more.
LEMMA CountJoin ==
  ASSUME Counted, rc \in [Frame -> Nat], NEW c \in Frame, NEW g \in Frame, g \notin Holders(c),
         \A e \in Frame : Holders(e)' = IF e = c THEN Holders(e) \cup {g} ELSE Holders(e),
         rc' = Copy(c, rc) \/ (rc' = NewContext(c, rc) /\ Holders(c) = {})
  PROVE  Counted' /\ rc' \in [Frame -> Nat]
<1>1. rc[c] = Cardinality(Holders(c)) /\ Cardinality(Holders(c)) \in Nat
  BY HoldersFinite DEF Counted
<1>2. Cardinality(Holders(c) \cup {g}) = Cardinality(Holders(c)) + 1
  BY HoldersFinite, FS_AddElement
<1>3. Holders(c) = {} => rc[c] = 0
  BY <1>1, FS_EmptySet
<1>4. rc' = [rc EXCEPT ![c] = Cardinality(Holders(c) \cup {g})]
  BY <1>1, <1>2, <1>3 DEF Copy, NewContext
<1>5. rc' \in [Frame -> Nat]
  BY <1>1, <1>2, <1>4
<1>6. \A e \in Frame : rc'[e] = Cardinality(Holders(e)')
  BY <1>4 DEF Counted
<1> QED BY <1>5, <1>6 DEF Counted

\* Frame g leaves them.
LEMMA CountLeave ==
  ASSUME Counted, rc \in [Frame -> Nat], NEW c \in Frame, NEW g \in Holders(c),
         \A e \in Frame : Holders(e)' = IF e = c THEN Holders(e) \ {g} ELSE Holders(e),
         rc' = Drop(c, rc)
  PROVE  Counted' /\ rc' \in [Frame -> Nat]
<1>1. rc[c] = Cardinality(Holders(c)) /\ IsFiniteSet(Holders(c))
  BY HoldersFinite DEF Counted
<1>2. IsFiniteSet(Holders(c) \ {g}) /\ Cardinality(Holders(c) \ {g}) = Cardinality(Holders(c)) - 1
  BY <1>1, FS_RemoveElement
<1>3. Cardinality(Holders(c) \ {g}) \in Nat
  BY <1>2, FS_CardinalityType
<1>4. rc' = [rc EXCEPT ![c] = Cardinality(Holders(c) \ {g})]
  BY <1>1, <1>2 DEF Drop
<1>5. rc' \in [Frame -> Nat]
  BY <1>3, <1>4
<1>6. \A e \in Frame : rc'[e] = Cardinality(Holders(e)')
  BY <1>4 DEF Counted
<1> QED BY <1>5, <1>6 DEF Counted

LEMMA CountStay ==
  ASSUME Counted, rc' = rc, \A e \in Frame : Holders(e)' = Holders(e)
  PROVE  Counted'
BY DEF Counted

-----------------------------------------------------------------------------
(* Chains.                                                                 *)

LEMMA InitIInv == Init => IInv
<1> SUFFICES ASSUME Init PROVE IInv
  OBVIOUS
<1> USE FramesAssumption
<1>1. TypeOK
  <2>1. <<>> \in Seq(Frame)
    OBVIOUS
  <2>2. stack \in [Thread -> Seq(Frame)] /\ queue \in Seq(Frame)
    BY <2>1 DEF Init
  <2>3. /\ next \in [Frame -> Frame \cup {Nobody, Shell}] /\ ctx \in [Frame -> Frame \cup {NoCtx}]
        /\ rc \in [Frame -> Nat] /\ kind \in [Frame -> {"task", "detach"}]
    BY DEF Init
  <2>4. st \in [Frame -> {"none", "initial", "running", "io", "child", "final", "gone"}]
    BY DEF Init
  <2>5. pooled \in BOOLEAN /\ stopped \in BOOLEAN
    BY DEF Init
  <2>6. suspends \in 0..MaxSuspend /\ notifying \subseteq Thread
    BY DEF Init
  <2> QED BY <2>2, <2>3, <2>4, <2>5, <2>6 DEF Init, TypeOK
<1>2. Placed
  BY DEF Init, Placed, OnlyRunning, OncePlaced, Somewhere
<1>3. Chains
  BY DEF Init, Chains, Links, Paths, Blank, InOrder, Back, Owned, OwnedOnce, InContext, Awaited,
         AwaitedOnce, Awaits, Leaf, Driven, Started, StartedTask, Frame, Nobody, Shell
<1>4. Counted
  <2>1. \A c \in Frame : Holders(c) = {}
    BY DEF Init, Holders, Live
  <2> QED BY <2>1, FS_EmptySet DEF Init, Counted
<1> QED BY <1>1, <1>2, <1>3, <1>4 DEF IInv

\* The frame at the end of its chain suspends, finishes or goes on; a Detach
\* frame can only go on.
LEMMA LeafMoves ==
  ASSUME TypeOK, Chains, Counted, NEW f \in Frame, NEW s \in {"running", "io", "final"},
         Started(f), st[f] # "child", kind[f] = "task" \/ s = "running",
         st' = [st EXCEPT ![f] = s], UNCHANGED <<kind, next, ctx, rc>>
  PROVE  Links' /\ Paths' /\ Counted'
<1>1. \A h \in Frame : st'[h] = IF h = f THEN s ELSE st[h]
  BY DEF TypeOK
<1>2. \A h \in Frame : /\ Started(h)' <=> Started(h)
                       /\ StartedTask(h)' <=> StartedTask(h)
                       /\ st'[h] = "child" <=> st[h] = "child"
                       /\ st'[h] = "initial" <=> st[h] = "initial"
                       /\ st'[h] = "none" <=> st[h] = "none"
                       /\ Live(h)' <=> Live(h)
  BY <1>1 DEF Started, StartedTask, Live
<1>3. Links'
  <2>1. Blank' /\ InOrder' /\ Back' /\ OwnedOnce'
    BY <1>2 DEF Chains, Links, Blank, InOrder, Back, OwnedOnce
  <2>2. Owned'
    BY <1>1, <1>2 DEF Chains, Links, Owned
  <2> QED BY <2>1, <2>2 DEF Links
<1>4. Paths'
  BY <1>2 DEF Chains, Paths, InContext, Awaited, AwaitedOnce, Awaits, Leaf
<1>5. Counted'
  <2>1. \A e \in Frame : Holders(e)' = Holders(e)
    BY <1>2 DEF Holders
  <2> QED BY <2>1, CountStay
<1> QED BY <1>3, <1>4, <1>5

\* The only frame left of a chain is destroyed: a Detach frame that is done,
\* or the task that block() has driven.
LEMMA RootDies ==
  ASSUME TypeOK, Chains, Counted, NEW f \in Frame, Started(f), st[f] # "child",
         kind[f] = "task" => next[f] = Shell,
         \A g \in Frame : next[g] = f => st[g] # "initial",
         st' = [st EXCEPT ![f] = "gone"], rc' = Drop(ctx[f], rc), UNCHANGED <<kind, next, ctx>>
  PROVE  Links' /\ Paths' /\ Counted' /\ rc' \in [Frame -> Nat]
<1>1. \A h \in Frame : st'[h] = IF h = f THEN "gone" ELSE st[h]
  BY DEF TypeOK
<1>2. \A h \in Frame : /\ Started(h)' <=> Started(h) /\ h # f
                       /\ StartedTask(h)' <=> StartedTask(h) /\ h # f
                       /\ st'[h] = "child" <=> st[h] = "child"
                       /\ st'[h] = "initial" <=> st[h] = "initial"
                       /\ st'[h] = "none" <=> st[h] = "none"
                       /\ Live(h)' <=> Live(h) /\ h # f
  BY <1>1 DEF Started, StartedTask, Live
<1>3. Links'
  <2>1. Blank' /\ InOrder' /\ Back' /\ OwnedOnce'
    BY <1>2 DEF Chains, Links, Blank, InOrder, Back, OwnedOnce
  <2>2. Owned'
    BY <1>1, <1>2 DEF Chains, Links, Owned
  <2> QED BY <2>1, <2>2 DEF Links
<1>4. Paths'
  <2>1. InContext' /\ Awaited' /\ AwaitedOnce' /\ Leaf'
    BY <1>2 DEF Chains, Paths, InContext, Awaited, AwaitedOnce, Leaf
  <2>2. Awaits'
    BY <1>2 DEF Chains, Paths, Awaits, StartedTask, Frame, Shell
  <2> QED BY <2>1, <2>2 DEF Paths
<1>5. Counted' /\ rc' \in [Frame -> Nat]
  <2>1. ctx[f] \in Frame /\ Live(f)
    BY DEF Chains, Paths, InContext, Started, Live
  <2>2. \A e \in Frame : Holders(e)' = IF e = ctx[f] THEN Holders(e) \ {f} ELSE Holders(e)
    BY <1>2 DEF Holders
  <2>3. f \in Holders(ctx[f]) /\ rc \in [Frame -> Nat]
    BY <2>1 DEF Holders, TypeOK
  <2> QED BY <2>1, <2>2, <2>3, CountLeave
<1> QED BY <1>3, <1>4, <1>5

\* A task is done: its frame is destroyed by the one that awaited it, which
\* runs on.
LEMMA TaskReturns ==
  ASSUME TypeOK, Chains, Counted, NEW f \in Frame, NEW p \in Frame, StartedTask(f), st[f] = "running",
         next[f] = p, st' = [st EXCEPT ![f] = "gone", ![p] = "running"],
         rc' = Drop(ctx[f], rc), UNCHANGED <<kind, next, ctx>>
  PROVE  /\ Links' /\ Paths' /\ Counted' /\ rc' \in [Frame -> Nat]
         /\ st[p] = "child" /\ f # p
<1>1. st[p] = "child" /\ ctx[p] = ctx[f] /\ f # p
  BY DEF Chains, Paths, Awaited, Frame, Shell
<1>2. /\ st'[p] = "running" /\ st'[f] = "gone"
      /\ \A h \in Frame \ {f, p} : st'[h] = st[h]
  BY <1>1 DEF TypeOK
<1>3. \A h \in Frame : /\ Started(h)' <=> Started(h) /\ h # f
                       /\ StartedTask(h)' <=> StartedTask(h) /\ h # f
                       /\ st'[h] = "child" <=> st[h] = "child" /\ h # p
                       /\ st'[h] = "initial" <=> st[h] = "initial"
                       /\ st'[h] = "none" <=> st[h] = "none"
                       /\ Live(h)' <=> Live(h) /\ h # f
  <2> SUFFICES ASSUME NEW h \in Frame
               PROVE  /\ Started(h)' <=> Started(h) /\ h # f
                      /\ StartedTask(h)' <=> StartedTask(h) /\ h # f
                      /\ st'[h] = "child" <=> st[h] = "child" /\ h # p
                      /\ st'[h] = "initial" <=> st[h] = "initial"
                      /\ st'[h] = "none" <=> st[h] = "none"
                      /\ Live(h)' <=> Live(h) /\ h # f
    OBVIOUS
  <2>1. CASE h = f
    BY <1>1, <1>2, <2>1 DEF Started, StartedTask, Live
  <2>2. CASE h = p
    BY <1>1, <1>2, <2>2 DEF Started, StartedTask, Live
  <2>3. CASE h \notin {f, p}
    BY <1>2, <2>3 DEF Started, StartedTask, Live
  <2> QED BY <2>1, <2>2, <2>3
<1>4. Links'
  <2>1. Blank' /\ InOrder' /\ Back' /\ OwnedOnce'
    BY <1>3 DEF Chains, Links, Blank, InOrder, Back, OwnedOnce
  <2>2. Owned'
    <3>1. ASSUME NEW h \in Frame, st'[h] = "initial"
          PROVE  /\ kind[h] = "task" /\ ctx[h] = NoCtx
                 /\ next[h] \in Frame /\ kind[next[h]] = "detach" /\ st'[next[h]] = "running"
      <4>1. st[h] = "initial"
        BY <1>3, <3>1
      <4>2. /\ kind[h] = "task" /\ ctx[h] = NoCtx
            /\ next[h] \in Frame /\ kind[next[h]] = "detach" /\ st[next[h]] = "running"
        BY <4>1 DEF Chains, Links, Owned
      <4>3. next[h] # f
        BY <4>2 DEF StartedTask
      <4> QED BY <1>2, <4>2, <4>3
    <3> QED BY <3>1 DEF Owned
  <2> QED BY <2>1, <2>2 DEF Links
<1>5. Paths'
  <2>1. InContext' /\ AwaitedOnce'
    BY <1>3 DEF Chains, Paths, InContext, AwaitedOnce
  <2>2. Awaited'
    BY <1>1, <1>3 DEF Chains, Paths, Awaited, AwaitedOnce
  <2>3. Awaits'
    BY <1>1, <1>3 DEF Chains, Paths, Awaits
  <2>4. Leaf'
    BY <1>1, <1>2, <1>3 DEF Chains, Paths, Leaf, Started, StartedTask
  <2> QED BY <2>1, <2>2, <2>3, <2>4 DEF Paths
<1>6. Counted' /\ rc' \in [Frame -> Nat]
  <2>1. ctx[f] \in Frame /\ Live(f)
    BY DEF Chains, Paths, InContext, StartedTask, Started, Live
  <2>2. \A e \in Frame : Holders(e)' = IF e = ctx[f] THEN Holders(e) \ {f} ELSE Holders(e)
    BY <1>3 DEF Holders
  <2>3. f \in Holders(ctx[f]) /\ rc \in [Frame -> Nat]
    BY <2>1 DEF Holders, TypeOK
  <2> QED BY <2>1, <2>2, <2>3, CountLeave
<1> QED BY <1>1, <1>4, <1>5, <1>6

\* A running frame awaits g, the task it has just called or the awaiter it
\* owns.
LEMMA TaskCalled ==
  ASSUME TypeOK, Chains, Counted, NEW f \in Frame, NEW g \in Frame, st[f] = "running", f # g,
         IF kind[f] = "detach" THEN st[g] = "initial" /\ next[g] = f ELSE New(g),
         st' = [st EXCEPT ![f] = "child", ![g] = "running"],
         next' = [next EXCEPT ![g] = f], ctx' = [ctx EXCEPT ![g] = ctx[f]],
         rc' = Copy(ctx[f], rc), kind' = kind
  PROVE  /\ Links' /\ Paths' /\ Counted' /\ rc' \in [Frame -> Nat]
         /\ st[g] \in {"none", "initial"}
<1>1. /\ st[g] \in {"none", "initial"} /\ kind[g] = "task" /\ ctx[g] = NoCtx
      /\ st[g] = "initial" => kind[f] = "detach" /\ next[g] = f
      /\ st[g] = "none" => kind[f] = "task" /\ next[g] = Nobody /\ New(g)
  BY DEF Chains, Links, Owned, Blank, New, TypeOK
<1>2. /\ st'[f] = "child" /\ st'[g] = "running" /\ \A h \in Frame \ {f, g} : st'[h] = st[h]
      /\ next'[g] = f /\ \A h \in Frame \ {g} : next'[h] = next[h]
      /\ ctx'[g] = ctx[f] /\ \A h \in Frame \ {g} : ctx'[h] = ctx[h]
  BY DEF TypeOK
<1>3. \A h \in Frame : /\ Started(h)' <=> Started(h) \/ h = g
                       /\ StartedTask(h)' <=> StartedTask(h) \/ h = g
                       /\ st'[h] = "child" <=> st[h] = "child" \/ h = f
                       /\ st'[h] = "initial" <=> st[h] = "initial" /\ h # g
                       /\ st'[h] = "none" <=> st[h] = "none" /\ h # g
                       /\ Live(h)' <=> Live(h) \/ h = g
  <2> SUFFICES ASSUME NEW h \in Frame
               PROVE  /\ Started(h)' <=> Started(h) \/ h = g
                      /\ StartedTask(h)' <=> StartedTask(h) \/ h = g
                      /\ st'[h] = "child" <=> st[h] = "child" \/ h = f
                      /\ st'[h] = "initial" <=> st[h] = "initial" /\ h # g
                      /\ st'[h] = "none" <=> st[h] = "none" /\ h # g
                      /\ Live(h)' <=> Live(h) \/ h = g
    OBVIOUS
  <2>1. CASE h = f
    BY <1>1, <1>2, <2>1 DEF Started, StartedTask, Live
  <2>2. CASE h = g
    BY <1>1, <1>2, <2>2 DEF Started, StartedTask, Live
  <2>3. CASE h \notin {f, g}
    BY <1>2, <2>3 DEF Started, StartedTask, Live
  <2> QED BY <2>1, <2>2, <2>3
<1>4. ~ Started(g) /\ ~ StartedTask(g) /\ Started(f) /\ st[g] # "child" /\ st[f] # "child"
  BY <1>1 DEF Started, StartedTask
<1>5. f < g
  <2>1. CASE st[g] = "initial"
    BY <1>1, <2>1 DEF Chains, Links, Back
  <2>2. CASE st[g] = "none"
    BY <2>2 DEF Chains, Links, InOrder, Frame
  <2> QED BY <1>1, <2>1, <2>2
<1>6. Links'
  <2>1. Blank'
    BY <1>2, <1>3 DEF Chains, Links, Blank
  <2>2. InOrder'
    <3>1. st[g] = "none" => \A h \in Frame : h < g => st[h] # "none"
      BY <1>1 DEF New, Frame
    <3> QED BY <1>1, <1>3, <3>1 DEF Chains, Links, InOrder
  <2>3. Back'
    <3> SUFFICES ASSUME NEW h \in Frame, next'[h] \in Frame
                 PROVE  next'[h] < h /\ st'[next'[h]] # "none"
      BY DEF Back
    <3>1. CASE h = g
      BY <1>2, <1>5, <3>1
    <3>2. CASE h # g
      <4>1. next'[h] = next[h] /\ next[h] < h /\ st[next[h]] # "none"
        BY <1>2, <3>2 DEF Chains, Links, Back
      <4> QED BY <1>3, <4>1
    <3> QED BY <3>1, <3>2
  <2>4. OwnedOnce'
    BY <1>1, <1>2 DEF Chains, Links, OwnedOnce
  <2>5. Owned'
    <3> SUFFICES ASSUME NEW h \in Frame, st[h] = "initial", h # g
                 PROVE  /\ kind[h] = "task" /\ ctx'[h] = NoCtx
                        /\ next'[h] \in Frame /\ kind[next'[h]] = "detach" /\ st'[next'[h]] = "running"
      BY <1>3 DEF Owned
    <3>1. /\ kind[h] = "task" /\ ctx[h] = NoCtx
          /\ next[h] \in Frame /\ kind[next[h]] = "detach" /\ st[next[h]] = "running"
      BY DEF Chains, Links, Owned
    \* A Detach frame owns one awaiter, so h is somebody else's.
    <3>2. next[h] # f
      BY <1>1, <3>1 DEF Chains, Links, OwnedOnce
    <3>3. next'[h] = next[h] /\ ctx'[h] = ctx[h] /\ next[h] # g
      BY <1>1, <1>2, <3>1
    <3>4. st'[next[h]] = "running"
      BY <1>2, <3>1, <3>2, <3>3
    <3> QED BY <3>1, <3>3, <3>4, Zenon
  <2> QED BY <2>1, <2>2, <2>3, <2>4, <2>5 DEF Links
<1>7. Paths'
  <2>1. InContext'
    <3> SUFFICES ASSUME NEW h \in Frame, Started(h) \/ h = g
                 PROVE  ctx'[h] \in Frame /\ st'[ctx'[h]] # "none"
      BY <1>3 DEF InContext
    <3>1. PICK e \in Frame : Started(e) /\ ctx'[h] = ctx[e]
      BY <1>2, <1>4
    <3>2. ctx[e] \in Frame /\ st[ctx[e]] # "none"
      BY <3>1 DEF Chains, Paths, InContext
    <3> QED BY <1>3, <3>1, <3>2
  <2>2. Awaited'
    <3> SUFFICES ASSUME NEW h \in Frame, StartedTask(h) \/ h = g
                 PROVE  \/ next'[h] = Shell
                        \/ next'[h] \in Frame /\ st'[next'[h]] = "child" /\ ctx'[next'[h]] = ctx'[h]
      BY <1>3 DEF Awaited
    <3>1. CASE h = g
      BY <1>2, <3>1
    <3>2. CASE h # g
      <4>1. /\ next'[h] = next[h] /\ ctx'[h] = ctx[h]
            /\ next[h] = Shell \/ (next[h] \in Frame /\ st[next[h]] = "child" /\ ctx[next[h]] = ctx[h])
        BY <1>2, <3>2 DEF Chains, Paths, Awaited
      <4>2. next[h] # g
        BY <1>4, <4>1 DEF Frame, Shell
      <4>3. next[h] \in Frame => ctx'[next[h]] = ctx[next[h]]
        BY <1>2, <4>2
      <4>4. next[h] \in Frame /\ st[next[h]] = "child" => st'[next[h]] = "child"
        BY <1>3
      <4> QED BY <4>1, <4>3, <4>4, Zenon
    <3> QED BY <3>1, <3>2
  <2>3. AwaitedOnce'
    BY <1>2, <1>3, <1>4 DEF Chains, Paths, Awaited, AwaitedOnce, Frame, Shell
  <2>4. Awaits'
    BY <1>2, <1>3, <1>4 DEF Chains, Paths, Awaits
  <2>5. Leaf'
    BY <1>2, <1>3, <1>4 DEF Chains, Paths, Leaf
  <2> QED BY <2>1, <2>2, <2>3, <2>4, <2>5 DEF Paths
<1>8. Counted' /\ rc' \in [Frame -> Nat]
  <2>1. ctx[f] \in Frame /\ g \notin Holders(ctx[f]) /\ rc \in [Frame -> Nat]
    BY <1>1, <1>4 DEF Chains, Paths, InContext, Holders, NoCtx, Frame, TypeOK
  <2>2. \A e \in Frame : Holders(e)' = IF e = ctx[f] THEN Holders(e) \cup {g} ELSE Holders(e)
    <3>1. \A e \in Frame : g \notin Holders(e)
      BY <1>1 DEF Holders, NoCtx, Frame
    <3> QED BY <1>2, <1>3, <3>1 DEF Holders
  <2> QED BY <2>1, <2>2, CountJoin
<1> QED BY <1>1, <1>6, <1>7, <1>8

\* Nobody holds a context that is named by a frame not yet created, and
\* nobody continues with that frame.
LEMMA Fresh ==
  ASSUME TypeOK, Chains, NEW f \in Frame, New(f)
  PROVE  /\ Holders(f) = {} /\ \A c \in Frame : f \notin Holders(c)
         /\ st[f] = "none" /\ kind[f] = "task" /\ ctx[f] = NoCtx /\ next[f] = Nobody
         /\ \A h \in Frame : next[h] # f
         /\ \A h \in Frame : Started(h) => ctx[h] # f
         /\ \A h \in Frame : h < f => st[h] # "none"
         /\ \A h \in Frame : h > f => st[h] = "none"
<1>1. /\ st[f] = "none" /\ kind[f] = "task" /\ ctx[f] = NoCtx /\ next[f] = Nobody
      /\ \A h \in Frame : next[h] # f
      /\ \A h \in Frame : Started(h) => ctx[h] # f
  BY DEF New, Chains, Links, Paths, Blank, Back, InContext
<1>2. /\ \A h \in Frame : h < f => st[h] # "none"
      /\ \A h \in Frame : h > f => st[h] = "none"
  BY DEF New, Frame, Chains, Links, InOrder
<1>3. \A h \in Frame : Live(h) => Started(h) \/ ctx[h] = NoCtx
  BY DEF Live, Started, TypeOK, Chains, Links, Owned
<1>4. Holders(f) = {} /\ \A c \in Frame : f \notin Holders(c)
  BY <1>1, <1>3 DEF Holders, Live, NoCtx, Frame
<1> QED BY <1>1, <1>2, <1>4

\* block() starts its task, the first and only one.
LEMMA RootStarts ==
  ASSUME TypeOK, Chains, Counted, NEW f \in Frame, New(f), \A h \in Frame : next[h] # Shell,
         st' = [st EXCEPT ![f] = "running"], next' = [next EXCEPT ![f] = Shell],
         ctx' = [ctx EXCEPT ![f] = f], rc' = NewContext(f, rc), kind' = kind
  PROVE  Links' /\ Paths' /\ Counted' /\ rc' \in [Frame -> Nat]
<1>0. /\ Holders(f) = {} /\ \A c \in Frame : f \notin Holders(c)
      /\ st[f] = "none" /\ kind[f] = "task" /\ ctx[f] = NoCtx /\ next[f] = Nobody
      /\ \A h \in Frame : next[h] # f
      /\ \A h \in Frame : Started(h) => ctx[h] # f
      /\ \A h \in Frame : h < f => st[h] # "none"
      /\ \A h \in Frame : h > f => st[h] = "none"
  BY Fresh
<1>1. /\ st'[f] = "running" /\ \A h \in Frame \ {f} : st'[h] = st[h]
      /\ next'[f] = Shell /\ \A h \in Frame \ {f} : next'[h] = next[h]
      /\ ctx'[f] = f /\ \A h \in Frame \ {f} : ctx'[h] = ctx[h]
  BY DEF TypeOK
<1>2. \A h \in Frame : /\ Started(h)' <=> Started(h) \/ h = f
                       /\ StartedTask(h)' <=> StartedTask(h) \/ h = f
                       /\ st'[h] = "child" <=> st[h] = "child"
                       /\ st'[h] = "initial" <=> st[h] = "initial"
                       /\ st'[h] = "none" <=> st[h] = "none" /\ h # f
                       /\ Live(h)' <=> Live(h) \/ h = f
  <2> SUFFICES ASSUME NEW h \in Frame
               PROVE  /\ Started(h)' <=> Started(h) \/ h = f
                      /\ StartedTask(h)' <=> StartedTask(h) \/ h = f
                      /\ st'[h] = "child" <=> st[h] = "child"
                      /\ st'[h] = "initial" <=> st[h] = "initial"
                      /\ st'[h] = "none" <=> st[h] = "none" /\ h # f
                      /\ Live(h)' <=> Live(h) \/ h = f
    OBVIOUS
  <2>1. CASE h = f
    BY <1>0, <1>1, <2>1 DEF Started, StartedTask, Live
  <2>2. CASE h # f
    BY <1>1, <2>2 DEF Started, StartedTask, Live
  <2> QED BY <2>1, <2>2
<1>3. Shell \notin Frame /\ ~ Started(f) /\ ~ StartedTask(f) /\ st[f] # "child"
  BY <1>0 DEF Shell, Frame, Started, StartedTask
<1>4. Links'
  <2>1. Blank' /\ InOrder'
    BY <1>0, <1>1, <1>2 DEF Chains, Links, Blank, InOrder
  <2>2. Back'
    BY <1>1, <1>2, <1>3 DEF Chains, Links, Back
  <2>3. Owned'
    <3> SUFFICES ASSUME NEW h \in Frame, st[h] = "initial"
                 PROVE  /\ kind[h] = "task" /\ ctx'[h] = NoCtx
                        /\ next'[h] \in Frame /\ kind[next'[h]] = "detach" /\ st'[next'[h]] = "running"
      BY <1>2 DEF Owned
    <3>1. /\ kind[h] = "task" /\ ctx[h] = NoCtx /\ h # f
          /\ next[h] \in Frame /\ kind[next[h]] = "detach" /\ st[next[h]] = "running"
      BY <1>0 DEF Chains, Links, Owned
    <3>2. next'[h] = next[h] /\ ctx'[h] = ctx[h] /\ st'[next[h]] = "running"
      BY <1>0, <1>1, <3>1
    <3> QED BY <3>1, <3>2, Zenon
  <2>4. OwnedOnce'
    BY <1>1, <1>3 DEF Chains, Links, OwnedOnce
  <2> QED BY <2>1, <2>2, <2>3, <2>4 DEF Links
<1>5. Paths'
  <2>1. InContext'
    BY <1>1, <1>2, <1>3 DEF Chains, Paths, InContext
  <2>2. Awaited'
    <3> SUFFICES ASSUME NEW h \in Frame, StartedTask(h), h # f
                 PROVE  next'[h] \in Frame /\ st'[next'[h]] = "child" /\ ctx'[next'[h]] = ctx'[h]
      BY <1>1, <1>2 DEF Awaited
    <3>1. next[h] \in Frame /\ st[next[h]] = "child" /\ ctx[next[h]] = ctx[h] /\ next[h] # f
      BY <1>0 DEF Chains, Paths, Awaited
    <3>2. next'[h] = next[h] /\ ctx'[h] = ctx[h] /\ ctx'[next[h]] = ctx[next[h]] /\ st'[next[h]] = "child"
      BY <1>1, <1>2, <3>1
    <3> QED BY <3>1, <3>2, Zenon
  <2>3. AwaitedOnce'
    BY <1>1, <1>2, <1>3 DEF Chains, Paths, AwaitedOnce
  <2>4. Awaits'
    BY <1>1, <1>2, <1>3 DEF Chains, Paths, Awaits
  <2>5. Leaf'
    BY <1>0, <1>1, <1>2, <1>3 DEF Chains, Paths, Leaf
  <2> QED BY <2>1, <2>2, <2>3, <2>4, <2>5 DEF Paths
<1>6. Counted' /\ rc' \in [Frame -> Nat]
  <2>1. \A e \in Frame : Holders(e)' = IF e = f THEN Holders(e) \cup {f} ELSE Holders(e)
    BY <1>0, <1>1, <1>2 DEF Holders
  <2> QED BY <1>0, <2>1, CountJoin DEF TypeOK
<1> QED BY <1>4, <1>5, <1>6

\* A Detach frame d starts a chain of its own and owns its awaiter d + 1.
LEMMA DetachStarts ==
  ASSUME TypeOK, Chains, Counted, NEW d \in Frame, New(d), d + 1 \in Frame,
         st' = [st EXCEPT ![d] = "running", ![d + 1] = "initial"],
         kind' = [kind EXCEPT ![d] = "detach"], next' = [next EXCEPT ![d + 1] = d],
         ctx' = [ctx EXCEPT ![d] = d], rc' = NewContext(d, rc)
  PROVE  /\ Links' /\ Paths' /\ Counted' /\ rc' \in [Frame -> Nat]
         /\ st[d] = "none" /\ st[d + 1] = "none" /\ next[d] = Nobody
<1> DEFINE g == d + 1
<1>0. /\ Holders(d) = {} /\ \A c \in Frame : d \notin Holders(c)
      /\ st[d] = "none" /\ kind[d] = "task" /\ ctx[d] = NoCtx /\ next[d] = Nobody
      /\ \A h \in Frame : next[h] # d
      /\ \A h \in Frame : Started(h) => ctx[h] # d
      /\ \A h \in Frame : h < d => st[h] # "none"
      /\ \A h \in Frame : h > d => st[h] = "none"
  BY Fresh
<1>1. /\ g \in Frame /\ g # d /\ g > d
      /\ st[g] = "none" /\ kind[g] = "task" /\ ctx[g] = NoCtx /\ next[g] = Nobody
  <2>1. g \in Frame /\ g # d /\ g > d
    BY DEF Frame
  <2> QED BY <1>0, <2>1 DEF Chains, Links, Blank
<1>2. \A h \in Frame : h < g => h = d \/ h < d
  BY DEF Frame
<1>3. \A h \in Frame : next[h] # g
  BY <1>1 DEF Chains, Links, Back
<1>4. \A c \in Frame : g \notin Holders(c)
  BY <1>1 DEF Holders, Live
<1>5. /\ st' = [st EXCEPT ![d] = "running", ![g] = "initial"] /\ next' = [next EXCEPT ![g] = d]
  OBVIOUS
<1> HIDE DEF g
<1>6. /\ st'[d] = "running" /\ st'[g] = "initial" /\ \A h \in Frame \ {d, g} : st'[h] = st[h]
      /\ kind'[d] = "detach" /\ \A h \in Frame \ {d} : kind'[h] = kind[h]
      /\ next'[g] = d /\ \A h \in Frame \ {g} : next'[h] = next[h]
      /\ ctx'[d] = d /\ \A h \in Frame \ {d} : ctx'[h] = ctx[h]
  BY <1>1, <1>5 DEF TypeOK
<1>7. \A h \in Frame : /\ Started(h)' <=> Started(h) \/ h = d
                       /\ StartedTask(h)' <=> StartedTask(h)
                       /\ st'[h] = "child" <=> st[h] = "child"
                       /\ st'[h] = "initial" <=> st[h] = "initial" \/ h = g
                       /\ st'[h] = "none" <=> st[h] = "none" /\ h # d /\ h # g
                       /\ Live(h)' <=> Live(h) \/ h = d \/ h = g
  <2> SUFFICES ASSUME NEW h \in Frame
               PROVE  /\ Started(h)' <=> Started(h) \/ h = d
                      /\ StartedTask(h)' <=> StartedTask(h)
                      /\ st'[h] = "child" <=> st[h] = "child"
                      /\ st'[h] = "initial" <=> st[h] = "initial" \/ h = g
                      /\ st'[h] = "none" <=> st[h] = "none" /\ h # d /\ h # g
                      /\ Live(h)' <=> Live(h) \/ h = d \/ h = g
    OBVIOUS
  <2>1. CASE h = d
    BY <1>0, <1>1, <1>6, <2>1 DEF Started, StartedTask, Live
  <2>2. CASE h = g
    BY <1>1, <1>6, <2>2 DEF Started, StartedTask, Live
  <2>3. CASE h \notin {d, g}
    BY <1>6, <2>3 DEF Started, StartedTask, Live
  <2> QED BY <2>1, <2>2, <2>3
<1>8. ~ Started(d) /\ ~ Started(g) /\ ~ StartedTask(d) /\ ~ StartedTask(g)
  BY <1>0, <1>1 DEF Started, StartedTask
<1>9. Links'
  <2>1. Blank'
    BY <1>0, <1>6, <1>7 DEF Chains, Links, Blank
  <2>2. InOrder'
    BY <1>0, <1>2, <1>7 DEF Chains, Links, InOrder
  <2>3. Back'
    <3> SUFFICES ASSUME NEW h \in Frame, next'[h] \in Frame
                 PROVE  next'[h] < h /\ st'[next'[h]] # "none"
      BY DEF Back
    <3>1. CASE h = g
      BY <1>1, <1>6, <3>1 DEF Frame
    <3>2. CASE h # g
      <4>1. next'[h] = next[h] /\ next[h] < h /\ st[next[h]] # "none"
        BY <1>6, <3>2 DEF Chains, Links, Back
      <4> QED BY <1>7, <4>1
    <3> QED BY <3>1, <3>2
  <2>4. Owned'
    <3> SUFFICES ASSUME NEW h \in Frame, st[h] = "initial" \/ h = g
                 PROVE  /\ kind'[h] = "task" /\ ctx'[h] = NoCtx
                        /\ next'[h] \in Frame /\ kind'[next'[h]] = "detach" /\ st'[next'[h]] = "running"
      BY <1>7 DEF Owned
    <3>1. CASE h = g
      BY <1>1, <1>6, <3>1
    <3>2. CASE h # g
      <4>1. /\ kind[h] = "task" /\ ctx[h] = NoCtx /\ h # d
            /\ next[h] \in Frame /\ kind[next[h]] = "detach" /\ st[next[h]] = "running"
        BY <1>0, <3>2 DEF Chains, Links, Owned
      <4>2. next[h] \notin {d, g}
        BY <1>0, <1>3
      <4>3. next'[h] = next[h] /\ ctx'[h] = ctx[h] /\ kind'[h] = kind[h]
        BY <1>6, <3>2, <4>1
      <4>4. st'[next[h]] = "running" /\ kind'[next[h]] = "detach"
        BY <1>6, <4>1, <4>2
      <4> QED BY <4>1, <4>3, <4>4, Zenon
    <3> QED BY <3>1, <3>2
  <2>5. OwnedOnce'
    <3>1. \A h \in Frame \ {g} : next'[h] = next[h] /\ next[h] # d
      BY <1>0, <1>6
    <3>2. \A e \in Frame \ {d} : kind'[e] = kind[e]
      BY <1>6
    <3> QED BY <1>6, <3>1, <3>2 DEF Chains, Links, OwnedOnce
  <2> QED BY <2>1, <2>2, <2>3, <2>4, <2>5 DEF Links
<1>10. Paths'
  <2>1. InContext'
    <3> SUFFICES ASSUME NEW h \in Frame, Started(h) \/ h = d
                 PROVE  ctx'[h] \in Frame /\ st'[ctx'[h]] # "none"
      BY <1>7 DEF InContext
    <3>1. CASE h = d
      BY <1>6, <3>1
    <3>2. CASE h # d
      <4>1. ctx'[h] = ctx[h] /\ ctx[h] \in Frame /\ st[ctx[h]] # "none"
        BY <1>6, <3>2 DEF Chains, Paths, InContext
      <4> QED BY <1>7, <4>1
    <3> QED BY <3>1, <3>2
  <2>2. Awaited'
    <3> SUFFICES ASSUME NEW h \in Frame, StartedTask(h), next'[h] # Shell
                 PROVE  next'[h] \in Frame /\ st'[next'[h]] = "child" /\ ctx'[next'[h]] = ctx'[h]
      BY <1>7 DEF Awaited
    <3>0. h # d /\ h # g
      BY <1>8
    <3>1. next'[h] = next[h] /\ ctx'[h] = ctx[h]
      BY <1>6, <3>0
    <3>2. next[h] \in Frame /\ st[next[h]] = "child" /\ ctx[next[h]] = ctx[h] /\ next[h] # d
      BY <1>0, <3>1 DEF Chains, Paths, Awaited
    <3>3. ctx'[next[h]] = ctx[next[h]] /\ st'[next[h]] = "child"
      BY <1>6, <1>7, <3>2
    <3> QED BY <3>1, <3>2, <3>3, Zenon
  <2>3. AwaitedOnce'
    BY <1>6, <1>7, <1>8 DEF Chains, Paths, AwaitedOnce
  <2>4. Awaits'
    BY <1>6, <1>7, <1>8 DEF Chains, Paths, Awaits
  <2>5. Leaf'
    BY <1>0, <1>6, <1>7, <1>8 DEF Chains, Paths, Leaf
  <2> QED BY <2>1, <2>2, <2>3, <2>4, <2>5 DEF Paths
<1>11. Counted' /\ rc' \in [Frame -> Nat]
  <2>1. \A e \in Frame : ctx'[g] # e
    BY <1>1, <1>6 DEF NoCtx, Frame
  <2>2. \A e \in Frame : Holders(e)' = IF e = d THEN Holders(e) \cup {d} ELSE Holders(e)
    BY <1>0, <1>4, <1>6, <1>7, <2>1 DEF Holders
  <2> QED BY <1>0, <2>2, CountJoin DEF TypeOK
<1> QED BY <1>0, <1>1, <1>9, <1>10, <1>11 DEF g

\* A step that neither starts, finishes nor ends what block() drives.
LEMMA DrivenStay ==
  ASSUME TypeOK, Driven, UNCHANGED <<block, shell>>,
         \A h \in Frame : next'[h] = Shell <=> next[h] = Shell,
         \A h \in Frame : next[h] = Shell => /\ kind'[h] = kind[h]
                                             /\ Started(h)' <=> Started(h)
                                             /\ st[h] = "gone" => st'[h] = "gone",
         \A h \in Frame : st'[h] = "final" <=> st[h] = "final"
  PROVE  Driven'
<1>1. \A h \in Frame : next'[h] = Shell =>
        /\ kind'[h] = "task" /\ block' # "idle"
        /\ block' = "driving" => Started(h)' /\ (st'[h] = "final" <=> shell' = "final")
        /\ block' = "returned" => st'[h] = "gone"
  BY DEF Driven
<1> QED BY <1>1 DEF Driven

-----------------------------------------------------------------------------
(* The steps.                                                              *)

LEMMA BlockIInv ==
  ASSUME IInv, NEW f \in Frame, Block(f)
  PROVE  IInv'
<1>0. TypeOK /\ Placed /\ Chains /\ Driven /\ Counted /\ New(f) /\ stack[User] = <<>> /\ User \in Thread
  BY DEF IInv, Chains, Block, Free, Thread
<1>1. \A h \in Frame : next[h] # Shell /\ st[h] # "final"
  BY <1>0 DEF Driven, Block
<1>2. Links' /\ Paths' /\ Counted' /\ rc' \in [Frame -> Nat]
  BY <1>0, <1>1, RootStarts DEF Block
<1>3. stack' = CallInline(User, f) /\ queue' = queue
  <2>1. Append(stack[User], f) = <<f>>
    BY <1>0
  <2> QED BY <2>1 DEF Block, CallInline
<1>4. /\ \A h \in Frame : st'[h] = IF h = f THEN "running" ELSE st[h]
      /\ st[f] = "none"
  BY <1>0 DEF Block, TypeOK, New
<1>5. Placed'
  BY <1>0, <1>3, <1>4, PlacedCall
<1>6. TypeOK'
  <2>1. stack' \in [Thread -> Seq(Frame)]
    BY <1>0, <1>3, CallLemma
  <2>2. /\ st' \in [Frame -> {"none", "initial", "running", "io", "child", "final", "gone"}]
        /\ next' \in [Frame -> Frame \cup {Nobody, Shell}] /\ ctx' \in [Frame -> Frame \cup {NoCtx}]
    BY <1>0 DEF Block, TypeOK
  <2> QED BY <1>0, <1>2, <2>1, <2>2 DEF Block, TypeOK
<1>7. Driven'
  <2>1. \A h \in Frame : next'[h] = Shell <=> h = f
    BY <1>0, <1>1 DEF Block, TypeOK
  <2>2. kind'[f] = "task" /\ st'[f] = "running" /\ block' = "driving" /\ shell' = "initial"
    BY <1>0, <1>4, Fresh DEF Block
  <2>3. Started(f)'
    BY <2>2 DEF Started
  <2>4. \A h \in Frame : st'[h] # "final"
    BY <1>1, <1>4
  <2> QED BY <2>1, <2>2, <2>3, <2>4 DEF Driven
<1> QED BY <1>2, <1>5, <1>6, <1>7 DEF IInv, Chains

LEMMA DetachIInv ==
  ASSUME IInv, NEW th \in Thread, NEW d \in Frame, StartDetached(th, d, d)
  PROVE  IInv'
<1>0. TypeOK /\ Placed /\ Chains /\ Driven /\ Counted /\ New(d) /\ d + 1 \in Frame /\ d # d + 1
  BY DEF IInv, Chains, StartDetached, Frame
<1>1. /\ Links' /\ Paths' /\ Counted' /\ rc' \in [Frame -> Nat]
      /\ st[d] = "none" /\ st[d + 1] = "none" /\ next[d] = Nobody
  BY <1>0, DetachStarts DEF StartDetached
<1>2. next[d + 1] = Nobody
  BY <1>0, <1>1 DEF Chains, Links, Blank
<1>3. /\ st'[d] = "running" /\ st'[d + 1] = "initial"
      /\ \A h \in Frame \ {d, d + 1} : st'[h] = st[h]
  BY <1>0 DEF StartDetached, TypeOK
<1>4. \A h \in Frame : st'[h] = "running" <=> h = d \/ st[h] = "running"
  BY <1>0, <1>1, <1>3
<1>5. Placed' /\ stack' \in [Thread -> Seq(Frame)] /\ queue' \in Seq(Frame) /\ notifying' \subseteq Thread
  <2>1. CASE pooled
    <3>1. queue' = Append(queue, d) /\ stack' = stack /\ notifying' = notifying \cup {th}
      BY <2>1 DEF StartDetached, Dispatch
    <3>2. Placed' /\ queue' \in Seq(Frame)
      BY <1>0, <1>1, <1>4, <3>1, PlacedQueue
    <3> QED BY <1>0, <3>1, <3>2 DEF TypeOK
  <2>2. CASE ~ pooled
    <3>1. stack' = CallInline(th, d) /\ queue' = queue /\ notifying' = notifying
      BY <2>2 DEF StartDetached, Dispatch
    <3>2. Placed'
      BY <1>0, <1>1, <1>4, <3>1, PlacedCall
    <3>3. stack' \in [Thread -> Seq(Frame)]
      BY <1>0, <3>1, CallLemma
    <3> QED BY <1>0, <3>1, <3>2, <3>3 DEF TypeOK
  <2> QED BY <2>1, <2>2
<1>6. TypeOK'
  <2>1. /\ st' \in [Frame -> {"none", "initial", "running", "io", "child", "final", "gone"}]
        /\ kind' \in [Frame -> {"task", "detach"}]
        /\ next' \in [Frame -> Frame \cup {Nobody, Shell}] /\ ctx' \in [Frame -> Frame \cup {NoCtx}]
    BY <1>0 DEF StartDetached, TypeOK
  <2> QED BY <1>0, <1>1, <1>5, <2>1 DEF StartDetached, TypeOK
<1>7. Driven'
  <2>1. \A h \in Frame : next'[h] = IF h = d + 1 THEN d ELSE next[h]
    BY <1>0 DEF StartDetached, TypeOK
  <2>2. \A h \in Frame : next'[h] = Shell <=> next[h] = Shell
    BY <1>0, <1>2, <2>1 DEF Shell, Nobody, Frame
  <2>3. \A h \in Frame : next[h] = Shell => h # d /\ h # d + 1
    BY <1>1, <1>2 DEF Shell, Nobody
  <2>4. \A h \in Frame \ {d} : kind'[h] = kind[h]
    BY <1>0 DEF StartDetached, TypeOK
  <2>5. \A h \in Frame : next[h] = Shell => /\ kind'[h] = kind[h]
                                            /\ Started(h)' <=> Started(h)
                                            /\ st[h] = "gone" => st'[h] = "gone"
    BY <1>3, <2>3, <2>4 DEF Started
  <2>6. \A h \in Frame : st'[h] = "final" <=> st[h] = "final"
    BY <1>1, <1>3
  <2>7. UNCHANGED <<block, shell>>
    BY DEF StartDetached
  <2> QED BY <1>0, <2>2, <2>5, <2>6, <2>7, DrivenStay
<1> QED BY <1>1, <1>5, <1>6, <1>7 DEF IInv, Chains

LEMMA AwaitIInv ==
  ASSUME IInv, NEW th \in Thread, NEW f \in Frame, NEW g \in Frame, Await(th, f, g)
  PROVE  IInv'
<1>0. TypeOK /\ Placed /\ Chains /\ Driven /\ Counted /\ f # g /\ Executes(th, f)
  BY DEF IInv, Chains, Await
<1>1. st[f] = "running" /\ stack[th] # <<>>
  BY <1>0, TopRuns
<1>2. /\ Links' /\ Paths' /\ Counted' /\ rc' \in [Frame -> Nat]
      /\ st[g] \in {"none", "initial"}
  BY <1>0, <1>1, TaskCalled DEF Await
<1>3. st'[f] = "child" /\ st'[g] = "running" /\ \A h \in Frame \ {f, g} : st'[h] = st[h]
  BY <1>0 DEF Await, TypeOK
<1>4. \A h \in Frame : st'[h] = "running" <=> h = g \/ (st[h] = "running" /\ h # f)
  BY <1>0, <1>1, <1>2, <1>3
<1>5. Placed'
  BY <1>0, <1>2, <1>4, PlacedReplace DEF Await
<1>6. TypeOK'
  <2>1. stack' \in [Thread -> Seq(Frame)]
    BY <1>0, <1>1, ReplaceLemma DEF Await
  <2>2. /\ st' \in [Frame -> {"none", "initial", "running", "io", "child", "final", "gone"}]
        /\ next' \in [Frame -> Frame \cup {Nobody, Shell}] /\ ctx' \in [Frame -> Frame \cup {NoCtx}]
    BY <1>0 DEF Await, TypeOK
  <2> QED BY <1>0, <1>2, <2>1, <2>2 DEF Await, TypeOK
<1>7. Driven'
  <2>1. next[g] # Shell
    BY <1>0, <1>2 DEF Chains, Links, Blank, Owned, Shell, Nobody, Frame
  <2>2. \A h \in Frame : next'[h] = IF h = g THEN f ELSE next[h]
    BY <1>0 DEF Await, TypeOK
  <2>3. \A h \in Frame : next'[h] = Shell <=> next[h] = Shell
    BY <2>1, <2>2 DEF Shell, Frame
  <2>4. \A h \in Frame : next[h] = Shell => /\ kind'[h] = kind[h]
                                            /\ Started(h)' <=> Started(h)
                                            /\ st[h] = "gone" => st'[h] = "gone"
    BY <1>1, <1>3, <2>1 DEF Started, Await
  <2>5. \A h \in Frame : st'[h] = "final" <=> st[h] = "final"
    BY <1>1, <1>2, <1>3
  <2>6. UNCHANGED <<block, shell>>
    BY DEF Await
  <2> QED BY <1>0, <2>3, <2>4, <2>5, <2>6, DrivenStay
<1> QED BY <1>2, <1>5, <1>6, <1>7 DEF IInv, Chains

LEMMA SuspendIInv ==
  ASSUME IInv, NEW th \in Thread, NEW f \in Frame, Suspend(th, f)
  PROVE  IInv'
<1>0. TypeOK /\ Placed /\ Chains /\ Driven /\ Counted /\ Executes(th, f)
  BY DEF IInv, Chains, Suspend
<1>1. st[f] = "running" /\ stack[th] # <<>> /\ Started(f)
  BY <1>0, TopRuns DEF Suspend, Started
<1>2. Links' /\ Paths' /\ Counted'
  BY <1>0, <1>1, LeafMoves DEF Suspend
<1>3. \A h \in Frame : st'[h] = IF h = f THEN "io" ELSE st[h]
  BY <1>0 DEF Suspend, TypeOK
<1>4. Placed'
  BY <1>0, <1>3, PlacedPop DEF Suspend
<1>5. TypeOK'
  <2>1. stack' \in [Thread -> Seq(Frame)]
    BY <1>0, <1>1, PopLemma DEF Suspend
  <2>2. suspends' \in 0..MaxSuspend
    BY <1>0, FramesAssumption DEF Suspend, TypeOK
  <2> QED BY <1>0, <2>1, <2>2 DEF Suspend, TypeOK
<1>6. Driven'
  <2>1. \A h \in Frame : /\ Started(h)' <=> Started(h)
                         /\ st[h] = "gone" => st'[h] = "gone"
                         /\ st'[h] = "final" <=> st[h] = "final"
    BY <1>1, <1>3 DEF Started
  <2> QED BY <1>0, <2>1, DrivenStay DEF Suspend
<1> QED BY <1>2, <1>4, <1>5, <1>6 DEF IInv, Chains

LEMMA WakeIInv ==
  ASSUME IInv, NEW f \in Frame, Wake(f)
  PROVE  IInv'
<1>0. TypeOK /\ Placed /\ Chains /\ Driven /\ Counted /\ st[f] = "io" /\ Poller \in Thread
  BY DEF IInv, Chains, Wake, Thread
<1>1. \A h \in Frame : st'[h] = IF h = f THEN "running" ELSE st[h]
  BY <1>0 DEF Wake, TypeOK
<1>2. Links' /\ Paths' /\ Counted'
  BY <1>0, LeafMoves DEF Wake, Started
<1>3. \A h \in Frame : st'[h] = "running" <=> h = f \/ st[h] = "running"
  BY <1>1
<1>4. Placed' /\ stack' \in [Thread -> Seq(Frame)] /\ queue' \in Seq(Frame) /\ notifying' \subseteq Thread
  <2>1. CASE pooled
    <3>1. queue' = Append(queue, f) /\ stack' = stack /\ notifying' = notifying \cup {Poller}
      BY <2>1 DEF Wake, Dispatch
    <3>2. Placed' /\ queue' \in Seq(Frame)
      BY <1>0, <1>3, <3>1, PlacedQueue
    <3> QED BY <1>0, <3>1, <3>2 DEF TypeOK
  <2>2. CASE ~ pooled
    <3>1. stack' = CallInline(Poller, f) /\ queue' = queue /\ notifying' = notifying
      BY <2>2 DEF Wake, Dispatch
    <3>2. Placed'
      BY <1>0, <1>3, <3>1, PlacedCall
    <3>3. stack' \in [Thread -> Seq(Frame)]
      BY <1>0, <3>1, CallLemma
    <3> QED BY <1>0, <3>1, <3>2, <3>3 DEF TypeOK
  <2> QED BY <2>1, <2>2
<1>5. TypeOK'
  BY <1>0, <1>4 DEF Wake, TypeOK
<1>6. Driven'
  <2>1. \A h \in Frame : /\ Started(h)' <=> Started(h)
                         /\ st[h] = "gone" => st'[h] = "gone"
                         /\ st'[h] = "final" <=> st[h] = "final"
    BY <1>0, <1>1 DEF Started
  <2> QED BY <1>0, <2>1, DrivenStay DEF Wake
<1> QED BY <1>2, <1>4, <1>5, <1>6 DEF IInv, Chains

LEMMA FinishTaskIInv ==
  ASSUME IInv, NEW th \in Thread, NEW f \in Frame, FinishTask(th, f)
  PROVE  IInv'
<1>0. TypeOK /\ Placed /\ Chains /\ Driven /\ Counted /\ Executes(th, f) /\ kind[f] = "task"
  BY DEF IInv, Chains, FinishTask
<1>1. st[f] = "running" /\ stack[th] # <<>> /\ Started(f) /\ StartedTask(f)
  BY <1>0, TopRuns DEF StartedTask, Started
<1>2. CASE next[f] = Shell
  <2>0. /\ st' = [st EXCEPT ![f] = "final"] /\ shell' = "final" /\ stack' = Pop(th) /\ rc' = rc
        /\ UNCHANGED <<pooled, kind, next, ctx, queue, notifying, block, stopped, suspends>>
    BY <1>2 DEF FinishTask, BlockShell
  <2>1. Links' /\ Paths' /\ Counted'
    BY <1>0, <1>1, <2>0, LeafMoves
  <2>2. \A h \in Frame : st'[h] = IF h = f THEN "final" ELSE st[h]
    BY <1>0, <2>0 DEF TypeOK
  <2>3. Placed'
    BY <1>0, <2>0, <2>2, PlacedPop
  <2>4. TypeOK'
    <3>1. stack' \in [Thread -> Seq(Frame)]
      BY <1>0, <1>1, <2>0, PopLemma
    <3> QED BY <1>0, <2>0, <3>1 DEF TypeOK
  <2>5. Driven'
    <3>1. block = "driving"
      BY <1>0, <1>1, <1>2 DEF Driven, TypeOK
    <3>2. \A h \in Frame : next[h] = Shell => h = f
      BY <1>0, <1>2 DEF Driven
    <3>3. \A h \in Frame : st'[h] = "final" <=> h = f
      BY <1>0, <2>2, <3>2 DEF Driven
    <3>4. Started(f)'
      BY <2>2 DEF Started
    <3> QED BY <1>0, <1>2, <2>0, <3>1, <3>2, <3>3, <3>4 DEF Driven
  <2> QED BY <2>1, <2>3, <2>4, <2>5 DEF IInv, Chains
<1>3. CASE next[f] # Shell
  <2> DEFINE p == next[f]
  <2>0. p \in Frame
    BY <1>0, <1>1, <1>3 DEF Chains, Paths, Awaited
  <2>1. /\ st' = [st EXCEPT ![f] = "gone", ![p] = "running"] /\ stack' = Replace(th, p)
        /\ rc' = Drop(ctx[f], rc)
        /\ UNCHANGED <<pooled, kind, next, ctx, queue, notifying, block, stopped, suspends, shell>>
    BY <1>3 DEF FinishTask
  <2>2. /\ Links' /\ Paths' /\ Counted' /\ rc' \in [Frame -> Nat]
        /\ st[p] = "child" /\ f # p
    BY <1>0, <1>1, <2>0, <2>1, TaskReturns
  <2> HIDE DEF p
  <2>3. st'[f] = "gone" /\ st'[p] = "running" /\ \A h \in Frame \ {f, p} : st'[h] = st[h]
    BY <1>0, <2>0, <2>1, <2>2 DEF TypeOK
  <2>4. \A h \in Frame : st'[h] = "running" <=> h = p \/ (st[h] = "running" /\ h # f)
    BY <2>2, <2>3
  <2>5. Placed'
    BY <1>0, <2>0, <2>1, <2>2, <2>4, PlacedReplace
  <2>6. TypeOK'
    <3>1. stack' \in [Thread -> Seq(Frame)]
      BY <1>0, <1>1, <2>0, <2>1, ReplaceLemma
    <3>2. st' \in [Frame -> {"none", "initial", "running", "io", "child", "final", "gone"}]
      BY <1>0, <2>0, <2>1 DEF TypeOK
    <3> QED BY <1>0, <2>1, <2>2, <3>1, <3>2 DEF TypeOK
  <2>7. Driven'
    <3>1. \A h \in Frame : /\ h # f => (Started(h)' <=> Started(h))
                           /\ st[h] = "gone" => st'[h] = "gone"
                           /\ st'[h] = "final" <=> st[h] = "final"
      BY <1>1, <2>2, <2>3 DEF Started
    <3>2. \A h \in Frame : next[h] = Shell => h # f
      BY <1>3
    <3> QED BY <1>0, <2>1, <3>1, <3>2, DrivenStay
  <2> QED BY <2>2, <2>5, <2>6, <2>7 DEF IInv, Chains
<1> QED BY <1>2, <1>3

LEMMA FinishDetachedIInv ==
  ASSUME IInv, NEW th \in Thread, NEW d \in Frame, FinishDetached(th, d)
  PROVE  IInv'
<1>0. TypeOK /\ Placed /\ Chains /\ Driven /\ Counted /\ Executes(th, d) /\ kind[d] = "detach"
  BY DEF IInv, Chains, FinishDetached
<1>1. st[d] = "running" /\ stack[th] # <<>> /\ Started(d)
  BY <1>0, TopRuns DEF Started
\* The awaiter it owned is gone, so it owns none.
<1>2. \A g \in Frame : next[g] = d => st[g] # "initial"
  BY <1>0 DEF FinishDetached, Chains, Links, OwnedOnce
<1>3. Links' /\ Paths' /\ Counted' /\ rc' \in [Frame -> Nat]
  BY <1>0, <1>1, <1>2, RootDies DEF FinishDetached
<1>4. \A h \in Frame : st'[h] = IF h = d THEN "gone" ELSE st[h]
  BY <1>0 DEF FinishDetached, TypeOK
<1>5. Placed'
  BY <1>0, <1>4, PlacedPop DEF FinishDetached
<1>6. TypeOK'
  <2>1. stack' \in [Thread -> Seq(Frame)]
    BY <1>0, <1>1, PopLemma DEF FinishDetached
  <2> QED BY <1>0, <1>3, <2>1 DEF FinishDetached, TypeOK
<1>7. Driven'
  <2>1. \A h \in Frame : /\ h # d => (Started(h)' <=> Started(h))
                         /\ st[h] = "gone" => st'[h] = "gone"
                         /\ st'[h] = "final" <=> st[h] = "final"
    BY <1>1, <1>4 DEF Started
  <2>2. \A h \in Frame : next[h] = Shell => h # d
    BY <1>0 DEF Driven
  <2> QED BY <1>0, <2>1, <2>2, DrivenStay DEF FinishDetached
<1> QED BY <1>3, <1>5, <1>6, <1>7 DEF IInv, Chains

LEMMA BlockReturnsIInv ==
  ASSUME IInv, BlockReturns
  PROVE  IInv'
<1>0. /\ TypeOK /\ Placed /\ Chains /\ Driven /\ Counted
      /\ block = "driving" /\ shell = "final" /\ block' = "returned" /\ shell' = "gone"
      /\ UNCHANGED <<pooled, kind, next, ctx, stack, queue, notifying, stopped, suspends>>
  BY DEF IInv, Chains, BlockReturns
<1>1. PICK f \in Frame : next[f] = Shell /\ st' = [st EXCEPT ![f] = "gone"] /\ rc' = Drop(ctx[f], rc)
  BY DEF BlockReturns
<1>2. st[f] = "final" /\ kind[f] = "task" /\ Started(f) /\ \A h \in Frame : next[h] = Shell => h = f
  BY <1>0, <1>1 DEF Driven
<1>3. \A g \in Frame : next[g] = f => st[g] # "initial"
  BY <1>0, <1>2 DEF Chains, Links, Owned
<1>4. Links' /\ Paths' /\ Counted' /\ rc' \in [Frame -> Nat]
  BY <1>0, <1>1, <1>2, <1>3, RootDies
<1>5. \A h \in Frame : st'[h] = IF h = f THEN "gone" ELSE st[h]
  BY <1>0, <1>1 DEF TypeOK
<1>6. Placed'
  BY <1>0, <1>2, <1>5, PlacedStay
<1>7. TypeOK'
  BY <1>0, <1>1, <1>4 DEF TypeOK
<1>8. Driven'
  <2>1. \A h \in Frame : st'[h] # "final"
    BY <1>0, <1>2, <1>5 DEF Driven
  <2>2. st'[f] = "gone"
    BY <1>5
  <2> QED BY <1>0, <1>1, <1>2, <2>1, <2>2 DEF Driven
<1> QED BY <1>4, <1>6, <1>7, <1>8 DEF IInv, Chains

\* Steps that leave the frames alone.
LEMMA OthersIInv ==
  ASSUME IInv,
         \/ Cancel
         \/ \E th \in Thread : NotifyOne(th)
         \/ \E w \in Worker : WorkerResumes(w)
         \/ UNCHANGED vars
  PROVE  IInv'
<1>0. TypeOK /\ Placed /\ Chains /\ Counted
  BY DEF IInv
<1>1. UNCHANGED <<pooled, st, kind, next, ctx, rc, block, shell, suspends>>
  BY DEF Cancel, NotifyOne, WorkerResumes, vars
<1>2. Chains' /\ Counted'
  <2>1. \A h \in Frame : /\ Started(h)' <=> Started(h)
                         /\ StartedTask(h)' <=> StartedTask(h)
    BY <1>1 DEF Started, StartedTask
  <2>2. Links' /\ Driven'
    BY <1>0, <1>1, <2>1 DEF Chains, Links, Blank, InOrder, Back, Owned, OwnedOnce, Driven
  <2>3. Paths'
    BY <1>0, <1>1, <2>1 DEF Chains, Paths, InContext, Awaited, AwaitedOnce, Awaits, Leaf
  <2>4. \A e \in Frame : Holders(e)' = Holders(e)
    BY <1>1 DEF Holders, Live
  <2> QED BY <1>0, <1>1, <2>2, <2>3, <2>4, CountStay DEF Chains
<1>3. stopped' \in BOOLEAN /\ notifying' \subseteq Thread
  BY <1>0 DEF Cancel, NotifyOne, WorkerResumes, vars, TypeOK
<1>4. Placed' /\ stack' \in [Thread -> Seq(Frame)] /\ queue' \in Seq(Frame)
  <2>1. ASSUME NEW w \in Worker, WorkerResumes(w)
        PROVE  Placed' /\ stack' \in [Thread -> Seq(Frame)] /\ queue' \in Seq(Frame)
    <3>1. w \in Thread /\ stack[w] = <<>>
      BY <2>1 DEF WorkerResumes, Free, Thread
    <3> QED BY <1>0, <2>1, <3>1, PlacedTake DEF WorkerResumes
  <2>2. CASE UNCHANGED <<stack, queue>>
    BY <1>0, <1>1, <2>2, PlacedStay DEF TypeOK
  <2> QED BY <2>1, <2>2 DEF Cancel, NotifyOne, vars
<1>5. TypeOK'
  BY <1>0, <1>1, <1>3, <1>4 DEF TypeOK
<1> QED BY <1>2, <1>4, <1>5 DEF IInv

-----------------------------------------------------------------------------
(* Theorems.                                                               *)

(***************************************************************************)
(* Every step of the threads keeps frames placed once, chains linear and   *)
(* counts exact (task.h, block.h, detach.h, context.h, rc.h).              *)
(***************************************************************************)
THEOREM Invariance == Spec => []IInv
<1>1. ASSUME IInv, [Next]_vars PROVE IInv'
  <2> USE <1>1
  <2>0. User \in Thread
    BY DEF Thread
  <2>1. CASE \E f \in Frame : Block(f)
    BY <2>1, BlockIInv
  <2>2. CASE \E d \in Frame : Detach(d)
    BY <2>0, <2>2, DetachIInv DEF Detach
  <2>3. CASE \E f \in Frame : Wake(f)
    BY <2>3, WakeIInv
  <2>4. CASE BlockReturns
    BY <2>4, BlockReturnsIInv
  <2>5. ASSUME NEW th \in Thread, Runs(th) PROVE IInv'
    <3>1. CASE \E f, g \in Frame : Await(th, f, g)
      BY <3>1, AwaitIInv
    <3>2. CASE \E f, g \in Frame : Yield(th, f, g)
      BY <3>2, DetachIInv DEF Yield
    <3>3. CASE \E f \in Frame : Suspend(th, f)
      BY <3>3, SuspendIInv
    <3>4. CASE Ends(th)
      BY <3>4, FinishTaskIInv, FinishDetachedIInv DEF Ends
    <3>5. CASE NotifyOne(th)
      BY <3>5, OthersIInv
    <3> QED BY <2>5, <3>1, <3>2, <3>3, <3>4, <3>5 DEF Runs
  <2>6. CASE Cancel \/ (\E w \in Worker : WorkerResumes(w)) \/ UNCHANGED vars
    BY <2>6, OthersIInv
  <2> QED BY <2>1, <2>2, <2>3, <2>4, <2>5, <2>6 DEF Next
<1> QED BY <1>1, InitIInv, PTL DEF Spec

LEMMA FrameCount == NFrames \in Nat /\ IsFiniteSet(Frame) /\ Cardinality(Frame) = NFrames
<1>1. NFrames \in Nat
  BY FramesAssumption
<1>2. 1 \in Int /\ NFrames \in Int
  BY <1>1
<1> QED BY <1>1, <1>2, FS_Interval DEF Frame

\* A stack holds a frame once, so it is no deeper than there are frames.
LEMMA StackBounded ==
  ASSUME TypeOK, OncePlaced, NEW th \in Thread
  PROVE  Len(stack[th]) <= Cardinality(Frame)
<1>1. NFrames \in Nat /\ IsFiniteSet(Frame) /\ Cardinality(Frame) = NFrames
  BY FrameCount
<1>2. stack[th] \in Seq(Frame)
  BY DEF TypeOK
<1> DEFINE n == Len(stack[th])
<1>3. n \in Nat /\ stack[th] \in [1..n -> Frame]
  BY <1>2
<1>4. \A i, j \in 1..n : stack[th][i] = stack[th][j] => i = j
  BY DEF OncePlaced
<1> HIDE DEF n
<1>5. IsFiniteSet(1..n) /\ Cardinality(1..n) = n
  BY <1>3, FS_Interval
<1>6. ASSUME Cardinality(Frame) < n PROVE FALSE
  BY <1>1, <1>3, <1>4, <1>5, <1>6, FS_PigeonHole
<1> QED BY <1>1, <1>3, <1>6 DEF n

\* A running frame is in exactly one of the places that can run it.
LEMMA RunsOnce ==
  ASSUME TypeOK, Placed, NEW f \in Frame, st[f] = "running"
  PROVE  Cardinality(Places(f)) + Cardinality(Queued(f)) = 1
<1>0. Cardinality({}) = 0 /\ \A x : Cardinality({x}) = 1
  BY FS_EmptySet, FS_Singleton
<1>1. Cardinality(Frame) \in Nat /\ \A u \in Thread : Len(stack[u]) \in Nat
  <2>1. \A u \in Thread : Len(stack[u]) \in Nat
    BY DEF TypeOK
  <2> QED BY <2>1, FrameCount
<1>2. CASE \E th \in Thread : \E i \in 1..Len(stack[th]) : stack[th][i] = f
  <2>0. PICK th \in Thread : \E i \in 1..Len(stack[th]) : stack[th][i] = f
    BY <1>2
  <2>1. PICK i \in 1..Len(stack[th]) : stack[th][i] = f
    BY <2>0
  <2>2. Queued(f) = {}
    BY <2>1 DEF Queued, Placed, OncePlaced
  <2>3. Cardinality(Frame) \in Nat /\ Len(stack[th]) \in Nat /\ Len(stack[th]) <= Cardinality(Frame)
    BY <1>1, StackBounded DEF Placed
  <2>4. <<th, i>> \in Places(f)
    BY <2>1, <2>3 DEF Places
  <2>5. ASSUME NEW p \in Places(f) PROVE p = <<th, i>>
    <3>1. /\ p \in Thread \X (1..Cardinality(Frame)) /\ p = <<p[1], p[2]>>
          /\ p[1] \in Thread /\ p[2] \in 1..Cardinality(Frame)
          /\ p[2] <= Len(stack[p[1]]) /\ stack[p[1]][p[2]] = f
      BY DEF Places
    <3>2. Len(stack[p[1]]) \in Nat
      BY <1>1, <3>1
    <3>3. p[2] \in 1..Len(stack[p[1]])
      BY <1>1, <3>1, <3>2
    <3>4. p[1] = th /\ p[2] = i
      BY <2>1, <3>1, <3>3 DEF Placed, OncePlaced
    <3> QED BY <3>1, <3>4
  <2>6. Places(f) = {<<th, i>>}
    BY <2>4, <2>5
  <2>7. Cardinality(Places(f)) = 1 /\ Cardinality(Queued(f)) = 0
    BY <1>0, <2>2, <2>6
  <2> QED BY <2>7
<1>3. CASE ~ \E th \in Thread : \E i \in 1..Len(stack[th]) : stack[th][i] = f
  <2>1. Places(f) = {}
    <3> SUFFICES ASSUME NEW p \in Places(f) PROVE FALSE
      OBVIOUS
    <3>1. /\ p[1] \in Thread /\ p[2] \in 1..Cardinality(Frame)
          /\ p[2] <= Len(stack[p[1]]) /\ stack[p[1]][p[2]] = f
      BY DEF Places
    <3>2. Cardinality(Frame) \in Nat /\ Len(stack[p[1]]) \in Nat
      BY <1>1, <3>1
    <3>3. p[2] \in 1..Len(stack[p[1]])
      BY <3>1, <3>2
    <3> QED BY <1>3, <3>1, <3>3
  <2>2. PICK i \in 1..Len(queue) : queue[i] = f
    BY <1>3 DEF Placed, Somewhere
  <2>3. Queued(f) = {i}
    BY <2>2 DEF Queued, Placed, OncePlaced
  <2>4. Cardinality(Places(f)) = 0 /\ Cardinality(Queued(f)) = 1
    BY <1>0, <2>1, <2>3
  <2> QED BY <2>4
<1> QED BY <1>2, <1>3

(***************************************************************************)
(* A frame is resumed by one thread at a time and never once it is         *)
(* destroyed, and the frame or shell a task continues with is still there  *)
(* (block.h 48-52, detach.h 37-41, task.h 225-233).                        *)
(***************************************************************************)
THEOREM FramesSoundHolds == Spec => []FramesSound
<1>1. ASSUME IInv PROVE FramesSound
  <2>0. TypeOK /\ Placed /\ Paths /\ Driven
    BY <1>1 DEF IInv, Chains
  <2> SUFFICES ASSUME NEW f \in Frame
               PROVE  /\ st[f] = "running" =>
                           Cardinality(Places(f)) + Cardinality(Queued(f)) = 1
                      /\ st[f] # "running" => Places(f) = {} /\ Queued(f) = {}
                      /\ Live(f) /\ kind[f] = "task" /\ st[f] # "initial" =>
                           IF next[f] = Shell THEN shell \in {"initial", "final"}
                           ELSE next[f] \in Frame /\ st[next[f]] = "child"
    BY <2>0 DEF FramesSound
  <2>1. st[f] = "running" => Cardinality(Places(f)) + Cardinality(Queued(f)) = 1
    BY <2>0, RunsOnce
  <2>2. ASSUME st[f] # "running" PROVE Places(f) = {} /\ Queued(f) = {}
    <3>1. ASSUME NEW p \in Places(f) PROVE FALSE
      <4>1. /\ p[1] \in Thread /\ p[2] \in 1..Cardinality(Frame)
            /\ p[2] <= Len(stack[p[1]]) /\ stack[p[1]][p[2]] = f
        BY DEF Places
      <4>2. Cardinality(Frame) \in Nat /\ Len(stack[p[1]]) \in Nat
        <5>1. Len(stack[p[1]]) \in Nat
          BY <2>0, <4>1 DEF TypeOK
        <5> QED BY <5>1, FrameCount
      <4>3. p[2] \in 1..Len(stack[p[1]])
        BY <4>1, <4>2
      <4> QED BY <2>0, <2>2, <4>1, <4>3 DEF Placed, OnlyRunning
    <3>2. Queued(f) = {}
      BY <2>0, <2>2 DEF Queued, Placed, OnlyRunning
    <3> QED BY <3>1, <3>2
  <2>3. ASSUME Live(f), kind[f] = "task", st[f] # "initial"
        PROVE  IF next[f] = Shell THEN shell \in {"initial", "final"}
               ELSE next[f] \in Frame /\ st[next[f]] = "child"
    <3>1. StartedTask(f)
      BY <2>0, <2>3 DEF TypeOK, Live, StartedTask, Started
    <3>2. CASE next[f] = Shell
      <4>1. block # "idle" /\ (block = "returned" => st[f] = "gone") /\ st[f] # "gone"
        BY <2>0, <2>3, <3>2 DEF Driven, Live
      <4>2. block = "driving"
        BY <2>0, <4>1 DEF TypeOK
      <4> QED BY <2>0, <3>2, <4>2 DEF Driven
    <3> QED BY <2>0, <3>1, <3>2 DEF Paths, Awaited
  <2> QED BY <2>1, <2>2, <2>3
<1> QED BY <1>1, Invariance, PTL

(***************************************************************************)
(* The plain integer in Rc is exact and two threads never hold frames of   *)
(* one context at once, which is what lets it be plain (rc.h 37-62).       *)
(***************************************************************************)
THEOREM ContextsSoundHolds == Spec => []ContextsSound
<1>1. ASSUME IInv PROVE ContextsSound
  <2>0. TypeOK /\ Placed /\ Leaf /\ Counted
    BY <1>1 DEF IInv, Chains, Paths
  <2>1. \A c \in Frame : rc[c] = Cardinality({f \in Frame : Live(f) /\ ctx[f] = c})
    BY <2>0 DEF Counted, Holders
  <2>2. ASSUME NEW th \in Thread, NEW u \in Thread, th # u,
               NEW f \in Executing(th), NEW g \in Executing(u)
        PROVE  ctx[f] # ctx[g]
    <3>1. PICK i \in 1..Len(stack[th]) : f = stack[th][i]
      BY DEF Executing
    <3>2. PICK j \in 1..Len(stack[u]) : g = stack[u][j]
      BY DEF Executing
    <3>3. f \in Frame /\ g \in Frame /\ st[f] = "running" /\ st[g] = "running"
      BY <2>0, <3>1, <3>2 DEF TypeOK, Placed, OnlyRunning
    <3>4. f # g
      BY <2>0, <2>2, <3>1, <3>2 DEF Placed, OncePlaced
    <3> QED BY <2>0, <3>3, <3>4 DEF Leaf, Started
  <2> QED BY <2>1, <2>2 DEF ContextsSound
<1> QED BY <1>1, Invariance, PTL

(***************************************************************************)
(* When no thread, queue or signal can resume anything, no frame and no    *)
(* context is left: a frame that awaits another always has a later one     *)
(* behind it, so the last frame would await nothing (task.h 64-97,         *)
(* detach.h 37-41, block.h 48-77).                                         *)
(***************************************************************************)
THEOREM NothingLeaksHolds == Spec => []NothingLeaks
<1>1. ASSUME IInv PROVE NothingLeaks
  <2> SUFFICES ASSUME \A th \in Thread : Free(th) /\ queue = <<>>,
                      \A f \in Frame : st[f] # "io",
                      shell # "final"
               PROVE  \A f \in Frame : st[f] \in {"none", "gone"} /\ rc[f] = 0
    BY DEF NothingLeaks
  <2>0. TypeOK /\ Placed /\ Links /\ Paths /\ Driven /\ Counted
    BY <1>1 DEF IInv, Chains
  <2>1. (\A th \in Thread : stack[th] = <<>>) /\ queue = <<>>
    BY DEF Free, Thread
  <2>2. \A f \in Frame : st[f] # "running"
    <3>1. (\A th \in Thread : Len(stack[th]) = 0) /\ Len(queue) = 0
      BY <2>1
    <3>2. ASSUME NEW f \in Frame, st[f] = "running" PROVE FALSE
      BY <2>0, <3>1, <3>2 DEF Placed, Somewhere
    <3> QED BY <3>2
  <2>3. \A f \in Frame : st[f] # "final"
    <3>1. ASSUME NEW f \in Frame, st[f] = "final" PROVE FALSE
      <4>1. next[f] = Shell
        BY <2>0, <3>1 DEF Driven
      <4>2. block = "driving"
        BY <2>0, <3>1, <4>1 DEF Driven, TypeOK
      <4> QED BY <2>0, <3>1, <4>1, <4>2 DEF Driven
    <3> QED BY <3>1
  <2>4. \A f \in Frame : st[f] # "initial"
    BY <2>0, <2>2 DEF Links, Owned
  <2> DEFINE T == {f \in Frame : st[f] = "child"}
  <2>5. T = {}
    <3> SUFFICES ASSUME T # {} PROVE FALSE
      OBVIOUS
    <3>1. PICK f \in T : \A g \in T : g <= f
      BY LastFrame
    <3>2. PICK g \in Frame : StartedTask(g) /\ next[g] = f
      BY <2>0, <3>1 DEF Paths, Awaits
    <3>3. g \in T
      BY <2>2, <2>3, <3>2 DEF StartedTask, Started
    <3>4. f < g
      BY <2>0, <3>1, <3>2 DEF Links, Back
    <3> QED BY <3>1, <3>3, <3>4 DEF Frame
  <2>6. \A f \in Frame : st[f] \in {"none", "gone"}
    BY <2>0, <2>2, <2>3, <2>4, <2>5 DEF TypeOK
  <2>7. \A f \in Frame : Holders(f) = {}
    BY <2>6 DEF Holders, Live
  <2>8. \A f \in Frame : rc[f] = 0
    BY <2>0, <2>7, FS_EmptySet DEF Counted
  <2> QED BY <2>6, <2>8
<1> QED BY <1>1, Invariance, PTL
=============================================================================
