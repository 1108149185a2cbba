----------------------------- MODULE KernelInv -----------------------------
(***************************************************************************)
(* The invariant of the kernel and, for every operator of Kernel, the      *)
(* theorem that it preserves it.  VMThreadTerminate marks its thread DEAD  *)
(* before it releases its mutexes and flushes it from its ready queue: in  *)
(* between, the invariant holds but for that thread, the parameter dying.  *)
(***************************************************************************)
EXTENDS Kernel, Loops, SequenceTheorems, TLAPS

-----------------------------------------------------------------------------
(* Queues and vectors                                                      *)

\* push_back and push add one element.
LEMMA AppendElems ==
  ASSUME NEW S, NEW q \in Seq(S), NEW x \in S
  PROVE  /\ Append(q, x) \in Seq(S)
         /\ Elems(Append(q, x)) = Elems(q) \cup {x}
<1>1. Append(q, x) \in Seq(S) /\ DOMAIN Append(q, x) = 1 .. Len(q) + 1
  BY AppendProperties
<1>2. \A i \in 1 .. Len(q) : Append(q, x)[i] = q[i]
  BY AppendProperties
<1>3. Append(q, x)[Len(q) + 1] = x
  BY AppendProperties
<1>4. DOMAIN q = 1 .. Len(q) /\ Len(q) \in Nat
  BY LenProperties
<1>5. Elems(Append(q, x)) \subseteq Elems(q) \cup {x}
  BY <1>1, <1>2, <1>3, <1>4 DEF Elems
<1>6. Elems(q) \subseteq Elems(Append(q, x))
  BY <1>1, <1>2, <1>4 DEF Elems
<1>7. x \in Elems(Append(q, x))
  BY <1>1, <1>3, <1>4 DEF Elems
<1> QED BY <1>1, <1>5, <1>6, <1>7

\* pop removes the head, which may still be elsewhere in the queue.
LEMMA TailElems ==
  ASSUME NEW S, NEW q \in Seq(S), q # << >>
  PROVE  /\ Head(q) \in S
         /\ Tail(q) \in Seq(S)
         /\ Elems(q) = Elems(Tail(q)) \cup {Head(q)}
<1>1. /\ Head(q) \in S /\ Head(q) = q[1] /\ Len(q) \in Nat \ {0}
      /\ Tail(q) \in Seq(S) /\ Len(Tail(q)) = Len(q) - 1
      /\ \A i \in 1 .. Len(Tail(q)) : Tail(q)[i] = q[i + 1]
  BY HeadTailProperties, LenProperties, EmptySeq
<1>2. DOMAIN q = 1 .. Len(q) /\ DOMAIN Tail(q) = 1 .. Len(q) - 1
  BY <1>1, LenProperties
<1>3. Elems(Tail(q)) \cup {Head(q)} \subseteq Elems(q)
  BY <1>1, <1>2 DEF Elems
<1>4. ASSUME NEW i \in DOMAIN q PROVE q[i] \in Elems(Tail(q)) \cup {Head(q)}
  <2>1. CASE i = 1
    BY <2>1, <1>1
  <2>2. CASE i # 1
    <3>1. i - 1 \in DOMAIN Tail(q) /\ Tail(q)[i - 1] = q[i]
      BY <2>2, <1>1, <1>2
    <3> QED BY <3>1 DEF Elems
  <2> QED BY <2>1, <2>2
<1> QED BY <1>1, <1>3, <1>4 DEF Elems

\* Erasing one of distinct elements leaves the others, still distinct.
LEMMA EraseElems ==
  ASSUME NEW S, NEW q \in Seq(S), NEW k \in 1 .. Len(q),
         \A i, j \in 1 .. Len(q) : q[i] = q[j] => i = j
  PROVE  /\ Erase(q, k) \in Seq(S)
         /\ Elems(Erase(q, k)) = Elems(q) \ {q[k]}
         /\ Len(Erase(q, k)) = Len(q) - 1
         /\ \A i, j \in 1 .. Len(Erase(q, k)) :
              Erase(q, k)[i] = Erase(q, k)[j] => i = j
<1> DEFINE e == Erase(q, k)
<1>1. Len(q) \in Nat /\ DOMAIN q = 1 .. Len(q) /\ \A i \in 1 .. Len(q) : q[i] \in S
  BY LenProperties, ElementOfSeq
<1>2. /\ DOMAIN e = 1 .. Len(q) - 1
      /\ \A j \in 1 .. Len(q) - 1 : e[j] = IF j < k THEN q[j] ELSE q[j + 1]
  BY DEF Erase
<1>3. e \in Seq(S) /\ Len(e) = Len(q) - 1
  <2>1. e \in [1 .. Len(q) - 1 -> S]
    BY <1>1 DEF Erase
  <2>2. Len(q) - 1 \in Nat
    BY <1>1
  <2> HIDE DEF e
  <2>3. e \in Seq(S)
    BY <2>1, <2>2, SeqDef
  <2> QED BY <2>3, <2>2, <1>2, LenProperties
<1>4. ASSUME NEW j \in 1 .. Len(q) - 1 PROVE e[j] \in Elems(q) \ {q[k]}
  <2>1. CASE j < k
    BY <2>1, <1>1, <1>2 DEF Elems
  <2>2. CASE ~ (j < k)
    <3>1. j + 1 \in 1 .. Len(q) /\ j + 1 # k
      BY <2>2, <1>1
    <3>2. e[j] = q[j + 1]
      BY <2>2, <1>2
    <3> HIDE DEF e
    <3> QED BY <3>1, <3>2, <1>1 DEF Elems
  <2> QED BY <2>1, <2>2
<1>5. ASSUME NEW i \in 1 .. Len(q), i # k PROVE q[i] \in Elems(e)
  <2>1. CASE i < k
    <3>1. i \in 1 .. Len(q) - 1 /\ e[i] = q[i]
      BY <2>1, <1>1, <1>2
    <3> HIDE DEF e
    <3> QED BY <3>1, <1>2 DEF Elems
  <2>2. CASE ~ (i < k)
    <3>1. i - 1 \in 1 .. Len(q) - 1 /\ ~ (i - 1 < k)
      BY <2>2, <1>1, <1>5
    <3>2. e[i - 1] = q[(i - 1) + 1]
      BY <3>1, <1>2
    <3> HIDE DEF e
    <3> QED BY <3>1, <3>2, <1>2 DEF Elems
  <2> QED BY <2>1, <2>2
<1>6. ASSUME NEW i \in 1 .. Len(q) - 1, NEW j \in 1 .. Len(q) - 1, e[i] = e[j]
      PROVE  i = j
  BY <1>1, <1>2, <1>6
<1>7. Elems(e) = Elems(q) \ {q[k]}
  <2> HIDE DEF e
  <2>1. Elems(e) \subseteq Elems(q) \ {q[k]}
    BY <1>4, <1>2 DEF Elems
  <2>2. Elems(q) \ {q[k]} \subseteq Elems(e)
    BY <1>5, <1>1 DEF Elems
  <2> QED BY <2>1, <2>2
<1> QED BY <1>3, <1>6, <1>7

\* The loop of Without, up to round n.
WithoutLoop(kept, q, x, n) ==
  [i \in 0 .. n |->
     IF i = 0 THEN << >>
     ELSE IF q[i] = x THEN kept[i - 1] ELSE Append(kept[i - 1], q[i])]

\* The loop of Without is a function: it has a value after every round.
LEMMA WithoutLoopExists ==
  ASSUME NEW q, NEW x, NEW n \in Nat
  PROVE  \E kept : kept = WithoutLoop(kept, q, x, n)
<1> DEFINE Inv == {k \in 0 .. n : \E f : f = WithoutLoop(f, q, x, k)}
<1>1. 0 \in Inv
  <2>1. [i \in 0 .. 0 |-> << >>] = WithoutLoop([i \in 0 .. 0 |-> << >>], q, x, 0)
    BY DEF WithoutLoop
  <2> QED BY <2>1
<1>2. ASSUME NEW k \in 0 .. n - 1, k \in Inv PROVE k + 1 \in Inv
  <2>1. PICK f : f = WithoutLoop(f, q, x, k)
    BY <1>2
  <2> DEFINE g == [i \in 0 .. k + 1 |->
                     IF i = k + 1
                     THEN IF q[i] = x THEN f[k] ELSE Append(f[k], q[i])
                     ELSE f[i]]
  <2>2. ASSUME NEW i \in 0 .. k + 1
        PROVE  g[i] = WithoutLoop(g, q, x, k + 1)[i]
    <3>1. CASE i = k + 1
      BY <3>1 DEF WithoutLoop
    <3>2. CASE i # k + 1
      <4>1. i \in 0 .. k
        BY <3>2
      <4>2. f[i] = WithoutLoop(f, q, x, k)[i]
        BY <2>1
      <4>3. i = 0 \/ (i - 1 \in 0 .. k /\ i - 1 # k + 1)
        BY <4>1
      <4> QED BY <4>1, <4>2, <4>3, <3>2 DEF WithoutLoop
    <3> QED BY <3>1, <3>2
  <2>3. g = WithoutLoop(g, q, x, k + 1)
    BY <2>2 DEF WithoutLoop
  <2>4. k + 1 \in 0 .. n
    OBVIOUS
  <2> HIDE DEF g
  <2> QED BY <2>3, <2>4
<1>3. n \in Inv
  <2> HIDE DEF Inv
  <2> QED BY <1>1, <1>2, Rounds
<1> QED BY <1>3

\* After every round of the loop of Without: what is kept so far.
LEMMA WithoutRounds ==
  ASSUME NEW q, Len(q) \in Nat, NEW x
  PROVE  \E R : /\ Without(q, x) = R[Len(q)]
                /\ R[0] = << >>
                /\ \A i \in 1 .. Len(q) :
                     R[i] = IF q[i] = x THEN R[i - 1] ELSE Append(R[i - 1], q[i])
<1> DEFINE R == CHOOSE f : f = WithoutLoop(f, q, x, Len(q))
<1>1. R = WithoutLoop(R, q, x, Len(q))
  BY WithoutLoopExists
<1>2. Without(q, x) = R[Len(q)]
  BY DEF Without, WithoutLoop
<1> HIDE DEF R
<1>3. WithoutLoop(R, q, x, Len(q))[0] = << >>
  BY DEF WithoutLoop
<1>4. \A i \in 1 .. Len(q) :
        WithoutLoop(R, q, x, Len(q))[i] =
          IF q[i] = x THEN R[i - 1] ELSE Append(R[i - 1], q[i])
  BY DEF WithoutLoop
<1>5. /\ R[0] = << >>
      /\ \A i \in 1 .. Len(q) :
           R[i] = IF q[i] = x THEN R[i - 1] ELSE Append(R[i - 1], q[i])
  BY <1>1, <1>3, <1>4
<1> QED BY <1>2, <1>5

\* The flush leaves the elements other than x, whatever their multiplicity.
LEMMA WithoutElems ==
  ASSUME NEW S, NEW q \in Seq(S), NEW x
  PROVE  /\ Without(q, x) \in Seq(S)
         /\ Elems(Without(q, x)) = Elems(q) \ {x}
<1>1. Len(q) \in Nat /\ DOMAIN q = 1 .. Len(q) /\ \A i \in 1 .. Len(q) : q[i] \in S
  BY LenProperties, ElementOfSeq
<1>2. PICK R : /\ Without(q, x) = R[Len(q)]
               /\ R[0] = << >>
               /\ \A i \in 1 .. Len(q) :
                    R[i] = IF q[i] = x THEN R[i - 1] ELSE Append(R[i - 1], q[i])
  BY <1>1, WithoutRounds
<1> DEFINE First(i) == {q[j] : j \in 1 .. i}
           Inv == {i \in 0 .. Len(q) : /\ R[i] \in Seq(S)
                                       /\ Elems(R[i]) = First(i) \ {x}}
<1>4. 0 \in Inv
  <2>1. R[0] = << >>
    BY <1>2
  <2>3. First(0) = {}
    OBVIOUS
  <2>2. Elems(<< >>) = {} /\ << >> \in Seq(S)
    BY EmptySeq DEF Elems
  <2> HIDE DEF First
  <2>4. R[0] \in Seq(S) /\ Elems(R[0]) = First(0) \ {x}
    BY <2>1, <2>2, <2>3
  <2> QED BY <2>4, <1>1
<1>5. ASSUME NEW i \in 0 .. Len(q) - 1, i \in Inv PROVE i + 1 \in Inv
  <2>1. i + 1 \in 1 .. Len(q) /\ (i + 1) - 1 = i
    BY <1>1
  <2>2. R[i + 1] = IF q[i + 1] = x THEN R[i] ELSE Append(R[i], q[i + 1])
    BY <2>1, <1>2
  <2>3. First(i + 1) = First(i) \cup {q[i + 1]}
    BY <2>1
  <2>4. q[i + 1] \in S
    BY <2>1, <1>1
  <2>5. R[i] \in Seq(S) /\ Elems(R[i]) = First(i) \ {x}
    BY <1>5
  <2>6. /\ R[i + 1] \in Seq(S)
        /\ Elems(R[i + 1]) = First(i + 1) \ {x}
    <3> HIDE DEF First
    <3>1. CASE q[i + 1] = x
      BY <3>1, <2>2, <2>3, <2>5
    <3>2. CASE q[i + 1] # x
      <4>1. /\ Append(R[i], q[i + 1]) \in Seq(S)
            /\ Elems(Append(R[i], q[i + 1])) = Elems(R[i]) \cup {q[i + 1]}
        BY <2>4, <2>5, AppendElems
      <4> QED BY <4>1, <3>2, <2>2, <2>3, <2>5
    <3> QED BY <3>1, <3>2
  <2> QED BY <2>1, <2>6
<1>6. Len(q) \in Inv
  <2> HIDE DEF Inv
  <2> QED BY <1>1, <1>4, <1>5, Rounds
<1>7. First(Len(q)) = Elems(q)
  BY <1>1 DEF Elems
<1> QED BY <1>2, <1>6, <1>7

\* r is what is left of q when some elements go: the others keep their order.
Thinned(q, r) ==
  \E at \in [DOMAIN r -> DOMAIN q] :
    \A i, j \in DOMAIN r : r[i] = q[at[i]] /\ (i < j => at[i] < at[j])

\* Nothing goes.
LEMMA ThinNothing ==
  ASSUME NEW q
  PROVE  Thinned(q, q)
<1> DEFINE at == [i \in DOMAIN q |-> i]
<1>1. at \in [DOMAIN q -> DOMAIN q]
  OBVIOUS
<1>2. \A i, j \in DOMAIN q : q[i] = q[at[i]] /\ (i < j => at[i] < at[j])
  OBVIOUS
<1> QED BY <1>1, <1>2 DEF Thinned

\* What goes from what is left.
LEMMA ThinTwice ==
  ASSUME NEW q, NEW r, NEW s, Thinned(q, r), Thinned(r, s)
  PROVE  Thinned(q, s)
<1>1. PICK a \in [DOMAIN r -> DOMAIN q] :
        \A i, j \in DOMAIN r : r[i] = q[a[i]] /\ (i < j => a[i] < a[j])
  BY DEF Thinned
<1>2. PICK b \in [DOMAIN s -> DOMAIN r] :
        \A i, j \in DOMAIN s : s[i] = r[b[i]] /\ (i < j => b[i] < b[j])
  BY DEF Thinned
<1> DEFINE at == [i \in DOMAIN s |-> a[b[i]]]
<1>3. at \in [DOMAIN s -> DOMAIN q]
  OBVIOUS
<1>4. \A i, j \in DOMAIN s : s[i] = q[at[i]] /\ (i < j => at[i] < at[j])
  BY <1>1, <1>2
<1> HIDE DEF at
<1> QED BY <1>3, <1>4 DEF Thinned

\* No element is there twice.
Distinct(q) == \A i, j \in DOMAIN q : q[i] = q[j] => i = j

\* What is left of distinct elements is distinct.
LEMMA ThinDistinct ==
  ASSUME NEW S, NEW q \in Seq(S), NEW r \in Seq(S), Thinned(q, r), Distinct(q)
  PROVE  Distinct(r)
<1>1. PICK a \in [DOMAIN r -> DOMAIN q] :
        \A i, j \in DOMAIN r : r[i] = q[a[i]] /\ (i < j => a[i] < a[j])
  BY DEF Thinned
<1>2. DOMAIN r \subseteq Nat /\ DOMAIN q \subseteq Nat
  BY LenProperties
<1> SUFFICES ASSUME NEW i \in DOMAIN r, NEW j \in DOMAIN r, r[i] = r[j], i # j
             PROVE  FALSE
  BY DEF Distinct
<1>3. a[i] = a[j]
  BY <1>1 DEF Distinct
<1>4. i < j \/ j < i
  BY <1>2
<1>5. a[i] \in Nat /\ a[j] \in Nat
  BY <1>2
<1> QED BY <1>1, <1>3, <1>4, <1>5

\* The flush of x.
LEMMA WithoutThins ==
  ASSUME NEW S, NEW q \in Seq(S), NEW x
  PROVE  Thinned(q, Without(q, x))
<1> DEFINE n == Len(q)
<1>1. n \in Nat /\ DOMAIN q = 1 .. n /\ \A i \in 1 .. n : q[i] \in S
  BY LenProperties, ElementOfSeq
<1>2. PICK R : /\ Without(q, x) = R[n]
               /\ R[0] = << >>
               /\ \A i \in 1 .. n :
                    R[i] = IF q[i] = x THEN R[i - 1] ELSE Append(R[i - 1], q[i])
  BY <1>1, WithoutRounds
<1> DEFINE Upto(i, at) == /\ at \in [DOMAIN R[i] -> 1 .. i]
                          /\ \A j, k \in DOMAIN R[i] :
                               R[i][j] = q[at[j]] /\ (j < k => at[j] < at[k])
           Inv == {i \in 0 .. n : R[i] \in Seq(S) /\ \E at : Upto(i, at)}
<1>3. 0 \in Inv
  <2>1. R[0] \in Seq(S) /\ DOMAIN R[0] = {}
    BY <1>2, EmptySeq
  <2>2. Upto(0, [j \in {} |-> 0])
    BY <2>1
  <2> HIDE DEF Upto
  <2> QED BY <1>1, <2>1, <2>2
<1>4. ASSUME NEW i \in 0 .. n - 1, i \in Inv PROVE i + 1 \in Inv
  <2> DEFINE k == i + 1
             l == Len(R[i])
  <2>1. k \in 1 .. n /\ k \in 0 .. n /\ k - 1 = i /\ i \in Nat
    BY <1>1
  <2>2. R[i] \in Seq(S)
    BY <1>4
  <2>3. PICK at : Upto(i, at)
    BY <1>4
  <2>4. R[k] = IF q[k] = x THEN R[i] ELSE Append(R[i], q[k])
    BY <1>2, <2>1
  <2>5. l \in Nat /\ DOMAIN R[i] = 1 .. l
    BY <2>2, LenProperties
  <2> HIDE DEF k
  <2>6. CASE q[k] = x
    <3>1. R[k] = R[i]
      BY <2>4, <2>6
    <3>2. Upto(k, at)
      BY <2>1, <2>3, <3>1
    <3> HIDE DEF Upto
    <3> QED BY <2>1, <2>2, <3>1, <3>2 DEF k
  <2>7. CASE q[k] # x
    <3> DEFINE to == [j \in 1 .. l + 1 |-> IF j = l + 1 THEN k ELSE at[j]]
    <3>1. R[k] = Append(R[i], q[k]) /\ q[k] \in S
      BY <1>1, <2>1, <2>4, <2>7
    <3>2. R[k] \in Seq(S) /\ DOMAIN R[k] = 1 .. l + 1
      BY <2>2, <3>1, AppendProperties
    <3>3. R[k][l + 1] = q[k] /\ \A j \in 1 .. l : R[k][j] = R[i][j]
      BY <2>2, <3>1, AppendProperties
    <3>4. \A j \in 1 .. l : at[j] \in 1 .. i /\ at[j] < k
      BY <2>1, <2>3, <2>5
    <3>5. to \in [1 .. l + 1 -> 1 .. k]
      BY <2>1, <3>4
    <3>6. ASSUME NEW j \in 1 .. l + 1, NEW h \in 1 .. l + 1
          PROVE  R[k][j] = q[to[j]] /\ (j < h => to[j] < to[h])
      <4>1. R[k][j] = q[to[j]]
        BY <2>3, <2>5, <3>3
      <4>2. ASSUME j < h PROVE to[j] < to[h]
        <5>1. j \in 1 .. l /\ to[j] = at[j]
          BY <4>2, <2>5
        <5>2. CASE h = l + 1
          BY <5>1, <5>2, <3>4
        <5>3. CASE h # l + 1
          <6>1. h \in 1 .. l /\ to[h] = at[h]
            BY <5>3, <2>5
          <6>2. at[j] < at[h]
            BY <2>3, <2>5, <4>2, <5>1, <6>1
          <6> QED BY <5>1, <6>1, <6>2
        <5> QED BY <5>2, <5>3
      <4> QED BY <4>1, <4>2
    <3>7. Upto(k, to)
      BY <3>2, <3>5, <3>6
    <3> HIDE DEF Upto
    <3> QED BY <2>1, <3>2, <3>7 DEF k
  <2> QED BY <2>6, <2>7
<1>5. n \in Inv
  <2> HIDE DEF Inv, n
  <2> QED BY <1>1, <1>3, <1>4, Rounds
<1>6. PICK at : Upto(n, at)
  BY <1>5
<1> QED BY <1>1, <1>2, <1>6 DEF Thinned

-----------------------------------------------------------------------------
(* The invariant                                                           *)

Typed(s) == s \in VMState /\ \A t \in AppThread : s.ticks[t] >= -5

\* A ready thread is in its queue; what is in a queue is registered, has the
\* priority of the queue, and lives.
ReadyQueued(s) ==
  \A t \in Thread : s.state[t] = "READY" => t \in Elems(s.readyQ[s.prio[t]])

QueuedRunnable(s, dying) ==
  \A p \in Priority : \A t \in Elems(s.readyQ[p]) :
    /\ s.prio[t] = p
    /\ t \in Elems(s.threads)
    /\ t # dying => s.state[t] # "DEAD"

RunningIsTr(s) == \A t \in Thread : s.state[t] = "RUNNING" => t = s.tr

\* idle neither blocks nor dies.
IdleRuns(s) ==
  /\ s.prio[Idle] = VM_THREAD_PRIORITY_NIL
  /\ s.state[Idle] \in {"RUNNING", "READY"}

\* Threads outside of the vector are dead, and queues name no thread that
\* was never in it.
Registered(s) ==
  /\ Elems(s.threads) \cap s.freed = {}
  /\ \A t \in Thread : t \notin Elems(s.threads) => s.state[t] = "DEAD"
  /\ \A m \in Mutex : Elems(s.QTex[m]) \subseteq Elems(s.threads) \cup s.freed

HeldOwned(s) ==
  \A t \in Thread : \A m \in Elems(s.held[t]) : s.owner[m] = t /\ m \in s.mutexes

HeldOnce(s) ==
  \A t \in Thread : \A i, j \in 1 .. Len(s.held[t]) :
    s.held[t][i] = s.held[t][j] => i = j

HeldNotAwaited(s) ==
  \A t \in Thread : \A m \in Elems(s.held[t]) : t \notin Elems(s.QTex[m])

FreeUnqueued(s) == \A m \in Mutex : s.owner[m] = NULL => s.QTex[m] = << >>

DeadReleased(s, dying) ==
  \A t \in Thread : s.state[t] = "DEAD" /\ t # dying => s.held[t] = << >>

Dying(s, dying) == dying # NULL => s.state[dying] = "DEAD"

MutexInv(s) == HeldOwned(s) /\ HeldOnce(s) /\ HeldNotAwaited(s) /\ FreeUnqueued(s)

KernelInv(s, dying) ==
  /\ Typed(s)
  /\ ReadyQueued(s) /\ QueuedRunnable(s, dying)
  /\ RunningIsTr(s) /\ IdleRuns(s) /\ Registered(s)
  /\ MutexInv(s)
  /\ DeadReleased(s, dying) /\ Dying(s, dying)

-----------------------------------------------------------------------------
(* Ready queues                                                            *)

\* What membership in a set of sequences says of a queue.
LEMMA QueueType ==
  ASSUME NEW S, NEW q \in Seq(S)
  PROVE  /\ Elems(q) \subseteq S
         /\ DOMAIN q = 1 .. Len(q) /\ Len(q) \in Nat
         /\ Elems(q) = {} => q = << >>
<1>1. /\ DOMAIN q = 1 .. Len(q) /\ Len(q) \in Nat
      /\ \A i \in 1 .. Len(q) : q[i] \in S
  BY LenProperties, ElementOfSeq
<1>2. ASSUME Elems(q) = {} PROVE q = << >>
  <2>1. SUFFICES ASSUME Len(q) # 0 PROVE FALSE
    BY EmptySeq
  <2>2. 1 \in DOMAIN q
    BY <1>1, <2>1
  <2>3. q[1] \in Elems(q)
    BY <2>2 DEF Elems
  <2> QED BY <2>3, <1>2
<1> QED BY <1>1, <1>2 DEF Elems

\* Pushing a live thread on its ready queue and making it READY, whatever
\* else changes in the fields the invariant does not constrain.
LEMMA MakeReady ==
  ASSUME NEW s, NEW dying \in Thread \cup {NULL}, KernelInv(s, dying),
         NEW t \in Elems(s.threads), t # dying,
         NEW r \in VMState,
         r.state = [s.state EXCEPT ![t] = "READY"],
         r.readyQ = [s.readyQ EXCEPT ![s.prio[t]] = Append(@, t)],
         r.threads = s.threads, r.mutexes = s.mutexes, r.freed = s.freed,
         r.prio = s.prio, r.ticks = s.ticks, r.held = s.held,
         r.owner = s.owner, r.QTex = s.QTex, r.tr = s.tr
  PROVE  KernelInv(r, dying)
<1> DEFINE p == s.prio[t]
<1>1. s \in VMState /\ t \in Thread
  BY QueueType DEF KernelInv, Typed, VMState
<1>2. p \in Priority /\ s.readyQ[p] \in Seq(Thread)
  BY <1>1 DEF VMState
<1>3. r.readyQ[p] = Append(s.readyQ[p], t)
  BY <1>1, <1>2 DEF VMState
<1>4. Elems(r.readyQ[p]) = Elems(s.readyQ[p]) \cup {t}
  BY <1>1, <1>2, <1>3, AppendElems
<1>5. \A q \in Priority : q # p => r.readyQ[q] = s.readyQ[q]
  BY <1>1, <1>2 DEF VMState
<1>6. \A u \in Thread : r.state[u] = IF u = t THEN "READY" ELSE s.state[u]
  BY <1>1 DEF VMState
<1>7. \A u \in Thread : s.prio[u] \in Priority
  BY <1>1 DEF VMState
<1> HIDE DEF p
<1>8. Typed(r)
  BY DEF KernelInv, Typed
<1>9. ReadyQueued(r)
  BY <1>4, <1>5, <1>6, <1>7 DEF KernelInv, ReadyQueued, p
<1>10. QueuedRunnable(r, dying)
  BY <1>1, <1>2, <1>4, <1>5, <1>6, <1>7 DEF KernelInv, QueuedRunnable, p
<1>11. RunningIsTr(r) /\ IdleRuns(r)
  BY <1>6 DEF KernelInv, RunningIsTr, IdleRuns, Thread
<1>12. Registered(r) /\ DeadReleased(r, dying)
  BY <1>1, <1>6 DEF KernelInv, Registered, DeadReleased
<1>13. MutexInv(r)
  BY DEF KernelInv, MutexInv, HeldOwned, FreeUnqueued, HeldOnce, HeldNotAwaited
<1>14. Dying(r, dying)
  BY <1>6 DEF KernelInv, Dying
<1> QED BY <1>8, <1>9, <1>10, <1>11, <1>12, <1>13, <1>14 DEF KernelInv

\* A change of fields the invariant does not constrain.
LEMMA SameInv ==
  ASSUME NEW s, NEW dying, KernelInv(s, dying), NEW r \in VMState,
         r.state = s.state, r.readyQ = s.readyQ,
         r.threads = s.threads, r.mutexes = s.mutexes, r.freed = s.freed,
         r.prio = s.prio, r.ticks = s.ticks, r.held = s.held,
         r.owner = s.owner, r.QTex = s.QTex, r.tr = s.tr
  PROVE  KernelInv(r, dying)
<1>1. Typed(r) /\ ReadyQueued(r) /\ RunningIsTr(r) /\ IdleRuns(r)
  BY DEF KernelInv, Typed, ReadyQueued, RunningIsTr, IdleRuns
<1>2. QueuedRunnable(r, dying) /\ DeadReleased(r, dying) /\ Dying(r, dying)
  BY DEF KernelInv, QueuedRunnable, DeadReleased, Dying
<1>3. Registered(r) /\ MutexInv(r)
  BY DEF KernelInv, Registered, MutexInv, HeldOwned, HeldOnce, HeldNotAwaited, FreeUnqueued
<1> QED BY <1>1, <1>2, <1>3 DEF KernelInv

\* An undefined operation changes nothing else.
LEMMA UndefinedInv ==
  ASSUME NEW s, NEW dying, KernelInv(s, dying)
  PROVE  KernelInv(Undefined(s), dying)
<1> DEFINE r == Undefined(s)
<1>1. s \in VMState
  BY DEF KernelInv, Typed
<1>2. r \in VMState
  BY <1>1 DEF Undefined, VMState
<1>3. /\ r.state = s.state /\ r.readyQ = s.readyQ /\ r.threads = s.threads
      /\ r.mutexes = s.mutexes /\ r.freed = s.freed /\ r.prio = s.prio
      /\ r.ticks = s.ticks /\ r.held = s.held /\ r.owner = s.owner
      /\ r.QTex = s.QTex /\ r.tr = s.tr
  BY <1>1 DEF Undefined, VMState
<1> HIDE DEF r
<1>4. KernelInv(r, dying)
  BY <1>2, <1>3, SameInv
<1> QED BY <1>4 DEF r

\* PushReady after the state READY was set, from a state t with the same
\* fields otherwise.
LEMMA PushInv ==
  ASSUME NEW s, NEW dying \in Thread \cup {NULL}, KernelInv(s, dying),
         NEW t \in Elems(s.threads), t # dying
  PROVE  KernelInv(PushReady([s EXCEPT !.state[t] = "READY"], t), dying)
<1> DEFINE r == PushReady([s EXCEPT !.state[t] = "READY"], t)
<1>1. s \in VMState /\ t \in Thread
  BY QueueType DEF KernelInv, Typed, VMState
<1>2. Append(s.readyQ[s.prio[t]], t) \in Seq(Thread)
  <2>1. s.prio[t] \in Priority /\ s.readyQ[s.prio[t]] \in Seq(Thread)
    BY <1>1 DEF VMState
  <2> QED BY <1>1, <2>1, AppendElems
<1>3. r \in VMState
  BY <1>1, <1>2 DEF PushReady, VMState, ThreadState
<1>4. /\ r.state = [s.state EXCEPT ![t] = "READY"]
      /\ r.readyQ = [s.readyQ EXCEPT ![s.prio[t]] = Append(@, t)]
      /\ r.threads = s.threads /\ r.mutexes = s.mutexes /\ r.freed = s.freed
      /\ r.prio = s.prio /\ r.ticks = s.ticks /\ r.held = s.held
      /\ r.owner = s.owner /\ r.QTex = s.QTex /\ r.tr = s.tr
  BY <1>1 DEF PushReady, VMState
<1> HIDE DEF r
<1>5. KernelInv(r, dying)
  BY <1>3, <1>4, MakeReady
<1> QED BY <1>5 DEF r

-----------------------------------------------------------------------------
(* The scheduler                                                           *)

\* The running thread goes back to its queue, if it did not block or die:
\* after that no thread is RUNNING.
LEMMA RequeueInv ==
  ASSUME NEW s, KernelInv(s, NULL)
  PROVE  /\ KernelInv(Requeue(s), NULL)
         /\ \A t \in Thread : Requeue(s).state[t] # "RUNNING"
<1>1. s \in VMState
  BY DEF KernelInv, Typed
<1>2. CASE s.state[s.tr] = "RUNNING"
  <2>1. s.tr \in Elems(s.threads) /\ s.tr # NULL /\ s.tr \in Thread
    BY <1>1, <1>2, ObjectAssumption DEF KernelInv, Registered, VMState
  <2>2. Requeue(s) = PushReady([s EXCEPT !.state[s.tr] = "READY"], s.tr)
    BY <1>2 DEF Requeue
  <2>3. KernelInv(Requeue(s), NULL)
    BY <2>1, <2>2, PushInv
  <2>4. Requeue(s).state = [s.state EXCEPT ![s.tr] = "READY"]
    BY <1>1, <2>2 DEF PushReady, VMState
  <2>5. \A t \in Thread : Requeue(s).state[t] # "RUNNING"
    BY <1>1, <2>4, <2>1 DEF KernelInv, RunningIsTr, VMState
  <2> QED BY <2>3, <2>5
<1>3. CASE s.state[s.tr] # "RUNNING"
  BY <1>1, <1>3 DEF Requeue, KernelInv, RunningIsTr
<1> QED BY <1>2, <1>3

\* The tests of scheduler() find the highest queue that is not empty.
LEMMA HighestQueue ==
  ASSUME NEW s, NEW p \in Priority, s.readyQ[p] # << >>
  PROVE  /\ Highest(s) \in Priority
         /\ s.readyQ[Highest(s)] # << >>
         /\ \A q \in Priority : s.readyQ[q] # << >> => q <= Highest(s)
<1> DEFINE Top(h) == /\ s.readyQ[h] # << >>
                     /\ \A q \in Priority : s.readyQ[q] # << >> => q <= h
<1>1. Priority = {0, 1, 2, 3}
  BY DEF Priority, VM_THREAD_PRIORITY_NIL, VM_THREAD_PRIORITY_HIGH
<1>2. \E h \in Priority : Top(h)
  <2>1. CASE s.readyQ[3] # << >>
    BY <1>1, <2>1
  <2>2. CASE s.readyQ[3] = << >> /\ s.readyQ[2] # << >>
    BY <1>1, <2>2
  <2>3. CASE s.readyQ[3] = << >> /\ s.readyQ[2] = << >> /\ s.readyQ[1] # << >>
    BY <1>1, <2>3
  <2>4. CASE s.readyQ[3] = << >> /\ s.readyQ[2] = << >> /\ s.readyQ[1] = << >>
    BY <1>1, <2>4
  <2> QED BY <2>1, <2>2, <2>3, <2>4
<1>3. Highest(s) = CHOOSE h \in Priority : Top(h)
  BY DEF Highest
<1> HIDE DEF Top
<1>4. Highest(s) \in Priority /\ Top(Highest(s))
  BY <1>2, <1>3
<1> QED BY <1>4 DEF Top

\* The head of a queue that is not empty becomes the running thread.
LEMMA DispatchInv ==
  ASSUME NEW s, KernelInv(s, NULL), \A t \in Thread : s.state[t] # "RUNNING",
         NEW p \in Priority, s.readyQ[p] # << >>
  PROVE  LET r == Dispatch(s, p) IN
         /\ KernelInv(r, NULL)
         /\ r.tr \in Elems(s.readyQ[p])
         /\ r.state = [s.state EXCEPT ![r.tr] = "RUNNING"]
         /\ r.prio = s.prio
<1> DEFINE r == Dispatch(s, p)
           h == Head(s.readyQ[p])
<1>1. s \in VMState /\ s.readyQ[p] \in Seq(Thread)
  BY DEF KernelInv, Typed, VMState
<1>2. /\ h \in Thread /\ Tail(s.readyQ[p]) \in Seq(Thread)
      /\ Elems(s.readyQ[p]) = Elems(Tail(s.readyQ[p])) \cup {h}
  BY <1>1, TailElems
<1>3. /\ r.state = [s.state EXCEPT ![h] = "RUNNING"]
      /\ r.readyQ = [s.readyQ EXCEPT ![p] = Tail(@)]
      /\ r.tr = h
      /\ r.threads = s.threads /\ r.mutexes = s.mutexes /\ r.freed = s.freed
      /\ r.prio = s.prio /\ r.ticks = s.ticks /\ r.held = s.held
      /\ r.owner = s.owner /\ r.QTex = s.QTex
  BY <1>1 DEF Dispatch, VMState
<1>4. r \in VMState
  BY <1>1, <1>2 DEF Dispatch, VMState, ThreadState
<1> HIDE DEF r, h
<1>5. \A u \in Thread : r.state[u] = IF u = h THEN "RUNNING" ELSE s.state[u]
  BY <1>1, <1>2, <1>3 DEF VMState
<1>6. Elems(s.readyQ[p]) = Elems(r.readyQ[p]) \cup {h}
  BY <1>1, <1>2, <1>3 DEF VMState
<1>7. \A q \in Priority : q # p => r.readyQ[q] = s.readyQ[q]
  BY <1>1, <1>3 DEF VMState
<1>8. \A u \in Thread : s.prio[u] \in Priority
  BY <1>1 DEF VMState
<1>9. h \in Elems(s.threads)
  BY <1>6 DEF KernelInv, QueuedRunnable
<1>10. Typed(r)
  BY <1>3, <1>4 DEF KernelInv, Typed
<1>11. ReadyQueued(r)
  BY <1>3, <1>5, <1>6, <1>7, <1>8 DEF KernelInv, ReadyQueued
<1>12. QueuedRunnable(r, NULL)
  <2>1. ASSUME NEW q \in Priority, NEW t \in Elems(r.readyQ[q])
        PROVE  t \in Elems(s.readyQ[q])
    BY <2>1, <1>6, <1>7
  <2>2. \A q \in Priority : Elems(r.readyQ[q]) \subseteq Thread
    BY <1>4, QueueType DEF VMState
  <2> QED BY <2>1, <2>2, <1>3, <1>5 DEF KernelInv, QueuedRunnable
<1>13. RunningIsTr(r) /\ IdleRuns(r)
  BY <1>3, <1>5 DEF KernelInv, RunningIsTr, IdleRuns, Thread
<1>14. Registered(r) /\ DeadReleased(r, NULL) /\ Dying(r, NULL)
  BY <1>3, <1>5, <1>9 DEF KernelInv, Registered, DeadReleased, Dying
<1>15. MutexInv(r)
  BY <1>3 DEF KernelInv, MutexInv, HeldOwned, FreeUnqueued, HeldOnce, HeldNotAwaited
<1>16. KernelInv(r, NULL)
  BY <1>10, <1>11, <1>12, <1>13, <1>14, <1>15 DEF KernelInv
<1>17. r.tr \in Elems(s.readyQ[p]) /\ r.state = [s.state EXCEPT ![r.tr] = "RUNNING"]
  BY <1>3, <1>6
<1> QED BY <1>3, <1>16, <1>17 DEF r

\* scheduler() preserves the invariant, finds a thread to run, and it is one
\* that no ready thread outranks.
LEMMA SchedulerInv ==
  ASSUME NEW s, KernelInv(s, NULL)
  PROVE  LET r == Scheduler(s) IN
         /\ KernelInv(r, NULL)
         /\ r.state[r.tr] = "RUNNING"
         /\ \A t \in Thread : r.state[t] = "READY" => r.prio[t] <= r.prio[r.tr]
<1> DEFINE q == Requeue(s)
           r == Scheduler(s)
<1>1. KernelInv(q, NULL) /\ \A t \in Thread : q.state[t] # "RUNNING"
  BY RequeueInv
<1> HIDE DEF q
<1>2. q.readyQ[VM_THREAD_PRIORITY_NIL] # << >> /\ VM_THREAD_PRIORITY_NIL \in Priority
  <2>1. Idle \in Thread /\ q.state[Idle] = "READY"
    BY <1>1 DEF Thread, KernelInv, IdleRuns
  <2>2. Idle \in Elems(q.readyQ[VM_THREAD_PRIORITY_NIL])
    BY <1>1, <2>1 DEF KernelInv, ReadyQueued, IdleRuns
  <2>3. Elems(<< >>) = {}
    BY DEF Elems
  <2> QED BY <2>2, <2>3 DEF Priority, VM_THREAD_PRIORITY_NIL, VM_THREAD_PRIORITY_HIGH
<1>3. r = Dispatch(q, Highest(q))
  BY <1>2 DEF Scheduler, q
<1> DEFINE p == Highest(q)
<1>4. /\ p \in Priority /\ q.readyQ[p] # << >>
      /\ \A i \in Priority : q.readyQ[i] # << >> => i <= p
  BY <1>2, HighestQueue
<1> HIDE DEF p, r
<1>5. /\ KernelInv(r, NULL) /\ r.tr \in Elems(q.readyQ[p])
      /\ r.state = [q.state EXCEPT ![r.tr] = "RUNNING"] /\ r.prio = q.prio
  BY <1>1, <1>3, <1>4, DispatchInv DEF p
<1>6. q.state \in [Thread -> ThreadState] /\ r.tr \in Thread /\ q.prio \in [Thread -> Priority]
  BY <1>1, <1>5 DEF KernelInv, Typed, VMState
<1>7. r.state[r.tr] = "RUNNING" /\ r.prio[r.tr] = p
  BY <1>1, <1>4, <1>5, <1>6 DEF KernelInv, QueuedRunnable
<1>8. ASSUME NEW t \in Thread, r.state[t] = "READY" PROVE r.prio[t] <= p
  <2>1. q.state[t] = "READY"
    BY <1>5, <1>6, <1>8
  <2>2. t \in Elems(q.readyQ[q.prio[t]]) /\ q.prio[t] \in Priority
    BY <1>1, <1>6, <2>1 DEF KernelInv, ReadyQueued
  <2>3. q.readyQ[q.prio[t]] # << >>
    BY <2>2 DEF Elems
  <2> QED BY <2>2, <2>3, <1>4, <1>5
<1> QED BY <1>5, <1>7, <1>8 DEF r

-----------------------------------------------------------------------------
(* Mutexes                                                                 *)

\* From s to r, thread t gives up the mutex m it holds at k, which goes to
\* owner o with the queue q.
GivesUp(s, r, t, k, m, o, q) ==
  /\ m = s.held[t][k]
  /\ Elems(q) \subseteq Elems(s.QTex[m])
  /\ o = NULL => q = << >>
  /\ r.held = [s.held EXCEPT ![t] = Erase(@, k)]
  /\ r.owner = [s.owner EXCEPT ![m] = o]
  /\ r.QTex = [s.QTex EXCEPT ![m] = q]
  /\ r.state = s.state /\ r.readyQ = s.readyQ /\ r.threads = s.threads
  /\ r.mutexes = s.mutexes /\ r.freed = s.freed /\ r.prio = s.prio
  /\ r.ticks = s.ticks /\ r.tr = s.tr

\* Giving a mutex up, to a new owner or to nobody, preserves the invariant.
LEMMA GiveUpInv ==
  ASSUME NEW s, NEW dying \in Thread \cup {NULL}, KernelInv(s, dying),
         NEW t \in Thread, NEW k \in 1 .. Len(s.held[t]), NEW m,
         NEW o \in Thread \cup {NULL}, NEW q \in Seq(Thread),
         NEW r \in VMState, GivesUp(s, r, t, k, m, o, q)
  PROVE  KernelInv(r, dying)
<1> DEFINE e == Erase(s.held[t], k)
<1>1. s \in VMState /\ s.held[t] \in Seq(Mutex)
  BY DEF KernelInv, Typed, VMState
<1>2. /\ m \in Elems(s.held[t]) /\ m \in Mutex /\ s.owner[m] = t
      /\ m = s.held[t][k] /\ s.held[t] # << >>
  <2>1. DOMAIN s.held[t] = 1 .. Len(s.held[t]) /\ Len(s.held[t]) \in Nat
    BY <1>1, QueueType
  <2>2. s.held[t][k] \in Elems(s.held[t])
    BY <2>1 DEF Elems
  <2>3. m = s.held[t][k]
    BY DEF GivesUp
  <2>4. m \in Mutex
    BY <1>1, <2>2, <2>3, QueueType
  <2>5. s.held[t] # << >>
    BY <2>1, <2>2 DEF Elems
  <2> QED BY <2>2, <2>3, <2>4, <2>5 DEF KernelInv, MutexInv, HeldOwned
<1>3. /\ e \in Seq(Mutex) /\ Elems(e) = Elems(s.held[t]) \ {m}
      /\ \A i, j \in 1 .. Len(e) : e[i] = e[j] => i = j
  <2>1. \A i, j \in 1 .. Len(s.held[t]) : s.held[t][i] = s.held[t][j] => i = j
    BY DEF KernelInv, MutexInv, HeldOnce
  <2>2. /\ e \in Seq(Mutex) /\ Elems(e) = Elems(s.held[t]) \ {s.held[t][k]}
        /\ \A i, j \in 1 .. Len(e) : e[i] = e[j] => i = j
    BY <1>1, <2>1, EraseElems
  <2> QED BY <2>2, <1>2
<1> HIDE DEF e
<1>4. r.held[t] = e /\ \A u \in Thread : u # t => r.held[u] = s.held[u]
  BY <1>1 DEF VMState, GivesUp, e
<1>5. r.owner[m] = o /\ \A n \in Mutex : n # m => r.owner[n] = s.owner[n]
  <2>1. DOMAIN s.owner = Mutex
    BY <1>1 DEF VMState
  <2> QED BY <1>2, <2>1 DEF GivesUp
<1>6. r.QTex[m] = q /\ \A n \in Mutex : n # m => r.QTex[n] = s.QTex[n]
  BY <1>1, <1>2, SMTT(30) DEF VMState, GivesUp
<1>7. \A n \in Mutex : Elems(r.QTex[n]) \subseteq Elems(s.QTex[n])
  BY <1>6 DEF GivesUp
<1>8. \A u \in Thread : \A n \in Elems(r.held[u]) :
        n \in Elems(s.held[u]) /\ n # m /\ n \in Mutex
  <2> SUFFICES ASSUME NEW u \in Thread, NEW n \in Elems(r.held[u])
               PROVE  n \in Elems(s.held[u]) /\ n # m /\ n \in Mutex
    OBVIOUS
  <2>1. n \in Mutex
    BY QueueType DEF VMState
  <2>2. CASE u = t
    BY <2>1, <2>2, <1>3, <1>4
  <2>3. CASE u # t
    <3>1. n \in Elems(s.held[u])
      BY <2>3, <1>4
    <3>2. s.owner[n] = u
      BY <3>1 DEF KernelInv, MutexInv, HeldOwned
    <3> QED BY <3>1, <3>2, <2>1, <2>3, <1>2
  <2> QED BY <2>2, <2>3
<1>9. HeldOwned(r)
  BY <1>5, <1>8, SMTT(30) DEF KernelInv, MutexInv, HeldOwned, GivesUp
<1>10. HeldOnce(r)
  BY <1>3, <1>4 DEF KernelInv, MutexInv, HeldOnce
<1>11. HeldNotAwaited(r)
  BY <1>7, <1>8 DEF KernelInv, MutexInv, HeldNotAwaited
<1>12. FreeUnqueued(r)
  BY <1>5, <1>6 DEF KernelInv, MutexInv, FreeUnqueued, GivesUp
<1>13. DeadReleased(r, dying)
  BY <1>2, <1>4 DEF KernelInv, DeadReleased, GivesUp
<1>14. Registered(r)
  BY <1>7 DEF KernelInv, Registered, GivesUp
<1>15. Typed(r) /\ ReadyQueued(r) /\ RunningIsTr(r) /\ IdleRuns(r)
  BY DEF KernelInv, Typed, ReadyQueued, RunningIsTr, IdleRuns, GivesUp
<1>16. QueuedRunnable(r, dying) /\ Dying(r, dying)
  BY DEF KernelInv, QueuedRunnable, Dying, GivesUp
<1> QED BY <1>9, <1>10, <1>11, <1>12, <1>13, <1>14, <1>15, <1>16 DEF KernelInv, MutexInv

\* Releasing one mutex of t, whether it is free afterwards, goes to a waiter,
\* or its first waiter has been deleted.
LEMMA ReleaseAtInv ==
  ASSUME NEW s, NEW dying \in Thread \cup {NULL}, KernelInv(s, dying),
         NEW t \in Thread, dying = NULL \/ dying = t,
         NEW k \in 1 .. Len(s.held[t])
  PROVE  LET r == ReleaseAt(s, t, k) IN
         /\ KernelInv(r, dying)
         /\ r.held = [s.held EXCEPT ![t] = Erase(@, k)]
         /\ r.prio = s.prio
<1> DEFINE m == s.held[t][k]
           e == Erase(s.held[t], k)
           r == ReleaseAt(s, t, k)
<1>1. s \in VMState /\ s.held[t] \in Seq(Mutex)
  BY DEF KernelInv, Typed, VMState
<1>2. m \in Mutex /\ m \in Elems(s.held[t]) /\ s.owner[m] = t
  <2>1. DOMAIN s.held[t] = 1 .. Len(s.held[t])
    BY <1>1, QueueType
  <2>2. m \in Elems(s.held[t]) /\ m \in Mutex
    BY <1>1, <2>1, QueueType DEF Elems
  <2> QED BY <2>2 DEF KernelInv, MutexInv, HeldOwned
<1>3. e \in Seq(Mutex)
  <2>1. \A i, j \in 1 .. Len(s.held[t]) : s.held[t][i] = s.held[t][j] => i = j
    BY DEF KernelInv, MutexInv, HeldOnce
  <2> QED BY <1>1, <2>1, EraseElems
<1>4. /\ s.QTex[m] \in Seq(Thread) /\ s.QTex \in [Mutex -> Seq(Thread)]
      /\ s.owner \in [Mutex -> Thread \cup {NULL}]
  BY <1>1, <1>2 DEF VMState
<1>5. r = [Release(s, m) EXCEPT !.held[t] = Erase(@, k)]
  BY DEF ReleaseAt
<1>6. << >> \in Seq(Thread) /\ t \in Thread \cup {NULL} /\ m = s.held[t][k]
  BY EmptySeq
<1> HIDE DEF m, e, r
<1>7. CASE s.QTex[m] = << >>
  <2>1. r = [s EXCEPT !.owner[m] = NULL, !.held[t] = e]
    BY <1>1, <1>5, <1>7 DEF Release, VMState, e
  <2>2. r \in VMState
    BY <1>1, <1>2, <1>3, <2>1 DEF VMState
  <2>3. /\ r.held = [s.held EXCEPT ![t] = Erase(@, k)]
        /\ r.owner = [s.owner EXCEPT ![m] = NULL]
        /\ r.state = s.state /\ r.readyQ = s.readyQ /\ r.threads = s.threads
        /\ r.mutexes = s.mutexes /\ r.freed = s.freed /\ r.prio = s.prio
        /\ r.ticks = s.ticks /\ r.tr = s.tr /\ r.QTex = s.QTex
    BY <1>1, <2>1 DEF VMState, e
  <2>4. r.QTex = [s.QTex EXCEPT ![m] = << >>]
    BY <1>2, <1>4, <1>7, <2>3
  <2>5. Elems(<< >>) \subseteq Elems(s.QTex[m]) /\ NULL \in Thread \cup {NULL}
    BY DEF Elems
  <2>6. GivesUp(s, r, t, k, m, NULL, << >>)
    BY <1>6, <2>3, <2>4, <2>5 DEF GivesUp
  <2>7. KernelInv(r, dying)
    BY <1>6, <2>2, <2>5, <2>6, GiveUpInv
  <2> QED BY <2>3, <2>7 DEF r
<1>8. CASE s.QTex[m] # << >> /\ Head(s.QTex[m]) \in s.freed
  <2>1. r = [s EXCEPT !.halt = "undefined", !.held[t] = e]
    BY <1>1, <1>5, <1>8 DEF Release, Undefined, VMState, e
  <2>2. r \in VMState
    BY <1>1, <1>3, <2>1 DEF VMState
  <2>3. /\ r.held = [s.held EXCEPT ![t] = Erase(@, k)]
        /\ r.state = s.state /\ r.readyQ = s.readyQ /\ r.threads = s.threads
        /\ r.mutexes = s.mutexes /\ r.freed = s.freed /\ r.prio = s.prio
        /\ r.ticks = s.ticks /\ r.tr = s.tr
        /\ r.owner = s.owner /\ r.QTex = s.QTex
    BY <1>1, <2>1 DEF VMState, e
  <2>4. r.owner = [s.owner EXCEPT ![m] = t] /\ r.QTex = [s.QTex EXCEPT ![m] = s.QTex[m]]
    BY <1>2, <1>4, <2>3
  <2>5. t = NULL => s.QTex[m] = << >>
    BY ObjectAssumption
  <2>6. GivesUp(s, r, t, k, m, t, s.QTex[m])
    BY <1>6, <2>3, <2>4, <2>5 DEF GivesUp
  <2>7. KernelInv(r, dying)
    BY <1>4, <1>6, <2>2, <2>6, GiveUpInv
  <2> QED BY <2>3, <2>7 DEF r
<1>9. CASE s.QTex[m] # << >> /\ Head(s.QTex[m]) \notin s.freed
  <2> DEFINE h == Head(s.QTex[m])
             q == Tail(s.QTex[m])
             w == [s EXCEPT !.owner[m] = h, !.QTex[m] = q, !.held[t] = e,
                            !.waiting[h] = NULL]
  <2>1. h \in Thread /\ q \in Seq(Thread) /\ Elems(s.QTex[m]) = Elems(q) \cup {h}
    BY <1>4, <1>9, TailElems
  <2>2. h \in Elems(s.threads)
    BY <1>2, <1>9, <2>1 DEF KernelInv, Registered
  <2>3. h # dying
    <3>1. t \notin Elems(s.QTex[m])
      BY <1>2 DEF KernelInv, MutexInv, HeldNotAwaited
    <3> QED BY <3>1, <2>1, ObjectAssumption
  <2>4. w \in VMState
    BY <1>1, <1>2, <1>3, <2>1 DEF VMState
  <2>5. /\ w.held = [s.held EXCEPT ![t] = Erase(@, k)]
        /\ w.owner = [s.owner EXCEPT ![m] = h]
        /\ w.QTex = [s.QTex EXCEPT ![m] = q]
        /\ w.state = s.state /\ w.readyQ = s.readyQ /\ w.threads = s.threads
        /\ w.mutexes = s.mutexes /\ w.freed = s.freed /\ w.prio = s.prio
        /\ w.ticks = s.ticks /\ w.tr = s.tr
    BY <1>1 DEF VMState, e
  <2>6. r = PushReady([w EXCEPT !.state[h] = "READY"], h)
    <3>1. Release(s, m) = StopWaiting([s EXCEPT !.owner[m] = h, !.QTex[m] = q], h)
      BY <1>9 DEF Release, HandOver
    <3> HIDE DEF h, q
    <3> DEFINE g == [s EXCEPT !.owner[m] = h, !.QTex[m] = q,
                              !.waiting[h] = NULL, !.state[h] = "READY"]
    <3>2. Release(s, m) = PushReady(g, h)
      BY <1>1, <3>1 DEF StopWaiting, VMState
    <3>3. g.held = s.held /\ [g EXCEPT !.held[t] = e] = [w EXCEPT !.state[h] = "READY"]
      <4>1. g.held = s.held
        BY <1>1 DEF VMState
      <4>2. [g EXCEPT !.held[t] = e] = [w EXCEPT !.state[h] = "READY"]
        <5> DEFINE a == [g EXCEPT !.held[t] = e]
                   b == [w EXCEPT !.state[h] = "READY"]
        <5>1. a \in VMState /\ b \in VMState
          BY <1>1, <1>2, <1>3, <2>1 DEF VMState, ThreadState
        <5>2. /\ a.threads = b.threads /\ a.mutexes = b.mutexes /\ a.freed = b.freed
              /\ a.id = b.id /\ a.state = b.state /\ a.prio = b.prio
              /\ a.ticks = b.ticks /\ a.held = b.held /\ a.waiting = b.waiting
              /\ a.owner = b.owner /\ a.QTex = b.QTex /\ a.readyQ = b.readyQ
              /\ a.tr = b.tr /\ a.nextID = b.nextID /\ a.halt = b.halt
          BY <1>1 DEF VMState
        <5> HIDE DEF a, b
        <5> QED BY <5>1, <5>2, ZenonT(60) DEF VMState
      <4> QED BY <4>1, <4>2
    <3>4. g \in VMState
      BY <1>1, <1>2, <2>1 DEF VMState, ThreadState
    <3>5. [PushReady(g, h) EXCEPT !.held[t] = e] = PushReady([g EXCEPT !.held[t] = e], h)
      <4> HIDE DEF g
      <4> DEFINE f == [g EXCEPT !.held[t] = e]
      <4>1. f.prio = g.prio /\ f.readyQ = g.readyQ
        BY <3>4 DEF VMState
      <4>2. PushReady(f, h) = [f EXCEPT !.readyQ[g.prio[h]] = Append(g.readyQ[g.prio[h]], h)]
        BY <4>1 DEF PushReady
      <4>3. PushReady(g, h) = [g EXCEPT !.readyQ[g.prio[h]] = Append(g.readyQ[g.prio[h]], h)]
        BY DEF PushReady
      <4> QED BY <3>4, <4>2, <4>3 DEF VMState
    <3>6. r = [PushReady(g, h) EXCEPT !.held[t] = e]
      <4>1. PushReady(g, h).held = s.held
        BY <1>1 DEF PushReady, VMState
      <4> QED BY <1>5, <3>2, <4>1 DEF e
    <3> HIDE DEF g
    <3> QED BY <3>3, <3>5, <3>6
  <2> HIDE DEF h, q, w
  <2>7. h = NULL => q = << >>
    BY <2>1, ObjectAssumption
  <2>8. Elems(q) \subseteq Elems(s.QTex[m])
    BY <2>1
  <2>9. KernelInv(w, dying)
    <3>1. GivesUp(s, w, t, k, m, h, q)
      BY <1>6, <2>5, <2>7, <2>8 DEF GivesUp
    <3> QED BY <2>1, <2>4, <3>1, GiveUpInv
  <2>10. h \in Elems(w.threads)
    BY <2>2, <2>5
  <2>11. KernelInv(r, dying)
    BY <2>3, <2>6, <2>9, <2>10, PushInv
  <2>12. r.held = w.held /\ r.prio = w.prio
    BY <2>4, <2>6 DEF PushReady, VMState
  <2> QED BY <2>5, <2>11, <2>12 DEF r
<1> QED BY <1>7, <1>8, <1>9

\* Thread::releaseMutex finds the mutex where it is held.
LEMMA FirstHeld ==
  ASSUME NEW s, KernelInv(s, NULL), NEW t \in Thread, NEW m \in Elems(s.held[t])
  PROVE  \E k \in 1 .. Len(s.held[t]) :
           s.held[t][k] = m /\ ReleaseMutex(s, t, m) = ReleaseAt(s, t, k)
<1> DEFINE First(k) == /\ s.held[t][k] = m
                       /\ \A j \in DOMAIN s.held[t] : s.held[t][j] = m => k <= j
<1>1. s.held[t] \in Seq(Mutex)
  BY DEF KernelInv, Typed, VMState
<1>2. DOMAIN s.held[t] = 1 .. Len(s.held[t])
  BY <1>1, QueueType
<1>3. PICK k \in DOMAIN s.held[t] : s.held[t][k] = m
  BY DEF Elems
<1>4. \A j \in DOMAIN s.held[t] : s.held[t][j] = m => j = k
  BY <1>2, <1>3 DEF KernelInv, MutexInv, HeldOnce
<1>5. First(k)
  BY <1>2, <1>3, <1>4
<1> DEFINE c == CHOOSE i \in DOMAIN s.held[t] : First(i)
<1>6. ReleaseMutex(s, t, m) = ReleaseAt(s, t, c)
  BY DEF ReleaseMutex
<1> HIDE DEF First
<1>7. c \in DOMAIN s.held[t] /\ First(c)
  BY <1>5
<1> HIDE DEF c
<1> QED BY <1>2, <1>6, <1>7 DEF First

\* VMMutexRelease releases one mutex of its thread.
LEMMA ReleaseMutexInv ==
  ASSUME NEW s, KernelInv(s, NULL), NEW t \in Thread, NEW m \in Elems(s.held[t])
  PROVE  KernelInv(ReleaseMutex(s, t, m), NULL)
<1>1. PICK k \in 1 .. Len(s.held[t]) : ReleaseMutex(s, t, m) = ReleaseAt(s, t, k)
  BY FirstHeld
<1>2. NULL \in Thread \cup {NULL}
  OBVIOUS
<1>3. KernelInv(ReleaseAt(s, t, k), NULL)
  BY <1>2, ReleaseAtInv
<1> QED BY <1>1, <1>3

\* The loop of releaseAllMutex, up to round n.
ReleaseLoop(after, s, t, n) ==
  [i \in 0 .. n |->
     IF i = 0 THEN s
     ELSE ReleaseAt(after[i - 1], t, Len(after[i - 1].held[t]))]

\* The loop of ReleaseAllMutex is a function: it has a value after every
\* round.
LEMMA ReleaseLoopExists ==
  ASSUME NEW s, NEW t, NEW n \in Nat
  PROVE  \E after : after = ReleaseLoop(after, s, t, n)
<1> DEFINE Inv == {k \in 0 .. n : \E f : f = ReleaseLoop(f, s, t, k)}
<1>1. 0 \in Inv
  <2>1. [i \in 0 .. 0 |-> s] = ReleaseLoop([i \in 0 .. 0 |-> s], s, t, 0)
    BY DEF ReleaseLoop
  <2> QED BY <2>1
<1>2. ASSUME NEW k \in 0 .. n - 1, k \in Inv PROVE k + 1 \in Inv
  <2>1. PICK f : f = ReleaseLoop(f, s, t, k)
    BY <1>2
  <2> DEFINE g == [i \in 0 .. k + 1 |->
                     IF i = k + 1 THEN ReleaseAt(f[k], t, Len(f[k].held[t])) ELSE f[i]]
  <2>2. ASSUME NEW i \in 0 .. k + 1
        PROVE  g[i] = ReleaseLoop(g, s, t, k + 1)[i]
    <3>1. CASE i = k + 1
      BY <3>1 DEF ReleaseLoop
    <3>2. CASE i # k + 1
      <4>1. i \in 0 .. k
        BY <3>2
      <4>2. f[i] = ReleaseLoop(f, s, t, k)[i]
        BY <2>1
      <4>3. i = 0 \/ (i - 1 \in 0 .. k /\ i - 1 # k + 1)
        BY <4>1
      <4> QED BY <4>1, <4>2, <4>3, <3>2 DEF ReleaseLoop
    <3> QED BY <3>1, <3>2
  <2>3. g = ReleaseLoop(g, s, t, k + 1)
    BY <2>2 DEF ReleaseLoop
  <2>4. k + 1 \in 0 .. n
    OBVIOUS
  <2> HIDE DEF g
  <2> QED BY <2>3, <2>4
<1>3. n \in Inv
  <2> HIDE DEF Inv
  <2> QED BY <1>1, <1>2, Rounds
<1> QED BY <1>3

\* After every round of the loop of releaseAllMutex.
LEMMA ReleaseRounds ==
  ASSUME NEW s, NEW t, Len(s.held[t]) \in Nat
  PROVE  \E R : /\ ReleaseAllMutex(s, t) = R[Len(s.held[t])]
                /\ R[0] = s
                /\ \A i \in 1 .. Len(s.held[t]) :
                     R[i] = ReleaseAt(R[i - 1], t, Len(R[i - 1].held[t]))
<1> DEFINE n == Len(s.held[t])
           R == CHOOSE f : f = ReleaseLoop(f, s, t, n)
<1>1. R = ReleaseLoop(R, s, t, n)
  BY ReleaseLoopExists
<1>2. ReleaseAllMutex(s, t) = R[n]
  BY DEF ReleaseAllMutex, ReleaseLoop
<1> HIDE DEF R
<1>3. ReleaseLoop(R, s, t, n)[0] = s
  BY DEF ReleaseLoop
<1>4. \A i \in 1 .. n :
        ReleaseLoop(R, s, t, n)[i] = ReleaseAt(R[i - 1], t, Len(R[i - 1].held[t]))
  BY DEF ReleaseLoop
<1> HIDE DEF n
<1>5. R[0] = s /\ \A i \in 1 .. n : R[i] = ReleaseAt(R[i - 1], t, Len(R[i - 1].held[t]))
  BY <1>1, <1>3, <1>4
<1> QED BY <1>2, <1>5 DEF n

\* Termination releases every mutex.
LEMMA ReleaseAllInv ==
  ASSUME NEW s, NEW dying \in Thread \cup {NULL}, KernelInv(s, dying),
         NEW t \in Thread, dying = NULL \/ dying = t
  PROVE  LET r == ReleaseAllMutex(s, t) IN
         /\ KernelInv(r, dying)
         /\ r.held[t] = << >>
         /\ r.prio = s.prio
<1> DEFINE n == Len(s.held[t])
<1>1. n \in Nat
  BY QueueType DEF KernelInv, Typed, VMState
<1>2. PICK R : /\ ReleaseAllMutex(s, t) = R[n]
               /\ R[0] = s
               /\ \A i \in 1 .. n : R[i] = ReleaseAt(R[i - 1], t, Len(R[i - 1].held[t]))
  BY <1>1, ReleaseRounds
<1> HIDE DEF n
<1> DEFINE Inv == {i \in 0 .. n : /\ KernelInv(R[i], dying)
                                  /\ Len(R[i].held[t]) = n - i
                                  /\ R[i].prio = s.prio}
<1>5. 0 \in Inv
  <2>1. R[0] = s
    BY <1>1, <1>2
  <2> QED BY <1>1, <2>1 DEF n
<1>6. ASSUME NEW i \in 0 .. n - 1, i \in Inv PROVE i + 1 \in Inv
  <2> DEFINE a == R[i]
             k == Len(a.held[t])
             b == R[i + 1]
  <2>1. KernelInv(a, dying) /\ k = n - i /\ a.prio = s.prio
    BY <1>6
  <2>2. i + 1 \in 0 .. n /\ (i + 1) - 1 = i /\ i + 1 \in 1 .. n /\ k \in 1 .. k /\ k - 1 = n - (i + 1)
    BY <1>1, <2>1
  <2>3. b = ReleaseAt(a, t, k)
    BY <2>2, <1>2
  <2> HIDE DEF a, b
  <2>4. KernelInv(b, dying) /\ b.held = [a.held EXCEPT ![t] = Erase(@, k)] /\ b.prio = a.prio
    BY <2>1, <2>2, <2>3, ReleaseAtInv
  <2>5. Len(b.held[t]) = k - 1
    <3>1. a.held \in [Thread -> Seq(Mutex)]
      BY <2>1 DEF KernelInv, Typed, VMState
    <3>2. \A x, y \in 1 .. k : a.held[t][x] = a.held[t][y] => x = y
      BY <2>1 DEF KernelInv, MutexInv, HeldOnce
    <3>3. Len(Erase(a.held[t], k)) = k - 1
      <4>1. a.held[t] \in Seq(Mutex)
        BY <3>1
      <4> QED BY <2>2, <3>2, <4>1, EraseElems
    <3> QED BY <2>4, <3>1, <3>3
  <2>6. i + 1 \in 0 .. n /\ KernelInv(b, dying) /\ Len(b.held[t]) = n - (i + 1) /\ b.prio = s.prio
    BY <2>1, <2>2, <2>4, <2>5
  <2> QED BY <2>6 DEF b
<1>7. n \in Inv
  <2> HIDE DEF Inv
  <2> QED BY <1>1, <1>5, <1>6, Rounds
<1>8. R[n].held[t] = << >>
  <2>1. Len(R[n].held[t]) = 0 /\ KernelInv(R[n], dying)
    BY <1>1, <1>7
  <2>2. R[n].held[t] \in Seq(Mutex)
    BY <2>1 DEF KernelInv, Typed, VMState
  <2> QED BY <2>1, <2>2, EmptySeq
<1> QED BY <1>2, <1>7, <1>8

\* A thread that is marked DEAD, but still has its mutexes and may still be
\* in a ready queue.
LEMMA MarkDead ==
  ASSUME NEW s, KernelInv(s, NULL), NEW t \in Thread \ {Idle}
  PROVE  KernelInv([s EXCEPT !.state[t] = "DEAD"], t)
<1> DEFINE r == [s EXCEPT !.state[t] = "DEAD"]
<1>1. s \in VMState
  BY DEF KernelInv, Typed
<1>2. r \in VMState
  BY <1>1 DEF VMState, ThreadState
<1>3. /\ r.state = [s.state EXCEPT ![t] = "DEAD"]
      /\ r.readyQ = s.readyQ /\ r.threads = s.threads
      /\ r.mutexes = s.mutexes /\ r.freed = s.freed /\ r.prio = s.prio
      /\ r.ticks = s.ticks /\ r.held = s.held /\ r.owner = s.owner
      /\ r.QTex = s.QTex /\ r.tr = s.tr
  BY <1>1 DEF VMState
<1> HIDE DEF r
<1>4. \A u \in Thread : r.state[u] = IF u = t THEN "DEAD" ELSE s.state[u]
  BY <1>1, <1>3 DEF VMState
<1>5. Typed(r) /\ ReadyQueued(r) /\ RunningIsTr(r) /\ IdleRuns(r)
  BY <1>2, <1>3, <1>4 DEF KernelInv, Typed, ReadyQueued, RunningIsTr, IdleRuns, Thread
<1>6. QueuedRunnable(r, t)
  <2>1. \A p \in Priority : Elems(s.readyQ[p]) \subseteq Thread
    BY <1>1, QueueType DEF VMState
  <2>2. \A u \in Thread : u # NULL
    BY ObjectAssumption
  <2> QED BY <1>3, <1>4, <2>1, <2>2 DEF KernelInv, QueuedRunnable
<1>7. Registered(r) /\ DeadReleased(r, t) /\ Dying(r, t)
  <2>1. \A u \in Thread : u # NULL
    BY ObjectAssumption
  <2> QED BY <1>3, <1>4, <2>1 DEF KernelInv, Registered, DeadReleased, Dying
<1>8. MutexInv(r)
  BY <1>3 DEF KernelInv, MutexInv, HeldOwned, HeldOnce, HeldNotAwaited, FreeUnqueued
<1>9. KernelInv(r, t)
  BY <1>5, <1>6, <1>7, <1>8 DEF KernelInv
<1> QED BY <1>9 DEF r

\* VMThreadTerminate leaves the invariant with no exception.
LEMMA TerminateInv ==
  ASSUME NEW s, KernelInv(s, NULL), NEW t \in Thread \ {Idle}
  PROVE  KernelInv(Terminate(s, t), NULL)
<1> DEFINE d == [s EXCEPT !.state[t] = "DEAD"]
           r == ReleaseAllMutex(d, t)
           p == s.prio[t]
           x == [r EXCEPT !.readyQ[p] = Without(@, t)]
<1>1. s \in VMState
  BY DEF KernelInv, Typed
<1>2. KernelInv(d, t) /\ d.prio = s.prio
  BY <1>1, MarkDead DEF VMState
<1>3. Terminate(s, t) = x
  BY DEF Terminate
<1> HIDE DEF d
<1>4. KernelInv(r, t) /\ r.held[t] = << >> /\ r.prio = s.prio
  BY <1>2, ReleaseAllInv
<1> HIDE DEF r
<1>5. r \in VMState /\ p \in Priority
  BY <1>1, <1>4 DEF KernelInv, Typed, VMState
<1> HIDE DEF p
<1>6. /\ Without(r.readyQ[p], t) \in Seq(Thread)
      /\ Elems(Without(r.readyQ[p], t)) = Elems(r.readyQ[p]) \ {t}
  <2>1. r.readyQ[p] \in Seq(Thread)
    BY <1>5 DEF VMState
  <2> QED BY <2>1, WithoutElems
<1>7. x \in VMState
  BY <1>5, <1>6 DEF VMState
<1>8. /\ x.readyQ = [r.readyQ EXCEPT ![p] = Without(@, t)]
      /\ x.state = r.state /\ x.threads = r.threads
      /\ x.mutexes = r.mutexes /\ x.freed = r.freed /\ x.prio = r.prio
      /\ x.ticks = r.ticks /\ x.held = r.held /\ x.owner = r.owner
      /\ x.QTex = r.QTex /\ x.tr = r.tr
  BY <1>5 DEF VMState
<1> HIDE DEF x
<1>9. /\ Elems(x.readyQ[p]) = Elems(r.readyQ[p]) \ {t}
      /\ \A q \in Priority : q # p => x.readyQ[q] = r.readyQ[q]
  BY <1>5, <1>6, <1>8 DEF VMState
<1>10. r.state[t] = "DEAD" /\ t # NULL
  BY <1>4, ObjectAssumption DEF KernelInv, Dying
<1>11. \A u \in Thread : r.prio[u] \in Priority
  BY <1>5 DEF VMState
<1>12. Typed(x) /\ RunningIsTr(x) /\ IdleRuns(x) /\ Registered(x)
  BY <1>4, <1>7, <1>8 DEF KernelInv, Typed, RunningIsTr, IdleRuns, Registered
<1>13. ReadyQueued(x)
  BY <1>4, <1>8, <1>9, <1>10, <1>11 DEF KernelInv, ReadyQueued
<1>14. QueuedRunnable(x, NULL)
  <2> SUFFICES ASSUME NEW q \in Priority, NEW u \in Elems(x.readyQ[q])
               PROVE  x.prio[u] = q /\ u \in Elems(x.threads) /\ x.state[u] # "DEAD"
    BY DEF QueuedRunnable
  <2>1. u \in Elems(r.readyQ[q]) /\ (q = p => u # t)
    BY <1>9
  <2>2. r.prio[u] = q /\ u \in Elems(r.threads)
    BY <1>4, <2>1 DEF KernelInv, QueuedRunnable
  <2>3. u # t
    BY <1>4, <2>1, <2>2 DEF p
  <2> QED BY <1>4, <1>8, <2>1, <2>2, <2>3 DEF KernelInv, QueuedRunnable
<1>15. DeadReleased(x, NULL) /\ Dying(x, NULL)
  BY <1>4, <1>8 DEF KernelInv, DeadReleased, Dying
<1>16. MutexInv(x)
  BY <1>4, <1>8 DEF KernelInv, MutexInv, HeldOwned, HeldOnce, HeldNotAwaited, FreeUnqueued
<1>17. KernelInv(x, NULL)
  BY <1>12, <1>13, <1>14, <1>15, <1>16 DEF KernelInv
<1> QED BY <1>3, <1>17

\* A thread blocks: it gives the processor up with a tick count.
LEMMA BlockInv ==
  ASSUME NEW s, KernelInv(s, NULL), NEW t \in Thread \ {Idle}, NEW n \in Nat,
         s.state[t] \notin {"DEAD", "READY"}
  PROVE  KernelInv(Block(s, t, n), NULL)
<1> DEFINE r == Block(s, t, n)
<1>1. s \in VMState
  BY DEF KernelInv, Typed
<1>2. r \in VMState
  <2>1. n \in Int
    OBVIOUS
  <2>2. [s.ticks EXCEPT ![t] = n] \in [Thread -> Int]
    BY <1>1, <2>1 DEF VMState
  <2>3. [s.state EXCEPT ![t] = "WAITING"] \in [Thread -> ThreadState]
    BY <1>1 DEF VMState, ThreadState
  <2> QED BY <1>1, <2>2, <2>3 DEF Block, VMState
<1>3. /\ r.state = [s.state EXCEPT ![t] = "WAITING"]
      /\ r.ticks = [s.ticks EXCEPT ![t] = n]
      /\ r.readyQ = s.readyQ /\ r.threads = s.threads
      /\ r.mutexes = s.mutexes /\ r.freed = s.freed /\ r.prio = s.prio
      /\ r.held = s.held /\ r.owner = s.owner
      /\ r.QTex = s.QTex /\ r.tr = s.tr
  BY <1>1 DEF Block, VMState
<1> HIDE DEF r
<1>4. /\ \A u \in Thread : r.state[u] = IF u = t THEN "WAITING" ELSE s.state[u]
      /\ \A u \in Thread : r.ticks[u] = IF u = t THEN n ELSE s.ticks[u]
  BY <1>1, <1>3 DEF VMState
<1>5. Typed(r)
  BY <1>2, <1>4 DEF KernelInv, Typed, Thread
<1>6. ReadyQueued(r) /\ RunningIsTr(r) /\ IdleRuns(r)
  BY <1>3, <1>4 DEF KernelInv, ReadyQueued, RunningIsTr, IdleRuns, Thread
<1>7. QueuedRunnable(r, NULL)
  <2>1. \A p \in Priority : Elems(s.readyQ[p]) \subseteq Thread
    BY <1>1, QueueType DEF VMState
  <2> QED BY <1>3, <1>4, <2>1 DEF KernelInv, QueuedRunnable
<1>8. Registered(r) /\ DeadReleased(r, NULL) /\ Dying(r, NULL)
  BY <1>3, <1>4 DEF KernelInv, Registered, DeadReleased, Dying
<1>9. MutexInv(r)
  BY <1>3 DEF KernelInv, MutexInv, HeldOwned, HeldOnce, HeldNotAwaited, FreeUnqueued
<1>10. KernelInv(r, NULL)
  BY <1>5, <1>6, <1>7, <1>8, <1>9 DEF KernelInv
<1> QED BY <1>10 DEF r

\* A thread that is RUNNING, or was just found READY, may begin to wait.
LEMMA WaitInv ==
  ASSUME NEW s, KernelInv(s, NULL), NEW t \in Thread \ {Idle},
         s.state[t] \notin {"DEAD", "READY"}
  PROVE  /\ KernelInv(Wait(s, t), NULL)
         /\ Wait(s, t).state = [s.state EXCEPT ![t] = "WAITING"]
         /\ Wait(s, t).tr = s.tr
<1> DEFINE r == Wait(s, t)
<1>1. s \in VMState
  BY DEF KernelInv, Typed
<1>2. r \in VMState
  <2>1. [s.state EXCEPT ![t] = "WAITING"] \in [Thread -> ThreadState]
    BY <1>1 DEF VMState, ThreadState
  <2> QED BY <1>1, <2>1 DEF Wait, VMState
<1>3. /\ r.state = [s.state EXCEPT ![t] = "WAITING"]
      /\ r.ticks = s.ticks
      /\ r.readyQ = s.readyQ /\ r.threads = s.threads
      /\ r.mutexes = s.mutexes /\ r.freed = s.freed /\ r.prio = s.prio
      /\ r.held = s.held /\ r.owner = s.owner
      /\ r.QTex = s.QTex /\ r.tr = s.tr
  BY <1>1 DEF Wait, VMState
<1> HIDE DEF r
<1>4. \A u \in Thread : r.state[u] = IF u = t THEN "WAITING" ELSE s.state[u]
  BY <1>1, <1>3 DEF VMState
<1>5. Typed(r)
  BY <1>2, <1>3 DEF KernelInv, Typed
<1>6. ReadyQueued(r) /\ RunningIsTr(r) /\ IdleRuns(r)
  BY <1>3, <1>4 DEF KernelInv, ReadyQueued, RunningIsTr, IdleRuns, Thread
<1>7. QueuedRunnable(r, NULL)
  <2>1. \A p \in Priority : Elems(s.readyQ[p]) \subseteq Thread
    BY <1>1, QueueType DEF VMState
  <2> QED BY <1>3, <1>4, <2>1 DEF KernelInv, QueuedRunnable
<1>8. Registered(r) /\ DeadReleased(r, NULL) /\ Dying(r, NULL)
  BY <1>3, <1>4 DEF KernelInv, Registered, DeadReleased, Dying
<1>9. MutexInv(r)
  BY <1>3 DEF KernelInv, MutexInv, HeldOwned, HeldOnce, HeldNotAwaited, FreeUnqueued
<1>10. KernelInv(r, NULL)
  BY <1>5, <1>6, <1>7, <1>8, <1>9 DEF KernelInv
<1> QED BY <1>3, <1>10 DEF r

\* Threads that wait are registered, and idle does not.
LEMMA WaitingRegistered ==
  ASSUME NEW s, KernelInv(s, NULL), NEW t \in Thread, s.state[t] = "WAITING"
  PROVE  t \in Elems(s.threads) /\ t # Idle /\ t # NULL
BY ObjectAssumption DEF KernelInv, Registered, IdleRuns

\* Thread::acquireMutex called by a running thread, whatever it returns.
LEMMA AcquireInv ==
  ASSUME NEW s, KernelInv(s, NULL), NEW t \in Thread, s.state[t] = "RUNNING",
         NEW m \in s.mutexes, NEW timeout
  PROVE  LET r == AcquireMutex(s, t, m, timeout) IN
         KernelInv(r, NULL) /\ r.state = s.state /\ r.tr = s.tr
<1> DEFINE r == AcquireMutex(s, t, m, timeout)
<1>1. s \in VMState /\ m \in Mutex /\ s.held[t] \in Seq(Mutex) /\ s.QTex[m] \in Seq(Thread)
  BY DEF KernelInv, Typed, VMState
<1>2. CASE m \in Elems(s.held[t])
  <2>1. r = [s EXCEPT !.waiting[t] = NULL]
    BY <1>2 DEF AcquireMutex
  <2> HIDE DEF r
  <2>2. r \in VMState
    BY <1>1, <2>1 DEF VMState
  <2>3. /\ r.state = s.state /\ r.readyQ = s.readyQ /\ r.threads = s.threads
        /\ r.mutexes = s.mutexes /\ r.freed = s.freed /\ r.prio = s.prio
        /\ r.ticks = s.ticks /\ r.held = s.held /\ r.owner = s.owner
        /\ r.QTex = s.QTex /\ r.tr = s.tr
    BY <1>1, <2>1 DEF VMState
  <2>4. KernelInv(r, NULL)
    BY <2>3, <2>2, SameInv
  <2> QED BY <2>3, <2>4 DEF r
<1>3. CASE m \notin Elems(s.held[t]) /\ s.owner[m] = NULL
  <2> DEFINE e == Append(s.held[t], m)
  <2>1. r = [s EXCEPT !.waiting[t] = NULL, !.owner[m] = t, !.held[t] = e]
    BY <1>3 DEF AcquireMutex
  <2>2. e \in Seq(Mutex) /\ Elems(e) = Elems(s.held[t]) \cup {m}
    BY <1>1, AppendElems
  <2>3. \A i, j \in 1 .. Len(e) : e[i] = e[j] => i = j
    <3>1. /\ Len(e) = Len(s.held[t]) + 1 /\ e[Len(s.held[t]) + 1] = m
          /\ \A i \in 1 .. Len(s.held[t]) : e[i] = s.held[t][i]
      BY <1>1, AppendProperties
    <3>2. Len(s.held[t]) \in Nat /\ \A i \in 1 .. Len(s.held[t]) : s.held[t][i] # m
      BY <1>1, <1>3, QueueType DEF Elems
    <3>3. \A i, j \in 1 .. Len(s.held[t]) : s.held[t][i] = s.held[t][j] => i = j
      BY DEF KernelInv, MutexInv, HeldOnce
    <3> HIDE DEF e
    <3> SUFFICES ASSUME NEW i \in 1 .. Len(e), NEW j \in 1 .. Len(e), e[i] = e[j]
                 PROVE  i = j
      OBVIOUS
    <3>4. CASE i = Len(e) \/ j = Len(e)
      BY <3>1, <3>2, <3>4, SMTT(30)
    <3>5. CASE i # Len(e) /\ j # Len(e)
      <4>1. i \in 1 .. Len(s.held[t]) /\ j \in 1 .. Len(s.held[t])
        BY <3>1, <3>2, <3>5
      <4> QED BY <4>1, <3>1, <3>3
    <3> QED BY <3>4, <3>5
  <2> HIDE DEF e, r
  <2>4. r \in VMState
    BY <1>1, <2>1, <2>2 DEF VMState
  <2>5. /\ r.held = [s.held EXCEPT ![t] = e] /\ r.owner = [s.owner EXCEPT ![m] = t]
        /\ r.state = s.state /\ r.readyQ = s.readyQ /\ r.threads = s.threads
        /\ r.mutexes = s.mutexes /\ r.freed = s.freed /\ r.prio = s.prio
        /\ r.ticks = s.ticks /\ r.QTex = s.QTex /\ r.tr = s.tr
    BY <1>1, <2>1, <2>2 DEF VMState
  <2>6. /\ r.held[t] = e /\ \A u \in Thread : u # t => r.held[u] = s.held[u]
        /\ r.owner[m] = t /\ \A n \in Mutex : n # m => r.owner[n] = s.owner[n]
    BY <1>1, <2>5 DEF VMState
  <2>7. \A u \in Thread : m \notin Elems(s.held[u])
    BY <1>3, ObjectAssumption DEF KernelInv, MutexInv, HeldOwned
  <2>8. \A u \in Thread : Elems(s.held[u]) \subseteq Mutex
    BY <1>1, QueueType DEF VMState
  <2>9. HeldOwned(r)
    BY <2>2, <2>5, <2>6, <2>7, <2>8 DEF KernelInv, MutexInv, HeldOwned
  <2>10. HeldOnce(r)
    BY <2>3, <2>6 DEF KernelInv, MutexInv, HeldOnce
  <2>11. HeldNotAwaited(r)
    <3>1. s.QTex[m] = << >>
      BY <1>1, <1>3 DEF KernelInv, MutexInv, FreeUnqueued
    <3>2. Elems(s.QTex[m]) = {}
      BY <3>1 DEF Elems
    <3> QED BY <2>2, <2>5, <2>6, <3>2 DEF KernelInv, MutexInv, HeldNotAwaited
  <2>12. FreeUnqueued(r)
    BY <2>5, <2>6, ObjectAssumption DEF KernelInv, MutexInv, FreeUnqueued
  <2>13. DeadReleased(r, NULL)
    BY <2>5, <2>6 DEF KernelInv, DeadReleased
  <2>14. Typed(r) /\ ReadyQueued(r) /\ QueuedRunnable(r, NULL) /\ RunningIsTr(r)
    BY <2>5, <2>4 DEF KernelInv, Typed, ReadyQueued, QueuedRunnable, RunningIsTr
  <2>15. IdleRuns(r) /\ Registered(r) /\ Dying(r, NULL)
    BY <2>5 DEF KernelInv, IdleRuns, Registered, Dying
  <2>16. KernelInv(r, NULL)
    BY <2>9, <2>10, <2>11, <2>12, <2>13, <2>14, <2>15 DEF KernelInv, MutexInv
  <2> QED BY <2>5, <2>16 DEF r
<1>4. CASE /\ m \notin Elems(s.held[t]) /\ s.owner[m] # NULL
           /\ Elems(s.QTex[m]) \cap s.freed # {}
  <2>1. r = Undefined(s)
    BY <1>4 DEF AcquireMutex
  <2>2. r.state = s.state /\ r.tr = s.tr
    BY <1>1, <2>1 DEF Undefined, VMState
  <2> QED BY <2>1, <2>2, UndefinedInv
<1>5. CASE /\ m \notin Elems(s.held[t]) /\ s.owner[m] # NULL
           /\ Elems(s.QTex[m]) \cap s.freed = {} /\ Queues(s, m, t, timeout)
  <2> DEFINE q == Append(s.QTex[m], t)
  <2>1. r = [s EXCEPT !.waiting[t] = m, !.QTex[m] = q]
    BY <1>5 DEF AcquireMutex
  <2>2. q \in Seq(Thread) /\ Elems(q) = Elems(s.QTex[m]) \cup {t}
    BY <1>1, AppendElems
  <2> HIDE DEF q, r
  <2>3. r \in VMState
    BY <1>1, <2>1, <2>2 DEF VMState
  <2>4. /\ r.QTex = [s.QTex EXCEPT ![m] = q]
        /\ r.state = s.state /\ r.readyQ = s.readyQ /\ r.threads = s.threads
        /\ r.mutexes = s.mutexes /\ r.freed = s.freed /\ r.prio = s.prio
        /\ r.ticks = s.ticks /\ r.held = s.held /\ r.owner = s.owner /\ r.tr = s.tr
    BY <1>1, <2>1, <2>2 DEF VMState
  <2>5. r.QTex[m] = q /\ \A n \in Mutex : n # m => r.QTex[n] = s.QTex[n]
    BY <1>1, <2>4 DEF VMState
  <2>6. t \in Elems(s.threads)
    BY DEF KernelInv, Registered
  <2>7. Registered(r)
    BY <2>2, <2>4, <2>5, <2>6 DEF KernelInv, Registered
  <2>8. HeldNotAwaited(r)
    <3>1. \A u \in Thread : Elems(s.held[u]) \subseteq Mutex
      BY <1>1, QueueType DEF VMState
    <3> QED BY <3>1, <1>5, <2>2, <2>4, <2>5 DEF KernelInv, MutexInv, HeldNotAwaited
  <2>9. FreeUnqueued(r) /\ HeldOwned(r) /\ HeldOnce(r)
    BY <1>5, <2>4, <2>5 DEF KernelInv, MutexInv, FreeUnqueued, HeldOwned, HeldOnce
  <2>10. Typed(r) /\ ReadyQueued(r) /\ QueuedRunnable(r, NULL) /\ RunningIsTr(r)
    BY <2>4, <2>3 DEF KernelInv, Typed, ReadyQueued, QueuedRunnable, RunningIsTr
  <2>11. IdleRuns(r) /\ DeadReleased(r, NULL) /\ Dying(r, NULL)
    BY <2>4 DEF KernelInv, IdleRuns, DeadReleased, Dying
  <2>12. KernelInv(r, NULL)
    BY <2>7, <2>8, <2>9, <2>10, <2>11 DEF KernelInv, MutexInv
  <2> QED BY <2>4, <2>12 DEF r
<1>6. CASE /\ m \notin Elems(s.held[t]) /\ s.owner[m] # NULL
           /\ Elems(s.QTex[m]) \cap s.freed = {} /\ ~ Queues(s, m, t, timeout)
  <2>1. r = [s EXCEPT !.waiting[t] = m]
    BY <1>6 DEF AcquireMutex
  <2> HIDE DEF r
  <2>2. r \in VMState
    BY <1>1, <2>1 DEF VMState
  <2>3. /\ r.state = s.state /\ r.readyQ = s.readyQ /\ r.threads = s.threads
        /\ r.mutexes = s.mutexes /\ r.freed = s.freed /\ r.prio = s.prio
        /\ r.ticks = s.ticks /\ r.held = s.held /\ r.owner = s.owner
        /\ r.QTex = s.QTex /\ r.tr = s.tr
    BY <1>1, <2>1 DEF VMState
  <2>4. KernelInv(r, NULL)
    BY <2>3, <2>2, SameInv
  <2> QED BY <2>3, <2>4 DEF r
<1> QED BY <1>2, <1>3, <1>4, <1>5, <1>6

-----------------------------------------------------------------------------
(* The timer                                                               *)

\* A waiter is flushed from the queue of the mutex m and no longer waits.
LEMMA FlushInv ==
  ASSUME NEW s, KernelInv(s, NULL), NEW t \in Thread, NEW m \in Mutex
  PROVE  KernelInv([s EXCEPT !.QTex[m] = Without(@, t), !.waiting[t] = NULL], NULL)
<1> DEFINE q == Without(s.QTex[m], t)
           r == [s EXCEPT !.QTex[m] = q, !.waiting[t] = NULL]
<1>1. s \in VMState /\ s.QTex[m] \in Seq(Thread)
  BY DEF KernelInv, Typed, VMState
<1>2. q \in Seq(Thread) /\ Elems(q) = Elems(s.QTex[m]) \ {t}
  BY <1>1, WithoutElems
<1> HIDE DEF q
<1>3. r \in VMState
  BY <1>1, <1>2 DEF VMState
<1>4. /\ r.QTex = [s.QTex EXCEPT ![m] = q]
      /\ r.state = s.state /\ r.readyQ = s.readyQ /\ r.threads = s.threads
      /\ r.mutexes = s.mutexes /\ r.freed = s.freed /\ r.prio = s.prio
      /\ r.ticks = s.ticks /\ r.held = s.held /\ r.owner = s.owner /\ r.tr = s.tr
  BY <1>1 DEF VMState
<1> HIDE DEF r
<1>5. \A n \in Mutex : Elems(r.QTex[n]) \subseteq Elems(s.QTex[n])
  BY <1>1, <1>2, <1>4 DEF VMState
<1>6. FreeUnqueued(r)
  <2>1. ASSUME s.QTex[m] = << >> PROVE q = << >>
    <3>1. Elems(q) = {}
      BY <1>2, <2>1 DEF Elems
    <3> QED BY <3>1, <1>2, QueueType
  <2> QED BY <2>1, <1>1, <1>4 DEF KernelInv, MutexInv, FreeUnqueued, VMState
<1>7. HeldNotAwaited(r)
  <2>1. \A u \in Thread : Elems(s.held[u]) \subseteq Mutex
    BY <1>1, QueueType DEF VMState
  <2> QED BY <2>1, <1>4, <1>5 DEF KernelInv, MutexInv, HeldNotAwaited
<1>8. HeldOwned(r) /\ HeldOnce(r) /\ Registered(r)
  BY <1>4, <1>5 DEF KernelInv, MutexInv, HeldOwned, HeldOnce, Registered
<1>9. Typed(r) /\ ReadyQueued(r) /\ QueuedRunnable(r, NULL) /\ RunningIsTr(r)
  BY <1>3, <1>4 DEF KernelInv, Typed, ReadyQueued, QueuedRunnable, RunningIsTr
<1>10. IdleRuns(r) /\ DeadReleased(r, NULL) /\ Dying(r, NULL)
  BY <1>4 DEF KernelInv, IdleRuns, DeadReleased, Dying
<1>11. KernelInv(r, NULL)
  BY <1>6, <1>7, <1>8, <1>9, <1>10 DEF KernelInv, MutexInv
<1> QED BY <1>11 DEF r, q

\* A thread that times out on a mutex is pushed on its ready queue twice, by
\* Mutex::waitTimeout and by Thread::decrementTicks.
LEMMA WakeUpInv ==
  ASSUME NEW s, KernelInv(s, NULL), NEW t \in Elems(s.threads)
  PROVE  KernelInv(WakeUp(s, t), NULL) /\ WakeUp(s, t).threads = s.threads
<1> DEFINE m == s.waiting[t]
<1>1. s \in VMState /\ t \in Thread /\ t # NULL /\ NULL \in Thread \cup {NULL}
  BY QueueType, ObjectAssumption DEF KernelInv, Typed, VMState
<1>2. CASE m = NULL
  <2>1. WakeUp(s, t) = PushReady([s EXCEPT !.state[t] = "READY"], t)
    BY <1>2 DEF WakeUp
  <2>2. WakeUp(s, t).threads = s.threads
    BY <1>1, <2>1 DEF PushReady, VMState
  <2> QED BY <1>1, <2>1, <2>2, PushInv
<1>3. CASE m # NULL /\ m \in s.freed
  <2>1. WakeUp(s, t) = Undefined(s)
    BY <1>3 DEF WakeUp
  <2>2. WakeUp(s, t).threads = s.threads
    BY <1>1, <2>1 DEF Undefined, VMState
  <2> QED BY <2>1, <2>2, UndefinedInv
<1>4. CASE m # NULL /\ m \notin s.freed
  <2> DEFINE f == [s EXCEPT !.QTex[m] = Without(@, t), !.waiting[t] = NULL]
             a == PushReady([f EXCEPT !.state[t] = "READY"], t)
             b == PushReady([a EXCEPT !.state[t] = "READY"], t)
  <2>1. m \in Mutex
    BY <1>1, <1>4 DEF VMState
  <2>2. KernelInv(f, NULL) /\ f.threads = s.threads
    BY <1>1, <2>1, FlushInv DEF VMState
  <2>3. WaitTimeout(s, m, t) = a
    BY <1>1, <2>1 DEF WaitTimeout, StopWaiting, VMState
  <2> HIDE DEF f
  <2>4. KernelInv(a, NULL)
    BY <1>1, <2>2, PushInv
  <2>5. f \in VMState
    BY <2>2 DEF KernelInv, Typed
  <2>6. a.threads = s.threads /\ a.state[t] = "READY"
    BY <1>1, <2>2, <2>5 DEF PushReady, VMState
  <2>7. WakeUp(s, t) = PushReady(a, t)
    BY <1>4, <2>3 DEF WakeUp
  <2> HIDE DEF a
  <2>8. a \in VMState
    BY <2>4 DEF KernelInv, Typed
  <2>9. KernelInv(b, NULL)
    BY <1>1, <2>4, <2>6, PushInv
  <2>10. [a EXCEPT !.state[t] = "READY"] = a
    BY <2>6, <2>8 DEF VMState
  <2>11. PushReady(a, t).threads = a.threads
    BY <2>8 DEF PushReady, VMState
  <2> QED BY <2>6, <2>7, <2>9, <2>10, <2>11
<1> QED BY <1>2, <1>3, <1>4

\* Thread::decrementTicks.
LEMMA DecrementInv ==
  ASSUME NEW s, KernelInv(s, NULL), NEW t \in Elems(s.threads)
  PROVE  /\ KernelInv(DecrementTicks(s, t), NULL)
         /\ DecrementTicks(s, t).threads = s.threads
<1> DEFINE d == [s EXCEPT !.ticks[t] = CountDown(@)]
<1>1. s \in VMState /\ t \in Thread
  BY QueueType DEF KernelInv, Typed, VMState
<1>2. CountDown(s.ticks[t]) \in Int /\ CountDown(s.ticks[t]) >= -5
  <2>1. s.ticks[t] \in Int
    BY <1>1 DEF VMState
  <2> QED BY <2>1 DEF CountDown
<1>3. d \in VMState
  BY <1>1, <1>2 DEF VMState
<1>4. /\ d.ticks = [s.ticks EXCEPT ![t] = CountDown(@)]
      /\ d.state = s.state /\ d.readyQ = s.readyQ /\ d.threads = s.threads
      /\ d.mutexes = s.mutexes /\ d.freed = s.freed /\ d.prio = s.prio
      /\ d.held = s.held /\ d.owner = s.owner /\ d.QTex = s.QTex /\ d.tr = s.tr
  BY <1>1 DEF VMState
<1>5. DecrementTicks(s, t) = d \/ DecrementTicks(s, t) = WakeUp(d, t)
  BY DEF DecrementTicks
<1> HIDE DEF d
<1>6. Typed(d)
  <2>1. \A u \in Thread : d.ticks[u] = s.ticks[u] \/ d.ticks[u] >= -5
    BY <1>1, <1>2, <1>4 DEF VMState
  <2> QED BY <2>1, <1>3 DEF KernelInv, Typed, Thread
<1>7. ReadyQueued(d) /\ QueuedRunnable(d, NULL) /\ RunningIsTr(d) /\ IdleRuns(d)
  BY <1>4 DEF KernelInv, ReadyQueued, QueuedRunnable, RunningIsTr, IdleRuns
<1>8. Registered(d) /\ DeadReleased(d, NULL) /\ Dying(d, NULL) /\ MutexInv(d)
  BY <1>4 DEF KernelInv, Registered, DeadReleased, Dying, MutexInv, HeldOwned, HeldOnce, HeldNotAwaited, FreeUnqueued
<1>9. KernelInv(d, NULL)
  BY <1>6, <1>7, <1>8 DEF KernelInv
<1> QED BY <1>4, <1>5, <1>9, WakeUpInv

\* The loop of timerISR, up to round n.
TickLoop(after, s, n) ==
  [i \in 0 .. n |->
     IF i = 0 THEN s ELSE DecrementTicks(after[i - 1], s.threads[i])]

\* The loop of TimerTick is a function: it has a value after every round.
LEMMA TickLoopExists ==
  ASSUME NEW s, NEW n \in Nat
  PROVE  \E after : after = TickLoop(after, s, n)
<1> DEFINE Inv == {k \in 0 .. n : \E f : f = TickLoop(f, s, k)}
<1>1. 0 \in Inv
  <2>1. [i \in 0 .. 0 |-> s] = TickLoop([i \in 0 .. 0 |-> s], s, 0)
    BY DEF TickLoop
  <2> QED BY <2>1
<1>2. ASSUME NEW k \in 0 .. n - 1, k \in Inv PROVE k + 1 \in Inv
  <2>1. PICK f : f = TickLoop(f, s, k)
    BY <1>2
  <2> DEFINE g == [i \in 0 .. k + 1 |->
                     IF i = k + 1 THEN DecrementTicks(f[k], s.threads[i]) ELSE f[i]]
  <2>2. ASSUME NEW i \in 0 .. k + 1
        PROVE  g[i] = TickLoop(g, s, k + 1)[i]
    <3>1. CASE i = k + 1
      BY <3>1 DEF TickLoop
    <3>2. CASE i # k + 1
      <4>1. i \in 0 .. k
        BY <3>2
      <4>2. f[i] = TickLoop(f, s, k)[i]
        BY <2>1
      <4>3. i = 0 \/ (i - 1 \in 0 .. k /\ i - 1 # k + 1)
        BY <4>1
      <4> QED BY <4>1, <4>2, <4>3, <3>2 DEF TickLoop
    <3> QED BY <3>1, <3>2
  <2>3. g = TickLoop(g, s, k + 1)
    BY <2>2 DEF TickLoop
  <2>4. k + 1 \in 0 .. n
    OBVIOUS
  <2> HIDE DEF g
  <2> QED BY <2>3, <2>4
<1>3. n \in Inv
  <2> HIDE DEF Inv
  <2> QED BY <1>1, <1>2, Rounds
<1> QED BY <1>3

\* After every round of the loop of timerISR.
LEMMA TickRounds ==
  ASSUME NEW s, Len(s.threads) \in Nat
  PROVE  \E R : /\ TimerTick(s) = R[Len(s.threads)]
                /\ R[0] = s
                /\ \A i \in 1 .. Len(s.threads) :
                     R[i] = DecrementTicks(R[i - 1], s.threads[i])
<1> DEFINE n == Len(s.threads)
           R == CHOOSE f : f = TickLoop(f, s, n)
<1>1. R = TickLoop(R, s, n)
  BY TickLoopExists
<1>2. TimerTick(s) = R[n]
  BY DEF TimerTick, TickLoop
<1> HIDE DEF R
<1>3. TickLoop(R, s, n)[0] = s
  BY DEF TickLoop
<1>4. \A i \in 1 .. n : TickLoop(R, s, n)[i] = DecrementTicks(R[i - 1], s.threads[i])
  BY DEF TickLoop
<1> HIDE DEF n
<1>5. R[0] = s /\ \A i \in 1 .. n : R[i] = DecrementTicks(R[i - 1], s.threads[i])
  BY <1>1, <1>3, <1>4
<1> QED BY <1>2, <1>5 DEF n

\* The interrupt decrements the ticks of every thread and wakes any number
\* of them.
LEMMA TimerTickInv ==
  ASSUME NEW s, KernelInv(s, NULL)
  PROVE  KernelInv(TimerTick(s), NULL)
<1> DEFINE n == Len(s.threads)
<1>1. s.threads \in Seq(Thread)
  BY DEF KernelInv, Typed, VMState
<1>2. n \in Nat /\ DOMAIN s.threads = 1 .. n
  BY <1>1, QueueType
<1>3. PICK R : /\ TimerTick(s) = R[n]
               /\ R[0] = s
               /\ \A i \in 1 .. n : R[i] = DecrementTicks(R[i - 1], s.threads[i])
  BY <1>2, TickRounds
<1> HIDE DEF n
<1> DEFINE Inv == {i \in 0 .. n : KernelInv(R[i], NULL) /\ R[i].threads = s.threads}
<1>6. 0 \in Inv
  BY <1>2, <1>3
<1>7. ASSUME NEW i \in 0 .. n - 1, i \in Inv PROVE i + 1 \in Inv
  <2> DEFINE a == R[i]
             b == R[i + 1]
             u == s.threads[i + 1]
  <2>1. KernelInv(a, NULL) /\ a.threads = s.threads
    BY <1>7
  <2>2. i + 1 \in 0 .. n /\ (i + 1) - 1 = i /\ i + 1 \in 1 .. n
    BY <1>2
  <2>3. b = DecrementTicks(a, u)
    BY <2>2, <1>3
  <2>4. u \in Elems(a.threads)
    BY <2>1, <2>2, <1>2 DEF Elems
  <2> HIDE DEF a, b, u
  <2>5. KernelInv(b, NULL) /\ b.threads = s.threads
    BY <2>1, <2>3, <2>4, DecrementInv
  <2> QED BY <2>2, <2>5 DEF b
<1>8. n \in Inv
  <2> HIDE DEF Inv
  <2> QED BY <1>2, <1>6, <1>7, Rounds
<1> QED BY <1>3, <1>8

-----------------------------------------------------------------------------
(* What happens to waiters and locks                                       *)

\* From s to r, nobody is registered or named, begins to wait or dies: who
\* waits in r waited in s, holds what it held, and is in the queues it was in.
Onward(s, r) ==
  /\ r.threads = s.threads /\ r.mutexes = s.mutexes
  /\ r.id = s.id /\ r.nextID = s.nextID
  /\ r.halt = "no" => s.halt = "no"
  /\ \A t \in Thread : r.state[t] = "WAITING" =>
       /\ s.state[t] = "WAITING" /\ r.held[t] = s.held[t]
       /\ \A m \in Mutex : t \in Elems(s.QTex[m]) => t \in Elems(r.QTex[m])
  /\ \A t \in Thread : r.state[t] = "DEAD" => s.state[t] = "DEAD"

LockKept(s, r, m) == r.owner[m] = s.owner[m] /\ r.QTex[m] = s.QTex[m]

LockReleased(s, r, m) ==
  /\ s.owner[m] # NULL
  /\ \/ s.QTex[m] = << >> /\ r.owner[m] = NULL /\ r.QTex[m] = << >>
     \/ /\ s.QTex[m] # << >>
        /\ r.owner[m] = Head(s.QTex[m]) /\ r.QTex[m] = Tail(s.QTex[m])

LockThinned(s, r, m) == r.owner[m] = s.owner[m] /\ Thinned(s.QTex[m], r.QTex[m])

\* One operator after another.
LEMMA OnwardTwice ==
  ASSUME NEW s, NEW q, NEW r, Onward(s, q), Onward(q, r)
  PROVE  Onward(s, r)
BY DEF Onward

\* A thread is pushed on its ready queue.
LEMMA PushOnward ==
  ASSUME NEW s \in VMState, NEW t \in Thread
  PROVE  LET r == PushReady([s EXCEPT !.state[t] = "READY"], t) IN
         /\ Onward(s, r)
         /\ r.owner = s.owner /\ r.QTex = s.QTex
<1> DEFINE r == PushReady([s EXCEPT !.state[t] = "READY"], t)
<1>1. /\ r.state = [s.state EXCEPT ![t] = "READY"]
      /\ r.threads = s.threads /\ r.mutexes = s.mutexes /\ r.id = s.id
      /\ r.nextID = s.nextID /\ r.held = s.held /\ r.owner = s.owner
      /\ r.QTex = s.QTex /\ r.halt = s.halt
  BY DEF PushReady, VMState
<1> HIDE DEF r
<1>2. \A u \in Thread : /\ r.state[u] = "WAITING" => s.state[u] = "WAITING"
                        /\ r.state[u] = "DEAD" => s.state[u] = "DEAD"
  BY <1>1 DEF VMState
<1>3. Onward(s, r)
  BY <1>1, <1>2 DEF Onward
<1> QED BY <1>1, <1>3 DEF r

\* scheduler() is not about locks, and nobody begins to wait in it.
LEMMA SchedulerOnward ==
  ASSUME NEW s, KernelInv(s, NULL)
  PROVE  LET r == Scheduler(s) IN
         /\ Onward(s, r)
         /\ r.owner = s.owner /\ r.QTex = s.QTex
<1> DEFINE q == Requeue(s)
           r == Scheduler(s)
<1>1. s \in VMState /\ s.tr \in Thread
  BY DEF KernelInv, Typed, VMState
<1>2. Onward(s, q) /\ q.owner = s.owner /\ q.QTex = s.QTex
  <2>1. Onward(s, s)
    BY DEF Onward
  <2> QED BY <1>1, <2>1, PushOnward DEF Requeue
<1>3. KernelInv(q, NULL)
  BY RequeueInv
<1>4. q \in VMState
  BY <1>3 DEF KernelInv, Typed
<1> HIDE DEF q
<1>5. CASE \A p \in Priority : q.readyQ[p] = << >>
  <2>1. r = Undefined(q)
    BY <1>5 DEF Scheduler, q
  <2>2. /\ r.state = q.state /\ r.threads = q.threads /\ r.mutexes = q.mutexes
        /\ r.id = q.id /\ r.nextID = q.nextID /\ r.held = q.held
        /\ r.owner = q.owner /\ r.QTex = q.QTex /\ r.halt = "undefined"
    BY <2>1, <1>4 DEF Undefined, VMState
  <2> HIDE DEF r
  <2>3. Onward(q, r)
    BY <2>2 DEF Onward
  <2>4. Onward(s, r)
    BY <1>2, <2>3, OnwardTwice
  <2> QED BY <1>2, <2>2, <2>4 DEF r
<1>6. CASE \E p \in Priority : q.readyQ[p] # << >>
  <2> DEFINE h == Head(q.readyQ[Highest(q)])
  <2>1. r = Dispatch(q, Highest(q))
    BY <1>6 DEF Scheduler, q
  <2>2. /\ r.state = [q.state EXCEPT ![h] = "RUNNING"]
        /\ r.threads = q.threads /\ r.mutexes = q.mutexes
        /\ r.id = q.id /\ r.nextID = q.nextID /\ r.held = q.held
        /\ r.owner = q.owner /\ r.QTex = q.QTex /\ r.halt = q.halt
    BY <2>1, <1>4 DEF Dispatch, VMState
  <2> HIDE DEF r, h
  <2>3. \A u \in Thread : /\ r.state[u] = "WAITING" => q.state[u] = "WAITING"
                          /\ r.state[u] = "DEAD" => q.state[u] = "DEAD"
    BY <1>4, <2>2 DEF VMState
  <2>4. Onward(q, r)
    BY <2>2, <2>3 DEF Onward
  <2>5. Onward(s, r)
    BY <1>2, <2>4, OnwardTwice
  <2> QED BY <1>2, <2>2, <2>5 DEF r
<1> QED BY <1>5, <1>6

\* Mutex::release: the head of the queue, if any, is the new owner and stops
\* waiting.
LEMMA ReleaseOnward ==
  ASSUME NEW s \in VMState, NEW m \in Mutex, s.owner[m] # NULL
  PROVE  LET r == Release(s, m) IN
         /\ Onward(s, r) /\ r.held = s.held
         /\ \A n \in Mutex : n # m => LockKept(s, r, n)
         /\ LockKept(s, r, m) \/ LockReleased(s, r, m)
         /\ r.halt = "no" => LockReleased(s, r, m)
<1> DEFINE r == Release(s, m)
           h == Head(s.QTex[m])
           q == Tail(s.QTex[m])
<1>1. s.QTex[m] \in Seq(Thread) /\ s.QTex \in [Mutex -> Seq(Thread)] /\ s.owner \in [Mutex -> Thread \cup {NULL}]
  BY DEF VMState
<1>2. CASE s.QTex[m] = << >>
  <2>1. r = [s EXCEPT !.owner[m] = NULL]
    BY <1>2 DEF Release
  <2>2. /\ r.owner = [s.owner EXCEPT ![m] = NULL] /\ r.state = s.state
        /\ r.threads = s.threads /\ r.mutexes = s.mutexes
        /\ r.id = s.id /\ r.nextID = s.nextID /\ r.held = s.held
        /\ r.QTex = s.QTex /\ r.halt = s.halt
    BY <2>1 DEF VMState
  <2> HIDE DEF r
  <2>3. Onward(s, r)
    BY <2>2 DEF Onward
  <2>4. \A n \in Mutex : n # m => LockKept(s, r, n)
    BY <1>1, <2>2 DEF LockKept
  <2>5. LockReleased(s, r, m)
    BY <1>1, <1>2, <2>2 DEF LockReleased
  <2> QED BY <2>2, <2>3, <2>4, <2>5 DEF r
<1>3. CASE s.QTex[m] # << >> /\ h \in s.freed
  <2>1. r = Undefined(s)
    BY <1>3 DEF Release
  <2>2. /\ r.owner = s.owner /\ r.state = s.state
        /\ r.threads = s.threads /\ r.mutexes = s.mutexes
        /\ r.id = s.id /\ r.nextID = s.nextID /\ r.held = s.held
        /\ r.QTex = s.QTex /\ r.halt = "undefined"
    BY <2>1 DEF Undefined, VMState
  <2> HIDE DEF r
  <2>3. Onward(s, r)
    BY <2>2 DEF Onward
  <2>4. \A n \in Mutex : LockKept(s, r, n)
    BY <2>2 DEF LockKept
  <2> QED BY <2>2, <2>3, <2>4 DEF r
<1>4. CASE s.QTex[m] # << >> /\ h \notin s.freed
  <2>1. /\ h \in Thread /\ q \in Seq(Thread)
        /\ Elems(s.QTex[m]) = Elems(q) \cup {h}
    BY <1>1, <1>4, TailElems
  <2>2. r = StopWaiting([s EXCEPT !.owner[m] = h, !.QTex[m] = q], h)
    BY <1>4 DEF Release, HandOver
  <2> HIDE DEF h, q
  <2>3. /\ r.owner = [s.owner EXCEPT ![m] = h] /\ r.QTex = [s.QTex EXCEPT ![m] = q]
        /\ r.state = [s.state EXCEPT ![h] = "READY"]
        /\ r.threads = s.threads /\ r.mutexes = s.mutexes
        /\ r.id = s.id /\ r.nextID = s.nextID /\ r.held = s.held
        /\ r.halt = s.halt
    BY <2>2 DEF StopWaiting, PushReady, VMState
  <2> HIDE DEF r
  <2>4. \A u \in Thread : /\ r.state[u] = "WAITING" => s.state[u] = "WAITING" /\ u # h
                          /\ r.state[u] = "DEAD" => s.state[u] = "DEAD"
    BY <2>3 DEF VMState
  <2>5. r.QTex[m] = q /\ \A n \in Mutex : n # m => r.QTex[n] = s.QTex[n]
    BY <1>1, <2>3
  <2>6. Onward(s, r)
    BY <2>1, <2>3, <2>4, <2>5 DEF Onward
  <2>7. r.owner[m] = h /\ \A n \in Mutex : n # m => r.owner[n] = s.owner[n]
    BY <1>1, <2>3
  <2>8. \A n \in Mutex : n # m => LockKept(s, r, n)
    BY <2>5, <2>7 DEF LockKept
  <2>9. LockReleased(s, r, m)
    BY <1>4, <2>5, <2>7 DEF LockReleased, h, q
  <2> QED BY <2>3, <2>6, <2>8, <2>9 DEF r
<1> QED BY <1>2, <1>3, <1>4

\* The k-th mutex of a thread that does not wait is released.
LEMMA ReleaseAtOnward ==
  ASSUME NEW s, NEW dying, KernelInv(s, dying), NEW t \in Thread,
         s.state[t] # "WAITING", NEW k \in 1 .. Len(s.held[t])
  PROVE  LET r == ReleaseAt(s, t, k)
             m == s.held[t][k] IN
         /\ Onward(s, r)
         /\ m \in Mutex /\ s.owner[m] = t
         /\ \A n \in Mutex : n # m => LockKept(s, r, n)
         /\ LockKept(s, r, m) \/ LockReleased(s, r, m)
         /\ r.halt = "no" => LockReleased(s, r, m)
<1> DEFINE m == s.held[t][k]
           q == Release(s, m)
           r == ReleaseAt(s, t, k)
<1>1. s \in VMState /\ s.held[t] \in Seq(Mutex)
  BY DEF KernelInv, Typed, VMState
<1>2. m \in Mutex /\ s.owner[m] = t /\ s.owner[m] # NULL
  <2>1. DOMAIN s.held[t] = 1 .. Len(s.held[t])
    BY <1>1, QueueType
  <2>2. m \in Elems(s.held[t]) /\ m \in Mutex
    BY <1>1, <2>1, QueueType DEF Elems
  <2> QED BY <2>2, ObjectAssumption DEF KernelInv, MutexInv, HeldOwned
<1>3. r = [q EXCEPT !.held[t] = Erase(@, k)]
  BY DEF ReleaseAt
<1> HIDE DEF m, r
<1>4. /\ Onward(s, q) /\ q.held = s.held
      /\ \A n \in Mutex : n # m => LockKept(s, q, n)
      /\ LockKept(s, q, m) \/ LockReleased(s, q, m)
      /\ q.halt = "no" => LockReleased(s, q, m)
  BY <1>1, <1>2, ReleaseOnward
<1>5. /\ r.threads = q.threads /\ r.mutexes = q.mutexes /\ r.id = q.id
      /\ r.nextID = q.nextID /\ r.halt = q.halt /\ r.state = q.state
      /\ r.owner = q.owner /\ r.QTex = q.QTex
      /\ r.held = [q.held EXCEPT ![t] = Erase(@, k)]
  BY <1>1, <1>3, SMTT(30) DEF Release, HandOver, StopWaiting, PushReady, Undefined, VMState
<1> HIDE DEF q
<1>6. \A u \in Thread : u # t => r.held[u] = s.held[u]
  BY <1>1, <1>4, <1>5 DEF VMState
<1>7. Onward(s, r)
  BY <1>4, <1>5, <1>6 DEF Onward
<1>8. /\ \A n \in Mutex : n # m => LockKept(s, r, n)
      /\ LockKept(s, r, m) \/ LockReleased(s, r, m)
      /\ r.halt = "no" => LockReleased(s, r, m)
  BY <1>4, <1>5 DEF LockKept, LockReleased
<1> QED BY <1>2, <1>7, <1>8 DEF r, m

\* Every lock that a thread gives up in a termination was its own, and it is
\* released once; those in its heldMutex are, if nothing undefined happens.
LEMMA ReleaseAllOnward ==
  ASSUME NEW s, NEW dying \in Thread \cup {NULL}, KernelInv(s, dying),
         NEW t \in Thread, dying = NULL \/ dying = t, s.state[t] # "WAITING"
  PROVE  LET r == ReleaseAllMutex(s, t) IN
         /\ Onward(s, r)
         /\ \A m \in Mutex : \/ LockKept(s, r, m)
                             \/ s.owner[m] = t /\ LockReleased(s, r, m)
         /\ r.halt = "no" => \A m \in Elems(s.held[t]) : LockReleased(s, r, m)
<1> DEFINE n == Len(s.held[t])
           Locks(r) == \A m \in Mutex :
             \/ LockKept(s, r, m)
             \/ /\ s.owner[m] = t /\ LockReleased(s, r, m)
                /\ m \notin Elems(r.held[t])
           Gone(r) == r.halt = "no" => \A m \in Elems(s.held[t]) :
             m \in Elems(r.held[t]) \/ LockReleased(s, r, m)
<1>1. n \in Nat
  BY QueueType DEF KernelInv, Typed, VMState
<1>2. PICK R : /\ ReleaseAllMutex(s, t) = R[n]
               /\ R[0] = s
               /\ \A i \in 1 .. n : R[i] = ReleaseAt(R[i - 1], t, Len(R[i - 1].held[t]))
  BY <1>1, ReleaseRounds
<1> DEFINE Good(i) == /\ KernelInv(R[i], dying) /\ Len(R[i].held[t]) = n - i
                      /\ Onward(s, R[i]) /\ Locks(R[i]) /\ Gone(R[i])
           Inv == {i \in 0 .. n : Good(i)}
<1>3. 0 \in Inv
  <2>1. Onward(s, s) /\ Locks(s) /\ Gone(s)
    BY DEF Onward, LockKept
  <2> HIDE DEF Locks, Gone
  <2>2. Len(R[0].held[t]) = n - 0
    BY <1>1, <1>2
  <2> HIDE DEF n
  <2>3. Good(0)
    BY <1>2, <2>1, <2>2
  <2> QED BY <1>1, <2>3
<1>4. ASSUME NEW i \in 0 .. n - 1, i \in Inv PROVE i + 1 \in Inv
  <2> DEFINE a == R[i]
             k == Len(a.held[t])
             b == R[i + 1]
             x == a.held[t][k]
  <2> HIDE DEF Locks, Gone, n
  <2>1. /\ KernelInv(a, dying) /\ k = n - i /\ Onward(s, a)
        /\ Locks(a) /\ Gone(a)
    BY <1>4
  <2>2. i + 1 \in 1 .. n /\ (i + 1) - 1 = i /\ k \in 1 .. k /\ k - 1 = n - (i + 1) /\ k \in Nat
    BY <1>1, <2>1
  <2>3. b = ReleaseAt(a, t, k)
    BY <1>2, <2>2
  <2> HIDE DEF a, b
  <2>4. KernelInv(b, dying) /\ b.held = [a.held EXCEPT ![t] = Erase(@, k)]
    BY <2>1, <2>2, <2>3, ReleaseAtInv
  <2>5. a.state[t] # "WAITING"
    BY <2>1 DEF Onward
  <2>6. /\ Onward(a, b) /\ x \in Mutex /\ a.owner[x] = t
        /\ \A m \in Mutex : m # x => LockKept(a, b, m)
        /\ LockKept(a, b, x) \/ LockReleased(a, b, x)
        /\ b.halt = "no" => LockReleased(a, b, x)
    BY <2>1, <2>2, <2>3, <2>5, ReleaseAtOnward
  <2>7. a.held \in [Thread -> Seq(Mutex)] /\ a.held[t] \in Seq(Mutex)
    BY <2>1 DEF KernelInv, Typed, VMState
  <2>8. /\ Len(Erase(a.held[t], k)) = k - 1
        /\ Elems(Erase(a.held[t], k)) = Elems(a.held[t]) \ {x}
    <3>1. \A j, l \in 1 .. k : a.held[t][j] = a.held[t][l] => j = l
      BY <2>1 DEF KernelInv, MutexInv, HeldOnce
    <3> DEFINE q == a.held[t]
    <3>2. q \in Seq(Mutex) /\ k = Len(q) /\ k \in 1 .. Len(q)
      BY <2>2, <2>7
    <3>3. \A j, l \in 1 .. Len(q) : q[j] = q[l] => j = l
      BY <3>1
    <3>4. x = q[k]
      OBVIOUS
    <3> HIDE DEF q, k, x
    <3>5. Len(Erase(q, k)) = Len(q) - 1 /\ Elems(Erase(q, k)) = Elems(q) \ {q[k]}
      BY <3>2, <3>3, EraseElems
    <3> QED BY <3>2, <3>4, <3>5 DEF q
  <2>9. Len(b.held[t]) = n - (i + 1) /\ Elems(b.held[t]) = Elems(a.held[t]) \ {x}
    BY <2>2, <2>4, <2>7, <2>8
  <2>10. Onward(s, b)
    BY <2>1, <2>6, OnwardTwice
  <2>11. x \in Elems(a.held[t])
    <3>1. k \in DOMAIN a.held[t]
      BY <2>2, <2>7, QueueType
    <3> QED BY <3>1 DEF Elems
  <2> HIDE DEF k, x
  <2>12. Locks(b)
    <3>1. ASSUME NEW m \in Mutex, m # x
          PROVE  \/ LockKept(s, b, m)
                 \/ /\ s.owner[m] = t /\ LockReleased(s, b, m)
                    /\ m \notin Elems(b.held[t])
      <4>1. LockKept(a, b, m)
        BY <2>6, <3>1
      <4>2. CASE LockKept(s, a, m)
        BY <4>1, <4>2 DEF LockKept
      <4>3. CASE s.owner[m] = t /\ LockReleased(s, a, m) /\ m \notin Elems(a.held[t])
        <5>1. LockReleased(s, b, m)
          BY <4>1, <4>3 DEF LockKept, LockReleased
        <5> QED BY <4>3, <5>1, <2>9
      <4> QED BY <2>1, <4>2, <4>3 DEF Locks
    <3>2. /\ LockKept(s, a, x) /\ s.owner[x] = t
          /\ x \notin Elems(b.held[t])
      <4>1. LockKept(s, a, x)
        BY <2>1, <2>6, <2>11 DEF Locks
      <4> QED BY <4>1, <2>6, <2>9 DEF LockKept
    <3>3. LockKept(s, b, x) \/ LockReleased(s, b, x)
      BY <2>6, <3>2 DEF LockKept, LockReleased
    <3> QED BY <3>1, <3>2, <3>3 DEF Locks
  <2>13. i + 1 \in 0 .. n
    BY <2>2
  <2>14. Gone(b)
    <3> SUFFICES ASSUME b.halt = "no", NEW m \in Elems(s.held[t]),
                        m \notin Elems(b.held[t])
                 PROVE  LockReleased(s, b, m)
      BY DEF Gone
    <3>1. a.halt = "no"
      BY <2>6 DEF Onward
    <3>2. CASE m = x
      <4>1. LockKept(s, a, x)
        BY <2>1, <2>6, <2>11 DEF Locks
      <4> QED BY <2>6, <3>2, <4>1 DEF LockKept, LockReleased
    <3>3. CASE m # x
      <4>1. m \in Mutex /\ m \notin Elems(a.held[t])
        BY <1>1, <2>9, <3>3, QueueType DEF KernelInv, Typed, VMState
      <4>2. LockReleased(s, a, m)
        BY <2>1, <3>1, <4>1 DEF Gone
      <4> QED BY <2>6, <3>3, <4>1, <4>2 DEF LockKept, LockReleased
    <3> QED BY <3>2, <3>3
  <2> QED BY <2>4, <2>9, <2>10, <2>12, <2>13, <2>14 DEF b
<1>5. n \in Inv
  <2> HIDE DEF Inv, n
  <2> QED BY <1>1, <1>3, <1>4, Rounds
<1>6. ReleaseAllMutex(s, t).held[t] = << >>
  BY ReleaseAllInv
<1>7. Elems(<< >>) = {}
  BY DEF Elems
<1> QED BY <1>2, <1>5, <1>6, <1>7

\* VMThreadTerminate: once its thread is marked DEAD, its locks are released.
LEMMA TerminateOnward ==
  ASSUME NEW s, KernelInv(s, NULL), NEW t \in Thread \ {Idle}
  PROVE  LET r == Terminate(s, t) IN
         /\ Onward([s EXCEPT !.state[t] = "DEAD"], r)
         /\ \A m \in Mutex : \/ LockKept(s, r, m)
                             \/ s.owner[m] = t /\ LockReleased(s, r, m)
         /\ r.halt = "no" => \A m \in Elems(s.held[t]) : LockReleased(s, r, m)
<1> DEFINE d == [s EXCEPT !.state[t] = "DEAD"]
           q == ReleaseAllMutex(d, t)
           r == Terminate(s, t)
<1>1. s \in VMState
  BY DEF KernelInv, Typed
<1>2. KernelInv(d, t)
  BY MarkDead
<1>3. d.state[t] # "WAITING" /\ d.held = s.held /\ d.owner = s.owner /\ d.QTex = s.QTex
  BY <1>1 DEF VMState
<1>4. r = [q EXCEPT !.readyQ[s.prio[t]] = Without(@, t)]
  BY DEF Terminate
<1> HIDE DEF d, r
<1>5. /\ Onward(d, q)
      /\ \A m \in Mutex : \/ LockKept(d, q, m)
                          \/ d.owner[m] = t /\ LockReleased(d, q, m)
      /\ q.halt = "no" => \A m \in Elems(d.held[t]) : LockReleased(d, q, m)
  BY <1>2, <1>3, ReleaseAllOnward
<1>6. KernelInv(q, t)
  BY <1>2, ReleaseAllInv
<1> HIDE DEF q
<1>7. /\ r.state = q.state /\ r.threads = q.threads
      /\ r.mutexes = q.mutexes /\ r.id = q.id /\ r.nextID = q.nextID
      /\ r.halt = q.halt /\ r.held = q.held /\ r.owner = q.owner
      /\ r.QTex = q.QTex
  BY <1>4, <1>6 DEF KernelInv, Typed, VMState
<1>8. Onward(q, r)
  BY <1>7 DEF Onward
<1>9. Onward(d, r)
  BY <1>5, <1>8, OnwardTwice
<1>10. \A m : /\ LockKept(d, q, m) => LockKept(s, r, m)
              /\ LockReleased(d, q, m) => LockReleased(s, r, m)
  BY <1>3, <1>7 DEF LockKept, LockReleased
<1>11. \A m \in Mutex : \/ LockKept(s, r, m)
                        \/ s.owner[m] = t /\ LockReleased(s, r, m)
  BY <1>3, <1>5, <1>10
<1>12. r.halt = "no" => \A m \in Elems(s.held[t]) : LockReleased(s, r, m)
  BY <1>3, <1>5, <1>7, <1>10
<1> QED BY <1>9, <1>11, <1>12 DEF r, d

\* decrementTicks makes a thread ready and takes it out of one queue.
LEMMA DecrementOnward ==
  ASSUME NEW s \in VMState, NEW t \in Thread
  PROVE  LET r == DecrementTicks(s, t) IN
         Onward(s, r) /\ \A m \in Mutex : LockThinned(s, r, m)
<1> DEFINE d == [s EXCEPT !.ticks[t] = CountDown(@)]
           w == s.waiting[t]
           q == Without(s.QTex[w], t)
           r == DecrementTicks(s, t)
<1>1. /\ d.threads = s.threads /\ d.mutexes = s.mutexes /\ d.id = s.id
      /\ d.nextID = s.nextID /\ d.halt = s.halt /\ d.held = s.held
      /\ d.owner = s.owner /\ d.QTex = s.QTex /\ d.state = s.state
      /\ d.waiting = s.waiting /\ d.freed = s.freed
  BY DEF VMState
<1>2. r = d \/ r = WakeUp(d, t)
  BY DEF DecrementTicks
<1>3. CASE \/ r = d
           \/ r = WakeUp(d, t) /\ (w = NULL \/ w \in s.freed)
  <2>1. /\ r.threads = s.threads /\ r.mutexes = s.mutexes /\ r.id = s.id
        /\ r.nextID = s.nextID /\ (r.halt = "no" => s.halt = "no")
        /\ r.held = s.held /\ r.owner = s.owner /\ r.QTex = s.QTex
        /\ r.state = s.state \/ r.state = [s.state EXCEPT ![t] = "READY"]
    <3> HIDE DEF d
    <3>1. CASE r = d
      <4> HIDE DEF r
      <4> QED BY <1>1, <3>1
    <3>2. CASE r = WakeUp(d, t) /\ w = NULL
      <4> DEFINE e == [d EXCEPT !.state[t] = "READY"]
      <4>1. r = PushReady(e, t)
        BY <1>1, <3>2 DEF WakeUp
      <4> HIDE DEF r
      <4>2. r = [e EXCEPT !.readyQ[e.prio[t]] = Append(@, t)]
        BY <4>1 DEF PushReady
      <4>3. d = [s EXCEPT !.ticks[t] = CountDown(@)]
        BY DEF d
      <4> QED BY <1>1, <4>2, <4>3 DEF VMState
    <3>3. CASE r = WakeUp(d, t) /\ w # NULL /\ w \in s.freed
      <4>1. r = [d EXCEPT !.halt = "undefined"]
        BY <1>1, <3>3 DEF WakeUp, Undefined
      <4> HIDE DEF r
      <4>2. d = [s EXCEPT !.ticks[t] = CountDown(@)]
        BY DEF d
      <4> QED BY <1>1, <4>1, <4>2 DEF VMState
    <3> QED BY <1>3, <3>1, <3>2, <3>3
  <2> HIDE DEF r
  <2>2. \A u \in Thread : /\ r.state[u] = "WAITING" => s.state[u] = "WAITING"
                          /\ r.state[u] = "DEAD" => s.state[u] = "DEAD"
    BY <2>1 DEF VMState
  <2>3. Onward(s, r)
    BY <2>1, <2>2 DEF Onward
  <2>4. \A m \in Mutex : LockThinned(s, r, m)
    BY <2>1, ThinNothing DEF LockThinned
  <2> QED BY <2>3, <2>4 DEF r
<1>4. CASE r = WakeUp(d, t) /\ w # NULL /\ w \notin s.freed
  <2>1. w \in Mutex /\ s.QTex[w] \in Seq(Thread) /\ s.QTex \in [Mutex -> Seq(Thread)]
    BY <1>4 DEF VMState
  <2>2. /\ Elems(q) = Elems(s.QTex[w]) \ {t}
        /\ Thinned(s.QTex[w], q)
    BY <2>1, WithoutElems, WithoutThins
  <2>3. r = PushReady(WaitTimeout(d, w, t), t)
    BY <1>1, <1>4 DEF WakeUp
  <2>4. WaitTimeout(d, w, t) = StopWaiting([d EXCEPT !.QTex[w] = q], t)
    BY <1>1, <2>1 DEF WaitTimeout, VMState
  <2> HIDE DEF q, r, w
  <2>5. /\ r.threads = s.threads /\ r.mutexes = s.mutexes /\ r.id = s.id
        /\ r.nextID = s.nextID /\ r.halt = s.halt
        /\ r.held = s.held /\ r.owner = s.owner
        /\ r.QTex = [s.QTex EXCEPT ![w] = q]
        /\ r.state = [s.state EXCEPT ![t] = "READY"]
    BY <2>3, <2>4 DEF StopWaiting, PushReady, VMState
  <2>6. r.QTex[w] = q /\ \A m \in Mutex : m # w => r.QTex[m] = s.QTex[m]
    BY <2>1, <2>5
  <2>7. \A u \in Thread : /\ r.state[u] = "WAITING" => s.state[u] = "WAITING" /\ u # t
                          /\ r.state[u] = "DEAD" => s.state[u] = "DEAD"
    BY <2>5 DEF VMState
  <2>8. Onward(s, r)
    BY <2>2, <2>5, <2>6, <2>7 DEF Onward
  <2>9. \A m \in Mutex : LockThinned(s, r, m)
    BY <2>2, <2>5, <2>6, ThinNothing DEF LockThinned
  <2> QED BY <2>8, <2>9 DEF r
<1> QED BY <1>2, <1>3, <1>4

\* A time-out of any number of threads: waiters go from the queues, the
\* owners stay.
LEMMA TimerTickOnward ==
  ASSUME NEW s, KernelInv(s, NULL)
  PROVE  LET r == TimerTick(s) IN
         Onward(s, r) /\ \A m \in Mutex : LockThinned(s, r, m)
<1> DEFINE n == Len(s.threads)
           Thins(r) == \A m \in Mutex : LockThinned(s, r, m)
<1>1. s.threads \in Seq(Thread)
  BY DEF KernelInv, Typed, VMState
<1>2. n \in Nat /\ DOMAIN s.threads = 1 .. n /\ Elems(s.threads) \subseteq Thread
  BY <1>1, QueueType
<1>3. PICK R : /\ TimerTick(s) = R[n]
               /\ R[0] = s
               /\ \A i \in 1 .. n : R[i] = DecrementTicks(R[i - 1], s.threads[i])
  BY <1>2, TickRounds
<1> HIDE DEF n
<1> DEFINE Good(i) == /\ KernelInv(R[i], NULL) /\ R[i].threads = s.threads
                      /\ Onward(s, R[i]) /\ Thins(R[i])
           Inv == {i \in 0 .. n : Good(i)}
<1>4. 0 \in Inv
  <2>1. Onward(s, s) /\ Thins(s)
    BY ThinNothing DEF Onward, LockThinned
  <2> QED BY <1>2, <1>3, <2>1
<1>5. ASSUME NEW i \in 0 .. n - 1, i \in Inv PROVE i + 1 \in Inv
  <2> DEFINE a == R[i]
             b == R[i + 1]
             u == s.threads[i + 1]
  <2> HIDE DEF Thins
  <2>1. KernelInv(a, NULL) /\ a.threads = s.threads /\ Onward(s, a) /\ Thins(a)
    BY <1>5
  <2>2. i + 1 \in 0 .. n /\ (i + 1) - 1 = i /\ i + 1 \in 1 .. n
    BY <1>2
  <2>3. b = DecrementTicks(a, u)
    BY <2>2, <1>3
  <2>4. u \in Elems(a.threads) /\ u \in Thread /\ a \in VMState
    BY <2>1, <2>2, <1>2 DEF Elems, KernelInv, Typed
  <2> HIDE DEF a, b, u
  <2>5. KernelInv(b, NULL) /\ b.threads = s.threads
    BY <2>1, <2>3, <2>4, DecrementInv
  <2>6. Onward(a, b) /\ \A m \in Mutex : LockThinned(a, b, m)
    BY <2>3, <2>4, DecrementOnward
  <2>7. Onward(s, b)
    BY <2>1, <2>6, OnwardTwice
  <2>8. Thins(b)
    BY <2>1, <2>6, ThinTwice DEF Thins, LockThinned
  <2> QED BY <2>2, <2>5, <2>7, <2>8 DEF b
<1>6. n \in Inv
  <2> HIDE DEF Inv
  <2> QED BY <1>2, <1>4, <1>5, Rounds
<1> QED BY <1>3, <1>6

\* VMMutexRelease: one lock of the running thread.
LEMMA ReleaseMutexOnward ==
  ASSUME NEW s, KernelInv(s, NULL), NEW t \in Thread, s.state[t] # "WAITING",
         NEW m \in Elems(s.held[t])
  PROVE  LET r == ReleaseMutex(s, t, m) IN
         /\ Onward(s, r)
         /\ \A n \in Mutex : n # m => LockKept(s, r, n)
         /\ LockKept(s, r, m) \/ LockReleased(s, r, m)
<1>1. PICK k \in 1 .. Len(s.held[t]) :
        s.held[t][k] = m /\ ReleaseMutex(s, t, m) = ReleaseAt(s, t, k)
  BY FirstHeld
<1> HIDE DEF ReleaseMutex
<1> QED BY <1>1, ReleaseAtOnward

LockTaken(s, r, m, t) ==
  /\ s.owner[m] = NULL /\ s.QTex[m] = << >>
  /\ r.owner[m] = t /\ r.QTex[m] = << >>

LockQueued(s, r, m, t) ==
  /\ s.owner[m] # NULL /\ t \notin Elems(s.QTex[m])
  /\ r.owner[m] = s.owner[m] /\ r.QTex[m] = Append(s.QTex[m], t)

\* Thread::acquireMutex takes a free lock, queues for another's, or does
\* nothing with it.
LEMMA AcquireOnward ==
  ASSUME NEW s, KernelInv(s, NULL), NEW t \in Thread, s.state[t] # "WAITING",
         NEW m \in Mutex, NEW timeout
  PROVE  LET r == AcquireMutex(s, t, m, timeout) IN
         /\ Onward(s, r) /\ r.state = s.state
         /\ \A u \in Thread : u # t => r.held[u] = s.held[u]
         /\ \A n \in Mutex : n # m => LockKept(s, r, n)
         /\ \/ LockKept(s, r, m) \/ LockTaken(s, r, m, t)
            \/ LockQueued(s, r, m, t)
<1> DEFINE r == AcquireMutex(s, t, m, timeout)
           q == Append(s.QTex[m], t)
<1>1. /\ s \in VMState /\ s.QTex[m] \in Seq(Thread)
      /\ s.QTex \in [Mutex -> Seq(Thread)] /\ s.owner \in [Mutex -> Thread \cup {NULL}]
  BY DEF KernelInv, Typed, VMState
<1>2. ASSUME r.threads = s.threads, r.mutexes = s.mutexes, r.id = s.id,
             r.nextID = s.nextID, r.halt = "no" => s.halt = "no",
             r.state = s.state, \A u \in Thread : u # t => r.held[u] = s.held[u],
             \A n \in Mutex : Elems(s.QTex[n]) \subseteq Elems(r.QTex[n])
      PROVE  Onward(s, r)
  <2> HIDE DEF r
  <2> QED BY <1>2 DEF Onward
<1>3. CASE m \notin Elems(s.held[t]) /\ s.owner[m] = NULL
  <2> DEFINE e == Append(s.held[t], m)
  <2>1. r = [s EXCEPT !.waiting[t] = NULL, !.owner[m] = t, !.held[t] = e]
    BY <1>3 DEF AcquireMutex
  <2> HIDE DEF e
  <2>2. /\ r.threads = s.threads /\ r.mutexes = s.mutexes /\ r.id = s.id
        /\ r.nextID = s.nextID /\ r.halt = s.halt /\ r.state = s.state
        /\ r.QTex = s.QTex /\ r.owner = [s.owner EXCEPT ![m] = t]
        /\ r.held = [s.held EXCEPT ![t] = e]
    BY <1>1, <2>1 DEF VMState
  <2>3. s.QTex[m] = << >>
    BY <1>3 DEF KernelInv, MutexInv, FreeUnqueued
  <2>4. Onward(s, r)
    <3> HIDE DEF r
    <3>1. \A u \in Thread : u # t => r.held[u] = s.held[u]
      BY <1>1, <2>2 DEF VMState
    <3> QED BY <2>2, <3>1 DEF Onward
  <2> HIDE DEF r
  <2>5. LockTaken(s, r, m, t) /\ \A n \in Mutex : n # m => LockKept(s, r, n)
    BY <1>1, <1>3, <2>2, <2>3 DEF LockTaken, LockKept
  <2>6. \A u \in Thread : u # t => r.held[u] = s.held[u]
    BY <1>1, <2>2 DEF VMState
  <2> QED BY <2>2, <2>4, <2>5, <2>6 DEF r
<1>4. CASE /\ m \notin Elems(s.held[t]) /\ s.owner[m] # NULL
           /\ Elems(s.QTex[m]) \cap s.freed = {} /\ Queues(s, m, t, timeout)
  <2>1. r = [s EXCEPT !.waiting[t] = m, !.QTex[m] = q]
    BY <1>4 DEF AcquireMutex
  <2>2. Elems(q) = Elems(s.QTex[m]) \cup {t}
    BY <1>1, AppendElems
  <2>3. t \notin Elems(s.QTex[m])
    BY <1>4 DEF Queues, IsInQueue
  <2> HIDE DEF q
  <2>4. /\ r.threads = s.threads /\ r.mutexes = s.mutexes /\ r.id = s.id
        /\ r.nextID = s.nextID /\ r.halt = s.halt /\ r.state = s.state
        /\ r.owner = s.owner /\ r.held = s.held
        /\ r.QTex = [s.QTex EXCEPT ![m] = q]
    BY <1>1, <2>1 DEF VMState
  <2> HIDE DEF r
  <2>5. r.QTex[m] = q /\ \A n \in Mutex : n # m => r.QTex[n] = s.QTex[n]
    BY <1>1, <2>4
  <2>6. Onward(s, r)
    BY <2>2, <2>4, <2>5 DEF Onward
  <2>7. LockQueued(s, r, m, t) /\ \A n \in Mutex : n # m => LockKept(s, r, n)
    BY <1>4, <2>3, <2>4, <2>5 DEF LockQueued, LockKept, q
  <2> QED BY <2>4, <2>6, <2>7 DEF r
<1>5. CASE \/ m \in Elems(s.held[t])
           \/ /\ s.owner[m] # NULL
              /\ \/ Elems(s.QTex[m]) \cap s.freed # {}
                 \/ ~ Queues(s, m, t, timeout)
  <2>1. \/ r = [s EXCEPT !.waiting[t] = NULL]
        \/ r = Undefined(s)
        \/ r = [s EXCEPT !.waiting[t] = m]
    BY <1>5 DEF AcquireMutex
  <2>2. /\ r.threads = s.threads /\ r.mutexes = s.mutexes /\ r.id = s.id
        /\ r.nextID = s.nextID /\ (r.halt = "no" => s.halt = "no")
        /\ r.state = s.state
        /\ r.owner = s.owner /\ r.held = s.held /\ r.QTex = s.QTex
    BY <1>1, <2>1 DEF Undefined, VMState
  <2> HIDE DEF r
  <2>3. Onward(s, r)
    BY <2>2 DEF Onward
  <2>4. \A n \in Mutex : LockKept(s, r, n)
    BY <2>2 DEF LockKept
  <2> QED BY <2>2, <2>3, <2>4 DEF r
<1> QED BY <1>3, <1>4, <1>5

\* A thread that fails to acquire a lock it does not hold, and can wait for
\* it, is in its queue afterwards, or another thread with its identifier is.
LEMMA AcquireQueues ==
  ASSUME NEW s, KernelInv(s, NULL), NEW t \in Thread, NEW m \in Mutex,
         NEW timeout, timeout # VM_TIMEOUT_IMMEDIATE,
         m \notin Elems(s.held[t]), ~ Acquires(s, t, m),
         AcquireMutex(s, t, m, timeout).halt = "no"
  PROVE  LET r == AcquireMutex(s, t, m, timeout) IN
         /\ r.held = s.held
         /\ \/ t \in Elems(r.QTex[m])
            \/ \E u \in Elems(s.threads) : u \in Elems(r.QTex[m]) /\ s.id[u] = s.id[t]
<1> DEFINE r == AcquireMutex(s, t, m, timeout)
           q == Append(s.QTex[m], t)
<1>1. s \in VMState /\ s.QTex[m] \in Seq(Thread)
  BY DEF KernelInv, Typed, VMState
<1>2. s.owner[m] # NULL
  BY DEF Acquires
<1>3. Elems(s.QTex[m]) \cap s.freed = {}
  <2> SUFFICES ASSUME Elems(s.QTex[m]) \cap s.freed # {} PROVE FALSE
    OBVIOUS
  <2>1. r = Undefined(s)
    BY <1>2 DEF AcquireMutex
  <2> QED BY <1>1, <2>1 DEF Undefined, VMState
<1>4. CASE Queues(s, m, t, timeout)
  <2>1. r = [s EXCEPT !.waiting[t] = m, !.QTex[m] = q]
    BY <1>2, <1>3, <1>4 DEF AcquireMutex
  <2>2. Elems(q) = Elems(s.QTex[m]) \cup {t}
    BY <1>1, AppendElems
  <2> HIDE DEF q
  <2>3. r.QTex[m] = q /\ r.held = s.held
    BY <1>1, <2>1 DEF VMState
  <2> QED BY <2>2, <2>3
<1>5. CASE ~ Queues(s, m, t, timeout)
  <2>1. r = [s EXCEPT !.waiting[t] = m]
    BY <1>2, <1>3, <1>5 DEF AcquireMutex
  <2>2. r.QTex = s.QTex /\ r.held = s.held
    BY <1>1, <2>1 DEF VMState
  <2>3. PICK u \in Elems(s.QTex[m]) : s.id[u] = s.id[t]
    BY <1>2, <1>5 DEF Queues, IsInQueue
  <2>4. u \in Elems(s.threads)
    BY <1>3 DEF KernelInv, Registered
  <2> QED BY <2>2, <2>3, <2>4
<1> QED BY <1>4, <1>5
-----------------------------------------------------------------------------
(* Types, and who can be awakened                                          *)

\* What holds also where the invariant does not: the types, and that whoever
\* lives or can be made ready is in C.
Within(s, C) ==
  /\ s \in VMState /\ s.freed = {}
  /\ \A t \in Thread : s.ticks[t] >= -5
  /\ \A t \in Thread : s.state[t] # "DEAD" => t \in C
  /\ \A m \in Mutex : Elems(s.QTex[m]) \subseteq C
  /\ \A p \in Priority : Elems(s.readyQ[p]) \subseteq C

\* Nobody is registered or dispatched, and nothing undefined happens.
Unmoved(s, r) ==
  /\ r.threads = s.threads /\ r.mutexes = s.mutexes
  /\ r.tr = s.tr /\ r.halt = s.halt

\* A push on a ready queue.
LEMMA PushWithin ==
  ASSUME NEW C, NEW s, Within(s, C), NEW t \in Thread \cap C
  PROVE  Within(PushReady(s, t), C) /\ Unmoved(s, PushReady(s, t))
<1> DEFINE r == PushReady(s, t)
           q == Append(s.readyQ[s.prio[t]], t)
<1>1. s \in VMState /\ s.prio[t] \in Priority /\ s.readyQ[s.prio[t]] \in Seq(Thread)
  BY DEF Within, VMState
<1>2. q \in Seq(Thread) /\ Elems(q) = Elems(s.readyQ[s.prio[t]]) \cup {t}
  BY <1>1, AppendElems
<1>3. r = [s EXCEPT !.readyQ[s.prio[t]] = q]
  BY DEF PushReady
<1> HIDE DEF q, r
<1>4. r.readyQ = [s.readyQ EXCEPT ![s.prio[t]] = q]
  BY <1>1, <1>3 DEF VMState
<1>5. r.readyQ \in [Priority -> Seq(Thread)]
  BY <1>1, <1>2, <1>4 DEF VMState
<1>6. r \in VMState
  BY <1>1, <1>3, <1>4, <1>5 DEF VMState
<1>7. /\ r.threads = s.threads /\ r.mutexes = s.mutexes /\ r.halt = s.halt
      /\ r.freed = s.freed /\ r.ticks = s.ticks /\ r.state = s.state /\ r.QTex = s.QTex
      /\ r.tr = s.tr
  BY <1>1, <1>3 DEF VMState
<1>8. \A p \in Priority : r.readyQ[p] = IF p = s.prio[t] THEN q ELSE s.readyQ[p]
  BY <1>1, <1>4 DEF VMState
<1>9. \A p \in Priority : Elems(r.readyQ[p]) \subseteq C
  BY <1>1, <1>2, <1>8 DEF Within
<1> QED BY <1>6, <1>7, <1>9 DEF Within, Unmoved, r

\* Changes of the fields that Within is not about, and of a state.
LEMMA FieldsWithin ==
  ASSUME NEW C, NEW s, Within(s, C), NEW r \in VMState,
         r.freed = s.freed, r.readyQ = s.readyQ,
         \A t \in Thread : r.ticks[t] = s.ticks[t] \/ r.ticks[t] >= -5,
         \A t \in Thread : r.state[t] \in {s.state[t], "DEAD"} \/ t \in C,
         \A m \in Mutex : Elems(r.QTex[m]) \subseteq Elems(s.QTex[m]) \cup C
  PROVE  Within(r, C)
BY DEF Within

\* A thread is made READY and pushed.
LEMMA ReadyWithin ==
  ASSUME NEW C, NEW s, Within(s, C), NEW t \in Thread \cap C
  PROVE  LET r == PushReady([s EXCEPT !.state[t] = "READY"], t)
         IN  Within(r, C) /\ Unmoved(s, r)
<1> DEFINE d == [s EXCEPT !.state[t] = "READY"]
<1>1. s \in VMState
  BY DEF Within
<1>2. [s.state EXCEPT ![t] = "READY"] \in [Thread -> ThreadState]
  BY <1>1 DEF VMState, ThreadState
<1>3. d \in VMState
  BY <1>1, <1>2 DEF VMState
<1>4. /\ d.freed = s.freed /\ d.readyQ = s.readyQ /\ d.ticks = s.ticks
      /\ d.QTex = s.QTex /\ Unmoved(s, d)
      /\ d.state = [s.state EXCEPT ![t] = "READY"]
  BY <1>1 DEF VMState, Unmoved
<1> HIDE DEF d
<1>5. \A u \in Thread : d.state[u] = s.state[u] \/ u \in C
  BY <1>1, <1>4 DEF VMState
<1>6. Within(d, C)
  BY <1>3, <1>4, <1>5, FieldsWithin
<1>7. Within(PushReady(d, t), C) /\ Unmoved(d, PushReady(d, t))
  BY <1>6, PushWithin
<1> QED BY <1>4, <1>7 DEF Unmoved, d

\* A thread stops waiting.
LEMMA StopWithin ==
  ASSUME NEW C, NEW s, Within(s, C), NEW t \in Thread \cap C
  PROVE  Within(StopWaiting(s, t), C) /\ Unmoved(s, StopWaiting(s, t))
         /\ StopWaiting(s, t).held = s.held
<1> DEFINE d == [s EXCEPT !.waiting[t] = NULL]
<1>1. s \in VMState
  BY DEF Within
<1>2. [s.waiting EXCEPT ![t] = NULL] \in [Thread -> Mutex \cup {NULL}]
  BY <1>1 DEF VMState
<1>3. d \in VMState
  BY <1>1, <1>2 DEF VMState
<1>4. /\ d.freed = s.freed /\ d.readyQ = s.readyQ /\ d.ticks = s.ticks
      /\ d.QTex = s.QTex /\ d.state = s.state /\ d.held = s.held /\ Unmoved(s, d)
  BY <1>1 DEF VMState, Unmoved
<1>5. StopWaiting(s, t) = PushReady([d EXCEPT !.state[t] = "READY"], t)
  BY <1>1 DEF StopWaiting, VMState
<1> HIDE DEF d
<1>6. Within(d, C)
  BY <1>3, <1>4, FieldsWithin
<1>7. /\ Within(StopWaiting(s, t), C) /\ Unmoved(d, StopWaiting(s, t))
  BY <1>5, <1>6, ReadyWithin
<1>8. StopWaiting(s, t).held = d.held
  BY <1>3, <1>5 DEF PushReady, VMState
<1> QED BY <1>4, <1>7, <1>8 DEF Unmoved

\* Erasing one element.
LEMMA EraseType ==
  ASSUME NEW S, NEW q \in Seq(S), NEW k \in 1 .. Len(q)
  PROVE  Erase(q, k) \in Seq(S) /\ Len(Erase(q, k)) = Len(q) - 1
<1> DEFINE e == Erase(q, k)
<1>1. Len(q) \in Nat /\ \A i \in 1 .. Len(q) : q[i] \in S
  BY SeqFacts
<1>2. e \in [1 .. Len(q) - 1 -> S]
  BY <1>1 DEF Erase
<1>3. Len(q) - 1 \in Nat
  BY <1>1
<1> HIDE DEF e
<1>4. e \in Seq(S)
  BY <1>2, <1>3, SeqDef
<1>5. Len(e) = Len(q) - 1
  BY <1>1, <1>2, <1>3, <1>4, SeqFacts
<1> QED BY <1>4, <1>5 DEF e

\* Mutex::release hands the mutex to one of its queue.
LEMMA ReleaseWithin ==
  ASSUME NEW C, NEW s, Within(s, C), NEW m \in Mutex
  PROVE  /\ Within(Release(s, m), C) /\ Unmoved(s, Release(s, m))
         /\ Release(s, m).held = s.held
<1>1. s \in VMState /\ s.QTex[m] \in Seq(Thread) /\ Elems(s.QTex[m]) \subseteq C
  BY DEF Within, VMState
<1>2. CASE s.QTex[m] = << >>
  <2> DEFINE r == [s EXCEPT !.owner[m] = NULL]
  <2>1. [s.owner EXCEPT ![m] = NULL] \in [Mutex -> Thread \cup {NULL}]
    BY <1>1 DEF VMState
  <2>2. r \in VMState
    BY <1>1, <2>1 DEF VMState
  <2>3. /\ r.freed = s.freed /\ r.readyQ = s.readyQ /\ r.ticks = s.ticks
        /\ r.QTex = s.QTex /\ r.state = s.state /\ r.held = s.held /\ Unmoved(s, r)
    BY <1>1 DEF VMState, Unmoved
  <2> HIDE DEF r
  <2>4. Within(r, C)
    BY <2>2, <2>3, FieldsWithin
  <2> QED BY <1>2, <2>3, <2>4 DEF Release, r
<1>3. CASE s.QTex[m] # << >>
  <2> DEFINE h == Head(s.QTex[m])
             q == Tail(s.QTex[m])
             r == [s EXCEPT !.owner[m] = h, !.QTex[m] = q]
  <2>1. h \in Thread \cap C /\ q \in Seq(Thread) /\ Elems(q) \subseteq C
    BY <1>1, <1>3, TailElems
  <2>2. Release(s, m) = StopWaiting(r, h)
    <3>1. s.freed = {}
      BY DEF Within
    <3>2. r = [s EXCEPT !.owner[m] = h, !.QTex[m] = Tail(@)]
      BY <1>1 DEF VMState
    <3> HIDE DEF r
    <3> QED BY <1>3, <3>1, <3>2 DEF Release, HandOver
  <2> HIDE DEF h, q
  <2>3. [s.owner EXCEPT ![m] = h] \in [Mutex -> Thread \cup {NULL}]
    BY <1>1, <2>1 DEF VMState
  <2>4. [s.QTex EXCEPT ![m] = q] \in [Mutex -> Seq(Thread)]
    BY <1>1, <2>1 DEF VMState
  <2>5. r \in VMState
    BY <1>1, <2>3, <2>4 DEF VMState
  <2>6. /\ r.freed = s.freed /\ r.readyQ = s.readyQ /\ r.ticks = s.ticks
        /\ r.state = s.state /\ r.held = s.held /\ Unmoved(s, r)
        /\ r.QTex = [s.QTex EXCEPT ![m] = q]
    BY <1>1 DEF VMState, Unmoved
  <2> HIDE DEF r
  <2>7. \A n \in Mutex : r.QTex[n] = IF n = m THEN q ELSE s.QTex[n]
    BY <1>1, <2>6 DEF VMState
  <2>8. \A n \in Mutex : Elems(r.QTex[n]) \subseteq Elems(s.QTex[n]) \cup C
    BY <2>1, <2>7
  <2>9. Within(r, C)
    BY <2>5, <2>6, <2>8, FieldsWithin
  <2>10. /\ Within(StopWaiting(r, h), C) /\ Unmoved(r, StopWaiting(r, h))
         /\ StopWaiting(r, h).held = r.held
    BY <2>1, <2>9, StopWithin
  <2> QED BY <2>2, <2>6, <2>10 DEF Unmoved
<1> QED BY <1>2, <1>3

\* A mutex of heldMutex is released.
LEMMA ReleaseAtWithin ==
  ASSUME NEW C, NEW s, Within(s, C), NEW t \in Thread, NEW k \in 1 .. Len(s.held[t])
  PROVE  LET r == ReleaseAt(s, t, k)
         IN  Within(r, C) /\ Unmoved(s, r) /\ Len(r.held[t]) = Len(s.held[t]) - 1
<1> DEFINE b == Release(s, s.held[t][k])
           e == Erase(s.held[t], k)
           r == [b EXCEPT !.held[t] = e]
<1>1. s \in VMState /\ s.held[t] \in Seq(Mutex)
  BY DEF Within, VMState
<1>2. s.held[t][k] \in Mutex
  BY <1>1, SeqFacts
<1>3. Within(b, C) /\ Unmoved(s, b) /\ b.held = s.held
  BY <1>2, ReleaseWithin
<1>4. e \in Seq(Mutex) /\ Len(e) = Len(s.held[t]) - 1
  BY <1>1, EraseType
<1>5. ReleaseAt(s, t, k) = r
  BY <1>3 DEF ReleaseAt
<1> HIDE DEF b, e
<1>6. b \in VMState
  BY <1>3 DEF Within
<1>7. [b.held EXCEPT ![t] = e] \in [Thread -> Seq(Mutex)]
  BY <1>4, <1>6 DEF VMState
<1>8. r \in VMState
  BY <1>6, <1>7 DEF VMState
<1>9. /\ r.freed = b.freed /\ r.readyQ = b.readyQ /\ r.ticks = b.ticks
      /\ r.QTex = b.QTex /\ r.state = b.state /\ Unmoved(b, r) /\ r.held[t] = e
  BY <1>6 DEF VMState, Unmoved
<1> HIDE DEF r
<1>10. Within(r, C)
  BY <1>3, <1>8, <1>9, FieldsWithin
<1> QED BY <1>3, <1>4, <1>5, <1>9, <1>10 DEF Unmoved

\* The first entry of heldMutex that names the mutex is released.
LEMMA ReleaseMutexWithin ==
  ASSUME NEW C, NEW s, Within(s, C), NEW t \in Thread, NEW m \in Elems(s.held[t])
  PROVE  Within(ReleaseMutex(s, t, m), C) /\ Unmoved(s, ReleaseMutex(s, t, m))
<1> DEFINE First(k) == /\ s.held[t][k] = m
                       /\ \A j \in DOMAIN s.held[t] : s.held[t][j] = m => k <= j
           Places == {k \in DOMAIN s.held[t] : s.held[t][k] = m}
<1>1. s.held[t] \in Seq(Mutex)
  BY DEF Within, VMState
<1>2. DOMAIN s.held[t] = 1 .. Len(s.held[t]) /\ Len(s.held[t]) \in Nat
  BY <1>1, SeqFacts
<1>3. Places \in SUBSET Nat /\ Places # {}
  BY <1>2 DEF Elems
<1>4. \E k \in Places : \A j \in Places : k <= j
  <2> HIDE DEF Places
  <2> QED BY <1>3, LeastNatural
<1>5. \E k \in DOMAIN s.held[t] : First(k)
  BY <1>4
<1> DEFINE c == CHOOSE i \in DOMAIN s.held[t] : First(i)
<1>6. ReleaseMutex(s, t, m) = ReleaseAt(s, t, c)
  BY DEF ReleaseMutex
<1> HIDE DEF First
<1>7. c \in DOMAIN s.held[t]
  BY <1>5
<1> HIDE DEF c
<1> QED BY <1>2, <1>6, <1>7, ReleaseAtWithin

\* The loop of releaseAllMutex.
LEMMA ReleaseAllWithin ==
  ASSUME NEW C, NEW s, Within(s, C), NEW t \in Thread
  PROVE  Within(ReleaseAllMutex(s, t), C) /\ Unmoved(s, ReleaseAllMutex(s, t))
<1> DEFINE n == Len(s.held[t])
<1>1. n \in Nat
  BY QueueType DEF Within, VMState
<1>2. PICK R : /\ ReleaseAllMutex(s, t) = R[n]
               /\ R[0] = s
               /\ \A i \in 1 .. n : R[i] = ReleaseAt(R[i - 1], t, Len(R[i - 1].held[t]))
  BY <1>1, ReleaseRounds
<1> HIDE DEF n
<1> DEFINE Inv == {i \in 0 .. n : /\ Within(R[i], C) /\ Unmoved(s, R[i])
                                  /\ Len(R[i].held[t]) = n - i}
<1>3. 0 \in Inv
  BY <1>1, <1>2 DEF n, Unmoved
<1>4. ASSUME NEW i \in 0 .. n - 1, i \in Inv PROVE i + 1 \in Inv
  <2> DEFINE a == R[i]
             k == Len(a.held[t])
             b == R[i + 1]
  <2>1. Within(a, C) /\ Unmoved(s, a) /\ k = n - i
    BY <1>4
  <2>2. i + 1 \in 1 .. n /\ (i + 1) - 1 = i /\ i + 1 \in 0 .. n
    BY <1>1
  <2>3. b = ReleaseAt(a, t, k)
    BY <1>2, <2>2
  <2>4. k \in 1 .. Len(a.held[t])
    BY <1>1, <2>1
  <2> HIDE DEF a, b, k
  <2>5. Within(b, C) /\ Unmoved(a, b) /\ Len(b.held[t]) = Len(a.held[t]) - 1
    BY <2>1, <2>3, <2>4, ReleaseAtWithin
  <2>6. Len(b.held[t]) = n - (i + 1)
    BY <1>1, <2>1, <2>2, <2>5 DEF k
  <2> QED BY <2>1, <2>2, <2>5, <2>6 DEF b, Unmoved
<1>5. n \in Inv
  <2> HIDE DEF Inv
  <2> QED BY <1>1, <1>3, <1>4, Rounds
<1> QED BY <1>2, <1>5

\* VMThreadTerminate up to its call of scheduler().
LEMMA TerminateWithin ==
  ASSUME NEW C, NEW s, Within(s, C), NEW t \in Thread
  PROVE  Within(Terminate(s, t), C) /\ Unmoved(s, Terminate(s, t))
<1> DEFINE d == [s EXCEPT !.state[t] = "DEAD"]
           r == ReleaseAllMutex(d, t)
           q == Without(r.readyQ[s.prio[t]], t)
           e == [r EXCEPT !.readyQ[s.prio[t]] = q]
<1>1. s \in VMState /\ s.prio[t] \in Priority
  BY DEF Within, VMState
<1>2. [s.state EXCEPT ![t] = "DEAD"] \in [Thread -> ThreadState]
  BY <1>1 DEF VMState, ThreadState
<1>3. d \in VMState
  BY <1>1, <1>2 DEF VMState
<1>4. /\ d.freed = s.freed /\ d.readyQ = s.readyQ /\ d.ticks = s.ticks
      /\ d.QTex = s.QTex /\ Unmoved(s, d) /\ d.state = [s.state EXCEPT ![t] = "DEAD"]
  BY <1>1 DEF VMState, Unmoved
<1>5. Terminate(s, t) = e
  BY DEF Terminate
<1> HIDE DEF d
<1>6. \A u \in Thread : d.state[u] \in {s.state[u], "DEAD"}
  BY <1>1, <1>4 DEF VMState
<1>7. Within(d, C)
  BY <1>3, <1>4, <1>6, FieldsWithin
<1>8. Within(r, C) /\ Unmoved(d, r)
  BY <1>7, ReleaseAllWithin
<1> HIDE DEF r
<1>9. r \in VMState /\ r.readyQ[s.prio[t]] \in Seq(Thread) /\ Elems(r.readyQ[s.prio[t]]) \subseteq C
  BY <1>1, <1>8 DEF Within, VMState
<1>10. q \in Seq(Thread) /\ Elems(q) \subseteq C
  BY <1>9, WithoutElems
<1> HIDE DEF q
<1>11. [r.readyQ EXCEPT ![s.prio[t]] = q] \in [Priority -> Seq(Thread)]
  BY <1>1, <1>9, <1>10 DEF VMState
<1>12. e \in VMState
  BY <1>9, <1>11 DEF VMState
<1>13. /\ e.freed = r.freed /\ e.ticks = r.ticks /\ e.state = r.state
       /\ e.QTex = r.QTex /\ Unmoved(r, e) /\ e.readyQ = [r.readyQ EXCEPT ![s.prio[t]] = q]
  BY <1>9 DEF VMState, Unmoved
<1> HIDE DEF e
<1>14. \A p \in Priority : e.readyQ[p] = IF p = s.prio[t] THEN q ELSE r.readyQ[p]
  BY <1>9, <1>13 DEF VMState
<1>15. \A p \in Priority : Elems(e.readyQ[p]) \subseteq C
  BY <1>8, <1>10, <1>14 DEF Within
<1>16. Within(e, C)
  BY <1>8, <1>12, <1>13, <1>15 DEF Within
<1> QED BY <1>4, <1>5, <1>8, <1>13, <1>16 DEF Unmoved

\* A thread begins to wait.
LEMMA WaitWithin ==
  ASSUME NEW C, NEW s, Within(s, C), NEW t \in Thread \cap C
  PROVE  /\ Within(Wait(s, t), C) /\ Unmoved(s, Wait(s, t))
         /\ \A n \in Nat : /\ Within(Block(s, t, n), C)
                           /\ Unmoved(s, Block(s, t, n))
<1>1. s \in VMState
  BY DEF Within
<1>2. [s.state EXCEPT ![t] = "WAITING"] \in [Thread -> ThreadState]
  BY <1>1 DEF VMState, ThreadState
<1> DEFINE r == Wait(s, t)
<1>3. r \in VMState
  BY <1>1, <1>2 DEF Wait, VMState
<1>4. /\ r.freed = s.freed /\ r.readyQ = s.readyQ /\ r.ticks = s.ticks
      /\ r.QTex = s.QTex /\ Unmoved(s, r) /\ r.state = [s.state EXCEPT ![t] = "WAITING"]
  BY <1>1 DEF Wait, VMState, Unmoved
<1> HIDE DEF r
<1>5. \A u \in Thread : r.state[u] = s.state[u] \/ u \in C
  BY <1>1, <1>4 DEF VMState
<1>6. Within(r, C)
  BY <1>3, <1>4, <1>5, FieldsWithin
<1>7. ASSUME NEW n \in Nat
      PROVE  Within(Block(s, t, n), C) /\ Unmoved(s, Block(s, t, n))
  <2> DEFINE b == Block(s, t, n)
  <2>1. [s.ticks EXCEPT ![t] = n] \in [Thread -> Int]
    BY <1>1 DEF VMState
  <2>2. b \in VMState
    BY <1>1, <1>2, <2>1 DEF Block, VMState
  <2>3. /\ b.freed = s.freed /\ b.readyQ = s.readyQ /\ b.ticks = [s.ticks EXCEPT ![t] = n]
        /\ b.QTex = s.QTex /\ Unmoved(s, b) /\ b.state = [s.state EXCEPT ![t] = "WAITING"]
    BY <1>1 DEF Block, VMState, Unmoved
  <2> HIDE DEF b
  <2>4. \A u \in Thread : b.state[u] = s.state[u] \/ u \in C
    BY <1>1, <2>3 DEF VMState
  <2>5. \A u \in Thread : b.ticks[u] = s.ticks[u] \/ b.ticks[u] >= -5
    BY <1>1, <2>3 DEF VMState
  <2>6. Within(b, C)
    BY <2>2, <2>3, <2>4, <2>5, FieldsWithin
  <2> QED BY <2>3, <2>6 DEF b
<1> QED BY <1>4, <1>6, <1>7 DEF r

\* Mutex::acquire queues its caller at most.
LEMMA AcquireWithin ==
  ASSUME NEW C, NEW s, Within(s, C), NEW t \in Thread \cap C, NEW m \in Mutex, NEW timeout
  PROVE  LET r == AcquireMutex(s, t, m, timeout)
         IN  Within(r, C) /\ Unmoved(s, r)
<1> DEFINE r == AcquireMutex(s, t, m, timeout)
<1>1. s \in VMState /\ s.freed = {}
  BY DEF Within
<1>2. /\ [s.waiting EXCEPT ![t] = NULL] \in [Thread -> Mutex \cup {NULL}]
      /\ [s.waiting EXCEPT ![t] = m] \in [Thread -> Mutex \cup {NULL}]
      /\ [s.owner EXCEPT ![m] = t] \in [Mutex -> Thread \cup {NULL}]
  BY <1>1 DEF VMState
<1>3. CASE r = [s EXCEPT !.waiting[t] = NULL] \/ r = [s EXCEPT !.waiting[t] = m]
  <2>1. r \in VMState
    BY <1>1, <1>2, <1>3 DEF VMState
  <2>2. /\ r.freed = s.freed /\ r.readyQ = s.readyQ /\ r.ticks = s.ticks
        /\ r.QTex = s.QTex /\ r.state = s.state /\ Unmoved(s, r)
    BY <1>1, <1>3 DEF VMState, Unmoved
  <2> HIDE DEF r
  <2>3. Within(r, C)
    BY <2>1, <2>2, FieldsWithin
  <2> QED BY <2>2, <2>3 DEF r
<1>4. CASE r = [s EXCEPT !.waiting[t] = NULL, !.owner[m] = t, !.held[t] = Append(@, m)]
  <2> DEFINE h == Append(s.held[t], m)
  <2>1. s.held[t] \in Seq(Mutex)
    BY <1>1 DEF VMState
  <2>2. h \in Seq(Mutex)
    BY <2>1, AppendElems
  <2>3. r = [s EXCEPT !.waiting[t] = NULL, !.owner[m] = t, !.held[t] = h]
    BY <1>1, <1>4 DEF VMState
  <2> HIDE DEF h, r
  <2>4. [s.held EXCEPT ![t] = h] \in [Thread -> Seq(Mutex)]
    BY <1>1, <2>2 DEF VMState
  <2>5. r \in VMState
    BY <1>1, <1>2, <2>3, <2>4 DEF VMState
  <2>6. /\ r.freed = s.freed /\ r.readyQ = s.readyQ /\ r.ticks = s.ticks
        /\ r.QTex = s.QTex /\ r.state = s.state /\ Unmoved(s, r)
    BY <1>1, <2>3 DEF VMState, Unmoved
  <2>7. Within(r, C)
    BY <2>5, <2>6, FieldsWithin
  <2> QED BY <2>6, <2>7 DEF r
<1>5. CASE r = [s EXCEPT !.waiting[t] = m, !.QTex[m] = Append(@, t)]
  <2> DEFINE q == Append(s.QTex[m], t)
  <2>1. s.QTex[m] \in Seq(Thread) /\ Elems(s.QTex[m]) \subseteq C
    BY <1>1 DEF Within, VMState
  <2>2. q \in Seq(Thread) /\ Elems(q) = Elems(s.QTex[m]) \cup {t}
    BY <2>1, AppendElems
  <2>3. r = [s EXCEPT !.waiting[t] = m, !.QTex[m] = q]
    BY <1>1, <1>5 DEF VMState
  <2> HIDE DEF q, r
  <2>4. [s.QTex EXCEPT ![m] = q] \in [Mutex -> Seq(Thread)]
    BY <1>1, <2>2 DEF VMState
  <2>5. r \in VMState
    BY <1>1, <1>2, <2>3, <2>4 DEF VMState
  <2>6. /\ r.freed = s.freed /\ r.readyQ = s.readyQ /\ r.ticks = s.ticks
        /\ r.state = s.state /\ Unmoved(s, r) /\ r.QTex = [s.QTex EXCEPT ![m] = q]
    BY <1>1, <2>3 DEF VMState, Unmoved
  <2>7. \A n \in Mutex : r.QTex[n] = IF n = m THEN q ELSE s.QTex[n]
    BY <1>1, <2>6 DEF VMState
  <2>8. \A n \in Mutex : Elems(r.QTex[n]) \subseteq Elems(s.QTex[n]) \cup C
    BY <2>1, <2>2, <2>7
  <2>9. Within(r, C)
    BY <2>5, <2>6, <2>8, FieldsWithin
  <2> QED BY <2>6, <2>9 DEF r
<1> QED BY <1>1, <1>3, <1>4, <1>5 DEF AcquireMutex

\* The end of a sleep or of a wait with a time-out.
LEMMA WakeUpWithin ==
  ASSUME NEW C, NEW s, Within(s, C), NEW t \in Thread \cap C
  PROVE  Within(WakeUp(s, t), C) /\ Unmoved(s, WakeUp(s, t))
<1>1. s \in VMState /\ s.freed = {}
  BY DEF Within
<1>2. CASE s.waiting[t] = NULL
  BY <1>2, ReadyWithin DEF WakeUp
<1>3. CASE s.waiting[t] # NULL
  <2> DEFINE m == s.waiting[t]
             q == Without(s.QTex[m], t)
             d == [s EXCEPT !.QTex[m] = q]
             w == StopWaiting(d, t)
  <2>1. m \in Mutex
    BY <1>1, <1>3 DEF VMState
  <2>2. WakeUp(s, t) = PushReady(w, t)
    BY <1>1, <1>3 DEF WakeUp, WaitTimeout, VMState
  <2> HIDE DEF m, w
  <2>3. s.QTex[m] \in Seq(Thread) /\ Elems(s.QTex[m]) \subseteq C
    BY <1>1, <2>1 DEF Within, VMState
  <2>4. q \in Seq(Thread) /\ Elems(q) \subseteq C
    BY <2>3, WithoutElems
  <2> HIDE DEF q
  <2>5. [s.QTex EXCEPT ![m] = q] \in [Mutex -> Seq(Thread)]
    BY <1>1, <2>1, <2>4 DEF VMState
  <2>6. d \in VMState
    BY <1>1, <2>5 DEF VMState
  <2>7. /\ d.freed = s.freed /\ d.readyQ = s.readyQ /\ d.ticks = s.ticks
        /\ d.state = s.state /\ Unmoved(s, d) /\ d.QTex = [s.QTex EXCEPT ![m] = q]
    BY <1>1 DEF VMState, Unmoved
  <2> HIDE DEF d
  <2>8. \A n \in Mutex : d.QTex[n] = IF n = m THEN q ELSE s.QTex[n]
    BY <1>1, <2>7 DEF VMState
  <2>9. \A n \in Mutex : Elems(d.QTex[n]) \subseteq Elems(s.QTex[n]) \cup C
    BY <2>4, <2>8
  <2>10. Within(d, C)
    BY <2>6, <2>7, <2>9, FieldsWithin
  <2>11. Within(w, C) /\ Unmoved(d, w)
    BY <2>10, StopWithin DEF w
  <2>12. Within(PushReady(w, t), C) /\ Unmoved(w, PushReady(w, t))
    BY <2>11, PushWithin
  <2> QED BY <2>2, <2>7, <2>11, <2>12 DEF Unmoved
<1> QED BY <1>2, <1>3

\* One tick of one thread.
LEMMA DecrementWithin ==
  ASSUME NEW C, NEW s, Within(s, C), NEW t \in Thread
  PROVE  Within(DecrementTicks(s, t), C) /\ Unmoved(s, DecrementTicks(s, t))
<1> DEFINE n == CountDown(s.ticks[t])
           d == [s EXCEPT !.ticks[t] = n]
<1>1. s \in VMState /\ s.ticks[t] \in Int
  BY DEF Within, VMState
<1>2. n \in Int /\ n >= -5
  BY <1>1 DEF CountDown
<1>3. [s EXCEPT !.ticks[t] = CountDown(@)] = d
  BY <1>1 DEF VMState
<1> HIDE DEF n
<1>4. [s.ticks EXCEPT ![t] = n] \in [Thread -> Int]
  BY <1>1, <1>2 DEF VMState
<1>5. d \in VMState
  BY <1>1, <1>4 DEF VMState
<1>6. /\ d.freed = s.freed /\ d.readyQ = s.readyQ /\ d.ticks = [s.ticks EXCEPT ![t] = n]
      /\ d.state = s.state /\ Unmoved(s, d) /\ d.QTex = s.QTex
  BY <1>1 DEF VMState, Unmoved
<1>7. DecrementTicks(s, t) = IF n = 0 /\ s.state[t] = "WAITING" THEN WakeUp(d, t) ELSE d
  <2> HIDE DEF d
  <2> QED BY <1>3 DEF DecrementTicks, n
<1> HIDE DEF d
<1>8. \A u \in Thread : d.ticks[u] = s.ticks[u] \/ d.ticks[u] >= -5
  BY <1>1, <1>2, <1>6 DEF VMState
<1>9. Within(d, C)
  BY <1>5, <1>6, <1>8, FieldsWithin
<1>10. ASSUME s.state[t] = "WAITING"
       PROVE  Within(WakeUp(d, t), C) /\ Unmoved(d, WakeUp(d, t))
  <2>1. t \in C
    BY <1>10 DEF Within
  <2> QED BY <1>9, <2>1, WakeUpWithin
<1> QED BY <1>6, <1>7, <1>9, <1>10 DEF Unmoved

\* The loop of timerISR.
LEMMA TimerTickWithin ==
  ASSUME NEW C, NEW s, Within(s, C)
  PROVE  Within(TimerTick(s), C) /\ Unmoved(s, TimerTick(s))
<1> DEFINE n == Len(s.threads)
<1>1. s.threads \in Seq(Thread)
  BY DEF Within, VMState
<1>2. n \in Nat /\ \A i \in 1 .. n : s.threads[i] \in Thread
  BY <1>1, SeqFacts
<1>3. PICK R : /\ TimerTick(s) = R[n]
               /\ R[0] = s
               /\ \A i \in 1 .. n : R[i] = DecrementTicks(R[i - 1], s.threads[i])
  BY <1>2, TickRounds
<1> HIDE DEF n
<1> DEFINE Inv == {i \in 0 .. n : Within(R[i], C) /\ Unmoved(s, R[i])}
<1>4. 0 \in Inv
  BY <1>2, <1>3 DEF Unmoved
<1>5. ASSUME NEW i \in 0 .. n - 1, i \in Inv PROVE i + 1 \in Inv
  <2> DEFINE a == R[i]
             b == R[i + 1]
             u == s.threads[i + 1]
  <2>1. Within(a, C) /\ Unmoved(s, a)
    BY <1>5
  <2>2. i + 1 \in 0 .. n /\ (i + 1) - 1 = i /\ i + 1 \in 1 .. n
    BY <1>2
  <2>3. b = DecrementTicks(a, u) /\ u \in Thread
    BY <1>2, <1>3, <2>2
  <2> HIDE DEF a, b, u
  <2>4. Within(b, C) /\ Unmoved(a, b)
    BY <2>1, <2>3, DecrementWithin
  <2> QED BY <2>1, <2>2, <2>4 DEF b, Unmoved
<1>6. n \in Inv
  <2> HIDE DEF Inv
  <2> QED BY <1>2, <1>4, <1>5, Rounds
<1> QED BY <1>3, <1>6

\* The running thread goes back to its queue.
LEMMA RequeueWithin ==
  ASSUME NEW C, NEW s, Within(s, C)
  PROVE  Within(Requeue(s), C) /\ Unmoved(s, Requeue(s))
<1>1. s \in VMState /\ s.tr \in Thread
  BY DEF Within, VMState
<1>2. CASE s.state[s.tr] = "RUNNING"
  <2>1. s.tr \in Thread \cap C
    BY <1>1, <1>2 DEF Within
  <2> QED BY <1>2, <2>1, ReadyWithin DEF Requeue
<1>3. CASE s.state[s.tr] # "RUNNING"
  BY <1>3 DEF Requeue, Unmoved
<1> QED BY <1>2, <1>3

\* The head of a ready queue becomes the running thread.
LEMMA DispatchWithin ==
  ASSUME NEW C, NEW s, Within(s, C), NEW p \in Priority, s.readyQ[p] # << >>
  PROVE  /\ Within(Dispatch(s, p), C) /\ Dispatch(s, p).mutexes = s.mutexes
         /\ Dispatch(s, p).halt = s.halt
         /\ Dispatch(s, p).tr \in Thread \cap C
         /\ Dispatch(s, p).state[Dispatch(s, p).tr] = "RUNNING"
<1> DEFINE h == Head(s.readyQ[p])
           q == Tail(s.readyQ[p])
           r == [s EXCEPT !.tr = h, !.state[h] = "RUNNING", !.readyQ[p] = q]
<1>1. s \in VMState /\ s.readyQ[p] \in Seq(Thread) /\ Elems(s.readyQ[p]) \subseteq C
  BY DEF Within, VMState
<1>2. h \in Thread \cap C /\ q \in Seq(Thread) /\ Elems(q) \subseteq C
  BY <1>1, TailElems
<1>3. Dispatch(s, p) = r
  BY <1>1 DEF Dispatch, VMState
<1> HIDE DEF h, q
<1>4. [s.state EXCEPT ![h] = "RUNNING"] \in [Thread -> ThreadState]
  BY <1>1, <1>2 DEF VMState, ThreadState
<1>5. [s.readyQ EXCEPT ![p] = q] \in [Priority -> Seq(Thread)]
  BY <1>1, <1>2 DEF VMState
<1>6. r \in VMState
  BY <1>1, <1>2, <1>4, <1>5 DEF VMState
<1>7. /\ r.freed = s.freed /\ r.ticks = s.ticks /\ r.QTex = s.QTex /\ r.mutexes = s.mutexes
      /\ r.halt = s.halt /\ r.state = [s.state EXCEPT ![h] = "RUNNING"] /\ r.tr = h
      /\ r.readyQ = [s.readyQ EXCEPT ![p] = q]
  BY <1>1 DEF VMState
<1> HIDE DEF r
<1>8. \A o \in Priority : r.readyQ[o] = IF o = p THEN q ELSE s.readyQ[o]
  BY <1>1, <1>7 DEF VMState
<1>9. \A o \in Priority : Elems(r.readyQ[o]) \subseteq C
  BY <1>2, <1>8 DEF Within
<1>10. \A u \in Thread : r.state[u] = IF u = h THEN "RUNNING" ELSE s.state[u]
  BY <1>1, <1>7 DEF VMState
<1>11. \A u \in Thread : r.state[u] # "DEAD" => u \in C
  BY <1>2, <1>10 DEF Within
<1>12. Within(r, C)
  BY <1>6, <1>7, <1>9, <1>11 DEF Within
<1> QED BY <1>2, <1>3, <1>7, <1>10, <1>12
=============================================================================
