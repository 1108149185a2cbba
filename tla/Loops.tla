-------------------------------- MODULE Loops --------------------------------
(***************************************************************************)
(* Induction on the rounds of a loop, for the loops of the code that are   *)
(* recursive functions in the models, and the loop of Only.                *)
(***************************************************************************)
EXTENDS Vectors, SequenceTheorems, NaturalsInduction, WellFoundedInduction, TLAPS

\* A set of naturals has a least element: induction on the rounds of a loop
\* is an argument about the first round that goes wrong.
LEMMA LeastNatural ==
  ASSUME NEW S \in SUBSET Nat, S # {}
  PROVE  \E n \in S : \A m \in S : n <= m
<1> DEFINE R == OpToRel(<, Nat)
<1>1. PICK x \in S : \A y \in S : ~ (<<y, x>> \in R)
  BY NatLessThanWellFounded, WFMin
<1>2. \A z, y \in Nat : (<<y, z>> \in R) <=> y < z
  BY DEF OpToRel
<1>3. \A y \in S : ~ (y < x)
  <2> HIDE DEF R
  <2> QED BY <1>1, <1>2
<1>4. \A y \in S : x <= y
  BY <1>3
<1> QED BY <1>4

\* A loop invariant holds after every round when it holds before the first
\* and the rounds preserve it.  Inv is the set of rounds it holds after.
LEMMA Rounds ==
  ASSUME NEW n \in Nat, NEW Inv, 0 \in Inv,
         \A i \in 0 .. n - 1 : i \in Inv => i + 1 \in Inv
  PROVE  n \in Inv
<1> DEFINE Bad == {i \in 0 .. n : i \notin Inv}
<1>1. SUFFICES ASSUME Bad # {} PROVE FALSE
  OBVIOUS
<1>2. Bad \in SUBSET Nat
  OBVIOUS
<1>3. PICK i \in Bad : \A j \in Bad : i <= j
  <2> HIDE DEF Bad
  <2> QED BY <1>1, <1>2, LeastNatural
<1>4. i # 0 /\ i - 1 \in 0 .. n - 1
  BY <1>3
<1>5. i - 1 \notin Bad
  BY <1>3, <1>4
<1>6. i - 1 \in Inv
  BY <1>4, <1>5
<1>7. (i - 1) + 1 \in Inv
  BY <1>4, <1>6
<1> QED BY <1>7, <1>3

-----------------------------------------------------------------------------
(* Sequences                                                               *)

\* Indices, elements and emptiness of a sequence.
LEMMA SeqFacts ==
  ASSUME NEW T, NEW s \in Seq(T)
  PROVE  /\ Len(s) \in Nat /\ DOMAIN s = 1 .. Len(s)
         /\ \A k \in 1 .. Len(s) : s[k] \in T
         /\ s = << >> <=> Len(s) = 0
<1>1. Len(s) \in Nat /\ DOMAIN s = 1 .. Len(s) /\ \A k \in 1 .. Len(s) : s[k] \in T
  BY LenProperties, ElementOfSeq
<1>2. s = << >> <=> Len(s) = 0
  BY EmptySeq
<1> QED BY <1>1, <1>2

\* A new element comes last.
LEMMA AppendFacts ==
  ASSUME NEW T, NEW s \in Seq(T), NEW e \in T
  PROVE  /\ Append(s, e) \in Seq(T) /\ Len(Append(s, e)) = Len(s) + 1
         /\ \A k \in 1 .. Len(s) + 1 :
              Append(s, e)[k] = IF k = Len(s) + 1 THEN e ELSE s[k]
<1>1. /\ Append(s, e) \in Seq(T) /\ Len(Append(s, e)) = Len(s) + 1
      /\ \A i \in 1.. Len(s) : Append(s, e)[i] = s[i]
      /\ Append(s, e)[Len(s) + 1] = e
  BY AppendProperties
<1>2. Len(s) \in Nat
  BY SeqFacts
<1>3. ASSUME NEW k \in 1 .. Len(s) + 1, k # Len(s) + 1 PROVE k \in 1 .. Len(s)
  BY <1>2, <1>3
<1> QED BY <1>1, <1>3

\* t is s without its k-th element.
Dropped(s, k, t) ==
  /\ k \in 1 .. Len(s)
  /\ Len(t) = Len(s) - 1
  /\ \A j \in 1 .. Len(s) - 1 : t[j] = IF j < k THEN s[j] ELSE s[j + 1]

\* A sequence without its k-th element is what comes before it and after it.
LEMMA CutDrops ==
  ASSUME NEW T, NEW s \in Seq(T), NEW k \in 1 .. Len(s)
  PROVE  LET t == SubSeq(s, 1, k - 1) \o SubSeq(s, k + 1, Len(s))
         IN  t \in Seq(T) /\ Dropped(s, k, t)
<1>1. Len(s) \in Nat /\ \A i \in 1 .. Len(s) : s[i] \in T
  BY SeqFacts
<1> DEFINE a == SubSeq(s, 1, k - 1)
           b == SubSeq(s, k + 1, Len(s))
<1>2. /\ a \in Seq(T) /\ Len(a) = k - 1
      /\ \A i \in 1 .. k - 1 : a[i] = s[i]
  <2>1. k - 1 \in Int /\ \A i \in 1 .. k - 1 : s[i] \in T
    BY <1>1
  <2>2. /\ a \in Seq(T) /\ Len(a) = IF 1 <= k - 1 THEN (k - 1) - 1 + 1 ELSE 0
        /\ \A i \in 1 .. (k - 1) - 1 + 1 : a[i] = s[1 + i - 1]
    BY <2>1, SubSeqProperties
  <2> HIDE DEF a
  <2> QED BY <2>2, <1>1
<1>3. /\ b \in Seq(T) /\ Len(b) = Len(s) - k
      /\ \A i \in 1 .. Len(s) - k : b[i] = s[i + k]
  <2>1. k + 1 \in Int /\ Len(s) \in Int /\ \A i \in k + 1 .. Len(s) : s[i] \in T
    BY <1>1
  <2>2. /\ b \in Seq(T)
        /\ Len(b) = IF k + 1 <= Len(s) THEN Len(s) - (k + 1) + 1 ELSE 0
        /\ \A i \in 1 .. Len(s) - (k + 1) + 1 : b[i] = s[(k + 1) + i - 1]
    BY <2>1, SubSeqProperties
  <2>3. \A i \in 1 .. Len(s) - k : (k + 1) + i - 1 = i + k
    BY <1>1
  <2> HIDE DEF b
  <2> QED BY <2>2, <2>3, <1>1
<1> HIDE DEF a, b
<1>5. /\ a \o b \in Seq(T) /\ Len(a \o b) = Len(a) + Len(b)
      /\ \A i \in 1 .. Len(a) + Len(b) :
           (a \o b)[i] = IF i <= Len(a) THEN a[i] ELSE b[i - Len(a)]
  BY <1>2, <1>3, ConcatProperties
<1>6. Len(a) + Len(b) = Len(s) - 1
  BY <1>1, <1>2, <1>3
<1>7. ASSUME NEW j \in 1 .. Len(s) - 1
      PROVE  (a \o b)[j] = IF j < k THEN s[j] ELSE s[j + 1]
  <2>1. CASE j < k
    <3>1. j \in 1 .. k - 1 /\ j <= Len(a)
      BY <2>1, <1>1, <1>2
    <3> QED BY <2>1, <3>1, <1>2, <1>5, <1>6
  <2>2. CASE ~ (j < k)
    <3>1. /\ ~ (j <= Len(a)) /\ j - Len(a) \in 1 .. Len(s) - k
          /\ (j - Len(a)) + k = j + 1
      BY <2>2, <1>1, <1>2
    <3>2. (a \o b)[j] = b[j - Len(a)]
      BY <3>1, <1>5, <1>6
    <3> QED BY <2>2, <3>1, <3>2, <1>3
  <2> QED BY <2>1, <2>2
<1> QED BY <1>5, <1>6, <1>7 DEF Dropped, a, b

-----------------------------------------------------------------------------
(* Only                                                                    *)

\* The loop of Only over the first n elements of s.
OnlyLoop(kept, s, S, n) ==
  [k \in 0 .. n |->
     IF k = 0 THEN << >>
     ELSE IF s[k] \in S THEN Append(kept[k - 1], s[k]) ELSE kept[k - 1]]

\* Its rounds.
Rounded(R, s, S) ==
  /\ R[0] = << >>
  /\ \A k \in 1 .. Len(s) :
       R[k] = IF s[k] \in S THEN Append(R[k - 1], s[k]) ELSE R[k - 1]

\* The loop of Only is a function: it has a value after every round.
LEMMA OnlyLoopExists ==
  ASSUME NEW s, NEW S, NEW n \in Nat
  PROVE  \E kept : kept = OnlyLoop(kept, s, S, n)
<1> DEFINE Inv == {k \in 0 .. n : \E f : f = OnlyLoop(f, s, S, k)}
<1>1. 0 \in Inv
  <2>1. [k \in 0 .. 0 |-> << >>] = OnlyLoop([k \in 0 .. 0 |-> << >>], s, S, 0)
    BY DEF OnlyLoop
  <2> QED BY <2>1
<1>2. ASSUME NEW k \in 0 .. n - 1, k \in Inv PROVE k + 1 \in Inv
  <2>1. PICK f : f = OnlyLoop(f, s, S, k)
    BY <1>2
  <2> DEFINE g == [i \in 0 .. k + 1 |->
                     IF i = k + 1
                     THEN IF s[i] \in S THEN Append(f[k], s[i]) ELSE f[k]
                     ELSE f[i]]
  <2>2. ASSUME NEW i \in 0 .. k + 1
        PROVE  g[i] = OnlyLoop(g, s, S, k + 1)[i]
    <3>1. CASE i = k + 1
      BY <3>1 DEF OnlyLoop
    <3>2. CASE i # k + 1
      <4>1. i \in 0 .. k
        BY <3>2
      <4>2. f[i] = OnlyLoop(f, s, S, k)[i]
        BY <2>1
      <4>3. i = 0 \/ (i - 1 \in 0 .. k /\ i - 1 # k + 1)
        BY <4>1
      <4> QED BY <4>1, <4>2, <4>3, <3>2 DEF OnlyLoop
    <3> QED BY <3>1, <3>2
  <2>3. g = OnlyLoop(g, s, S, k + 1)
    BY <2>2 DEF OnlyLoop
  <2>4. k + 1 \in 0 .. n
    OBVIOUS
  <2> HIDE DEF g
  <2> QED BY <2>3, <2>4
<1>3. n \in Inv
  <2> HIDE DEF Inv
  <2> QED BY <1>1, <1>2, Rounds
<1> QED BY <1>3

\* Only is the value of its loop after the last round.
LEMMA OnlyRounds ==
  ASSUME NEW T, NEW s \in Seq(T), NEW S
  PROVE  \E R : Rounded(R, s, S) /\ Only(s, S) = R[Len(s)]
<1> DEFINE R == CHOOSE f : f = OnlyLoop(f, s, S, Len(s))
<1>1. Len(s) \in Nat
  BY SeqFacts
<1>2. R = OnlyLoop(R, s, S, Len(s))
  BY <1>1, OnlyLoopExists
<1>3. Only(s, S) = R[Len(s)]
  BY DEF Only, OnlyLoop
<1> HIDE DEF R
<1>4. \A k \in 0 .. Len(s) :
        OnlyLoop(R, s, S, Len(s))[k] =
          IF k = 0 THEN << >>
          ELSE IF s[k] \in S THEN Append(R[k - 1], s[k]) ELSE R[k - 1]
  BY DEF OnlyLoop
<1>5. \A k \in 0 .. Len(s) :
        R[k] = IF k = 0 THEN << >>
               ELSE IF s[k] \in S THEN Append(R[k - 1], s[k]) ELSE R[k - 1]
  BY <1>2, <1>4
<1>6. Rounded(R, s, S)
  BY <1>1, <1>5 DEF Rounded
<1> QED BY <1>3, <1>6

\* After each round the loop holds a sequence.
LEMMA RoundSeq ==
  ASSUME NEW T, NEW s \in Seq(T), NEW S, NEW R, Rounded(R, s, S)
  PROVE  \A n \in 0 .. Len(s) : R[n] \in Seq(T)
<1>1. Len(s) \in Nat /\ \A k \in 1 .. Len(s) : s[k] \in T
  BY SeqFacts
<1> SUFFICES ASSUME NEW n \in 0 .. Len(s) PROVE R[n] \in Seq(T)
  OBVIOUS
<1> DEFINE Inv == {k \in 0 .. n : R[k] \in Seq(T)}
<1>2. 0 \in Inv
  <2>1. R[0] = << >>
    BY DEF Rounded
  <2>2. R[0] \in Seq(T)
    BY <2>1, EmptySeq
  <2> QED BY <1>1, <2>2
<1>3. ASSUME NEW k \in 0 .. n - 1, k \in Inv PROVE k + 1 \in Inv
  <2>1. k + 1 \in 1 .. Len(s) /\ (k + 1) - 1 = k /\ k + 1 \in 0 .. n
    BY <1>1
  <2>2. R[k + 1] = IF s[k + 1] \in S THEN Append(R[(k + 1) - 1], s[k + 1])
                   ELSE R[(k + 1) - 1]
    BY <2>1 DEF Rounded
  <2>3. R[k] \in Seq(T) /\ s[k + 1] \in T
    BY <1>1, <1>3, <2>1
  <2>4. R[k + 1] \in Seq(T)
    BY <2>1, <2>2, <2>3, AppendProperties
  <2> QED BY <2>1, <2>4
<1>4. n \in Inv
  <2>1. n \in Nat
    BY <1>1
  <2> HIDE DEF Inv
  <2> QED BY <1>2, <1>3, <2>1, Rounds
<1> QED BY <1>4

\* The loops over two sequences agree as long as the sequences do.
LEMMA RoundsAgree ==
  ASSUME NEW s, NEW t, NEW S, NEW P, NEW Q, Rounded(P, s, S), Rounded(Q, t, S),
         NEW n \in Nat, Len(s) \in Nat, Len(t) \in Nat, n <= Len(s), n <= Len(t),
         \A j \in 1 .. n : s[j] = t[j]
  PROVE  P[n] = Q[n]
<1> DEFINE Inv == {k \in 0 .. n : P[k] = Q[k]}
<1>1. 0 \in Inv
  BY DEF Rounded
<1>2. ASSUME NEW k \in 0 .. n - 1, k \in Inv PROVE k + 1 \in Inv
  <2>1. /\ k + 1 \in 1 .. Len(s) /\ k + 1 \in 1 .. Len(t) /\ k + 1 \in 1 .. n
        /\ (k + 1) - 1 = k /\ k + 1 \in 0 .. n
    OBVIOUS
  <2>2. P[k + 1] = IF s[k + 1] \in S THEN Append(P[k], s[k + 1]) ELSE P[k]
    <3>1. P[k + 1] = IF s[k + 1] \in S THEN Append(P[(k + 1) - 1], s[k + 1])
                     ELSE P[(k + 1) - 1]
      BY <2>1 DEF Rounded
    <3> QED BY <3>1, <2>1
  <2>3. Q[k + 1] = IF t[k + 1] \in S THEN Append(Q[k], t[k + 1]) ELSE Q[k]
    <3>1. Q[k + 1] = IF t[k + 1] \in S THEN Append(Q[(k + 1) - 1], t[k + 1])
                     ELSE Q[(k + 1) - 1]
      BY <2>1 DEF Rounded
    <3> QED BY <3>1, <2>1
  <2>4. P[k] = Q[k] /\ s[k + 1] = t[k + 1]
    BY <1>2, <2>1
  <2>5. P[k + 1] = Q[k + 1]
    BY <2>2, <2>3, <2>4
  <2> QED BY <2>1, <2>5
<1>3. n \in Inv
  <2> HIDE DEF Inv
  <2> QED BY <1>1, <1>2, Rounds
<1> QED BY <1>3

\* Nothing is selected from an empty queue.
LEMMA OnlyEmpty ==
  ASSUME NEW S
  PROVE  Only(<< >>, S) = << >>
<1>1. << >> \in Seq({}) /\ Len(<< >>) = 0
  BY EmptySeq
<1>2. PICK R : Rounded(R, << >>, S) /\ Only(<< >>, S) = R[Len(<< >>)]
  BY <1>1, OnlyRounds
<1> QED BY <1>1, <1>2 DEF Rounded

\* A new element comes last, if it is in S.
LEMMA OnlyAppend ==
  ASSUME NEW T, NEW s \in Seq(T), NEW e \in T, NEW S
  PROVE  Only(Append(s, e), S) = IF e \in S THEN Append(Only(s, S), e)
                                 ELSE Only(s, S)
<1> DEFINE t == Append(s, e)
           n == Len(s)
<1>1. /\ n \in Nat /\ t \in Seq(T) /\ Len(t) = n + 1 /\ t[n + 1] = e
      /\ \A k \in 1 .. n : t[k] = s[k]
  BY SeqFacts, AppendProperties
<1> HIDE DEF t, n
<1>2. PICK P : Rounded(P, s, S) /\ Only(s, S) = P[n]
  BY OnlyRounds DEF n
<1>3. PICK Q : Rounded(Q, t, S) /\ Only(t, S) = Q[n + 1]
  BY <1>1, OnlyRounds
<1>4. Q[n] = P[n]
  <2>1. n <= Len(t) /\ n <= Len(s) /\ Len(s) \in Nat /\ Len(t) \in Nat
    BY <1>1 DEF n
  <2>2. \A j \in 1 .. n : t[j] = s[j]
    BY <1>1
  <2> QED BY <1>1, <1>2, <1>3, <2>1, <2>2, RoundsAgree
<1>5. Q[n + 1] = IF e \in S THEN Append(Q[n], e) ELSE Q[n]
  <2>1. n + 1 \in 1 .. Len(t) /\ (n + 1) - 1 = n
    BY <1>1
  <2>2. Q[n + 1] = IF t[n + 1] \in S THEN Append(Q[(n + 1) - 1], t[n + 1])
                   ELSE Q[(n + 1) - 1]
    BY <1>3, <2>1 DEF Rounded
  <2> QED BY <1>1, <2>1, <2>2
<1> QED BY <1>2, <1>3, <1>4, <1>5 DEF t

-----------------------------------------------------------------------------
(* Any loop                                                                *)

\* Whatever the round and the value in A before it, G stays in A.
Stays(G, n, A) == \A i \in 1 .. n, a \in A : G[<< i, a >>] \in A

\* The values of a loop of n rounds that begins with b.
LoopValues(f, n, A, b, G) ==
  /\ f \in [0 .. n -> A] /\ f[0] = b
  /\ \A i \in 1 .. n : f[i] = G[<< i, f[i - 1] >>]

\* A loop that stays in A has a value after every round.  G is what a round
\* makes of its number and of the value before.
LEMMA LoopExists ==
  ASSUME NEW n \in Nat, NEW A, NEW b \in A, NEW G, Stays(G, n, A)
  PROVE  \E f : LoopValues(f, n, A, b, G)
<1> DEFINE Upto(k, f) == /\ f \in [0 .. k -> A] /\ f[0] = b
                         /\ \A i \in 1 .. k : f[i] = G[<< i, f[i - 1] >>]
           Inv == {k \in 0 .. n : \E f : Upto(k, f)}
<1>1. 0 \in Inv
  <2>1. Upto(0, [i \in 0 .. 0 |-> b])
    OBVIOUS
  <2> HIDE DEF Upto
  <2> QED BY <2>1
<1>2. ASSUME NEW k \in 0 .. n - 1, k \in Inv PROVE k + 1 \in Inv
  <2>1. PICK f : Upto(k, f)
    BY <1>2
  <2> DEFINE g == [i \in 0 .. k + 1 |->
                     IF i = k + 1 THEN G[<< k + 1, f[k] >>] ELSE f[i]]
  <2>2. k + 1 \in 1 .. n /\ k \in 0 .. k /\ k + 1 \in 0 .. n
    OBVIOUS
  <2>3. f[k] \in A
    BY <2>1, <2>2
  <2>4. G[<< k + 1, f[k] >>] \in A
    BY <2>2, <2>3 DEF Stays
  <2>5. ASSUME NEW i \in 0 .. k + 1, i # k + 1 PROVE i \in 0 .. k
    BY <2>5
  <2>6. g \in [0 .. k + 1 -> A]
    BY <2>1, <2>4, <2>5
  <2>7. g[0] = b /\ g[k + 1] = G[<< k + 1, f[k] >>] /\ \A i \in 0 .. k : g[i] = f[i]
    BY <2>1
  <2> HIDE DEF g
  <2>8. ASSUME NEW i \in 1 .. k + 1 PROVE g[i] = G[<< i, g[i - 1] >>]
    <3>1. CASE i = k + 1
      <4>1. i - 1 = k
        BY <3>1
      <4> QED BY <2>2, <2>7, <3>1, <4>1
    <3>2. CASE i # k + 1
      <4>1. i \in 1 .. k /\ i - 1 \in 0 .. k /\ i \in 0 .. k
        BY <3>2
      <4> QED BY <2>1, <2>7, <4>1
    <3> QED BY <3>1, <3>2
  <2>9. Upto(k + 1, g)
    BY <2>6, <2>7, <2>8
  <2> QED BY <2>2, <2>9
<1>3. n \in Inv
  <2> HIDE DEF Inv
  <2> QED BY <1>1, <1>2, Rounds
<1> QED BY <1>3 DEF LoopValues

\* What a loop makes of the elements of s, one after the other: H is a round.
Folded(s, b, H) ==
  LET f[i \in 0 .. Len(s)] == IF i = 0 THEN b ELSE H[<< f[i - 1], s[i] >>]
  IN  f[Len(s)]

\* Whatever the value in A before it and the element of T, H stays in A.
Turns(H, A, T) == \A a \in A, e \in T : H[<< a, e >>] \in A

\* R goes through the rounds of the loop.
Follows(R, s, b, H) ==
  /\ R[0] = b
  /\ \A i \in 1 .. Len(s) : R[i] = H[<< R[i - 1], s[i] >>]

\* The loop has a value after every round.
LEMMA FoldedRounds ==
  ASSUME NEW T, NEW s \in Seq(T), NEW A, NEW b \in A, NEW H, Turns(H, A, T)
  PROVE  \E f : f \in [0 .. Len(s) -> A] /\ Follows(f, s, b, H)
<1> DEFINE G == [p \in (1 .. Len(s)) \X A |-> H[<< p[2], s[p[1]] >>]]
<1>1. Len(s) \in Nat /\ \A i \in 1 .. Len(s) : s[i] \in T
  BY SeqFacts
<1>2. ASSUME NEW i \in 1 .. Len(s), NEW a \in A PROVE G[<< i, a >>] = H[<< a, s[i] >>]
  OBVIOUS
<1> HIDE DEF G
<1>3. Stays(G, Len(s), A)
  BY <1>1, <1>2 DEF Stays, Turns
<1>4. PICK f : LoopValues(f, Len(s), A, b, G)
  BY <1>1, <1>3, LoopExists
<1>5. ASSUME NEW i \in 1 .. Len(s) PROVE f[i] = H[<< f[i - 1], s[i] >>]
  <2>1. i - 1 \in 0 .. Len(s)
    BY <1>1
  <2>2. f[i - 1] \in A
    BY <1>4, <2>1 DEF LoopValues
  <2> QED BY <1>2, <1>4, <2>2 DEF LoopValues
<1> QED BY <1>4, <1>5 DEF LoopValues, Follows

\* Two that go through the rounds agree in the n-th.
LEMMA FoldedAgree ==
  ASSUME NEW T, NEW s \in Seq(T), NEW A, NEW b \in A, NEW H, Turns(H, A, T),
         NEW n \in 0 .. Len(s), NEW P, NEW Q, P[0] = b, Q[0] = b,
         \A i \in 1 .. n : P[i - 1] \in A => P[i] = H[<< P[i - 1], s[i] >>],
         \A i \in 1 .. n : Q[i - 1] \in A => Q[i] = H[<< Q[i - 1], s[i] >>]
  PROVE  P[n] = Q[n] /\ P[n] \in A
<1> DEFINE Inv == {k \in 0 .. n : P[k] = Q[k] /\ P[k] \in A}
<1>1. Len(s) \in Nat /\ \A i \in 1 .. Len(s) : s[i] \in T
  BY SeqFacts
<1>2. n \in Nat /\ 0 \in Inv
  BY <1>1
<1>3. ASSUME NEW k \in 0 .. n - 1, k \in Inv PROVE k + 1 \in Inv
  <2>1. k + 1 \in 1 .. n /\ (k + 1) - 1 = k /\ k + 1 \in 0 .. n /\ s[k + 1] \in T
    BY <1>1
  <2>2. P[k] \in A /\ Q[k] \in A /\ P[k] = Q[k]
    BY <1>3
  <2>3. /\ P[k + 1] = H[<< P[(k + 1) - 1], s[k + 1] >>]
        /\ Q[k + 1] = H[<< Q[(k + 1) - 1], s[k + 1] >>]
    BY <2>1, <2>2
  <2>4. H[<< P[k], s[k + 1] >>] \in A
    BY <2>1, <2>2 DEF Turns
  <2>5. P[k + 1] = Q[k + 1] /\ P[k + 1] \in A
    BY <2>1, <2>2, <2>3, <2>4
  <2> QED BY <2>1, <2>5
<1>4. n \in Inv
  <2> HIDE DEF Inv
  <2> QED BY <1>2, <1>3, Rounds
<1> QED BY <1>4

\* Whatever goes through the rounds of the loop ends as it does.
LEMMA FoldedIs ==
  ASSUME NEW T, NEW s \in Seq(T), NEW A, NEW b \in A, NEW H, Turns(H, A, T),
         NEW R, R[0] = b,
         \A i \in 1 .. Len(s) : R[i - 1] \in A => R[i] = H[<< R[i - 1], s[i] >>]
  PROVE  R[Len(s)] = Folded(s, b, H) /\ Folded(s, b, H) \in A
<1> DEFINE Round(f) == [i \in 0 .. Len(s) |->
                          IF i = 0 THEN b ELSE H[<< f[i - 1], s[i] >>]]
           F == CHOOSE f : f = Round(f)
<1>1. Len(s) \in Nat /\ Len(s) \in 0 .. Len(s) /\ 0 \in 0 .. Len(s)
  BY SeqFacts
<1>2. PICK g : g \in [0 .. Len(s) -> A] /\ Follows(g, s, b, H)
  BY FoldedRounds
<1>3. g = Round(g)
  BY <1>1, <1>2 DEF Follows
<1>4. F = Round(F)
  <2> HIDE DEF Round
  <2> QED BY <1>3
<1>5. Folded(s, b, H) = F[Len(s)]
  BY DEF Folded
<1> HIDE DEF F
<1>6. \A i \in 0 .. Len(s) : F[i] = IF i = 0 THEN b ELSE H[<< F[i - 1], s[i] >>]
  <2>1. \A i \in 0 .. Len(s) : Round(F)[i] = IF i = 0 THEN b ELSE H[<< F[i - 1], s[i] >>]
    OBVIOUS
  <2> HIDE DEF Round
  <2> QED BY <1>4, <2>1
<1>7. F[0] = b
  BY <1>1, <1>6
<1>8. \A i \in 1 .. Len(s) : F[i - 1] \in A => F[i] = H[<< F[i - 1], s[i] >>]
  <2>1. \A i \in 1 .. Len(s) : i \in 0 .. Len(s) /\ i # 0
    BY <1>1
  <2> QED BY <1>6, <2>1
<1>9. F[Len(s)] = R[Len(s)] /\ F[Len(s)] \in A
  <2> HIDE DEF Round
  <2> QED BY <1>1, <1>7, <1>8, FoldedAgree
<1> QED BY <1>5, <1>9

\* Before the first element it is where it began.
LEMMA FoldedEmpty ==
  ASSUME NEW b, NEW H
  PROVE  Folded(<< >>, b, H) = b
<1>1. Len(<< >>) = 0 /\ << >> \in Seq({})
  BY EmptySeq
<1> DEFINE R == [i \in {0} |-> b]
           Round(f) == [i \in 0 .. Len(<< >>) |->
                          IF i = 0 THEN b ELSE H[<< f[i - 1], << >>[i] >>]]
           F == CHOOSE f : f = Round(f)
<1>2. 0 .. Len(<< >>) = {0}
  BY <1>1
<1>3. R = Round(R)
  BY <1>2
<1>4. F = Round(F)
  <2> HIDE DEF Round, R
  <2> QED BY <1>3
<1>5. Folded(<< >>, b, H) = F[Len(<< >>)]
  BY DEF Folded
<1> HIDE DEF F
<1>6. F[0] = b
  <2>1. Round(F)[0] = b
    BY <1>2
  <2> HIDE DEF Round
  <2> QED BY <1>4, <2>1
<1> QED BY <1>1, <1>5, <1>6

\* One more element is one more round.
LEMMA FoldedAppend ==
  ASSUME NEW T, NEW s \in Seq(T), NEW e \in T, NEW A, NEW b \in A,
         NEW H, Turns(H, A, T)
  PROVE  /\ Folded(s, b, H) \in A
         /\ Folded(Append(s, e), b, H) = H[<< Folded(s, b, H), e >>]
<1> DEFINE n == Len(s)
<1>1. PICK t \in Seq(T) : t = Append(s, e)
  BY AppendProperties
<1>2. /\ n \in Nat /\ Len(t) = n + 1 /\ t[n + 1] = e
      /\ \A i \in 1 .. n : t[i] = s[i]
  BY <1>1, SeqFacts, AppendProperties
<1>3. PICK g : g \in [0 .. Len(t) -> A] /\ Follows(g, t, b, H)
  BY FoldedRounds
<1>4. g[Len(t)] = Folded(t, b, H)
  BY <1>3, FoldedIs DEF Follows
<1>5. g[n] = Folded(s, b, H) /\ Folded(s, b, H) \in A
  <2>1. g[0] = b /\ \A i \in 1 .. Len(s) : g[i - 1] \in A => g[i] = H[<< g[i - 1], s[i] >>]
    BY <1>2, <1>3 DEF Follows
  <2> QED BY <2>1, FoldedIs
<1>6. g[n + 1] = H[<< g[n], e >>]
  <2>1. n + 1 \in 1 .. Len(t) /\ (n + 1) - 1 = n
    BY <1>2
  <2>2. g[n + 1] = H[<< g[(n + 1) - 1], t[n + 1] >>]
    BY <1>3, <2>1 DEF Follows
  <2> QED BY <1>2, <2>1, <2>2
<1> QED BY <1>1, <1>2, <1>4, <1>5, <1>6

\* Induction on sequences: Inv is the set of those for which it holds.
LEMMA Appends ==
  ASSUME NEW T, NEW Inv, << >> \in Inv,
         \A s \in Seq(T), e \in T : s \in Inv => Append(s, e) \in Inv
  PROVE  Seq(T) \subseteq Inv
<1> SUFFICES ASSUME NEW s \in Seq(T) PROVE s \in Inv
  OBVIOUS
<1>1. PICK P : Rounded(P, s, T) /\ Only(s, T) = P[Len(s)]
  BY OnlyRounds
<1>2. Len(s) \in Nat /\ \A i \in 1 .. Len(s) : s[i] \in T
  BY SeqFacts
<1> DEFINE First(i) == SubSeq(s, 1, i)
           Good == {i \in 0 .. Len(s) : P[i] \in Inv /\ P[i] = First(i)}
<1>3. 0 \in Good
  <2>1. P[0] = << >> /\ SubSeq(s, 1, 0) = << >>
    BY <1>1, SubSeqEmpty DEF Rounded
  <2>2. P[0] \in Inv /\ P[0] = First(0) /\ 0 \in 0 .. Len(s)
    BY <2>1, <1>2
  <2> HIDE DEF First
  <2> QED BY <1>2, <2>2
<1>4. ASSUME NEW i \in 0 .. Len(s) - 1, i \in Good PROVE i + 1 \in Good
  <2>1. /\ i + 1 \in 1 .. Len(s) /\ (i + 1) - 1 = i /\ i + 1 \in 0 .. Len(s)
        /\ s[i + 1] \in T /\ 1 \in 1 .. Len(s)
    BY <1>2
  <2>2. P[i + 1] = IF s[i + 1] \in T THEN Append(P[(i + 1) - 1], s[i + 1])
                   ELSE P[(i + 1) - 1]
    BY <1>1, <2>1 DEF Rounded
  <2>3. P[i] \in Seq(T) /\ P[i] \in Inv /\ P[i] = SubSeq(s, 1, i)
    BY <1>1, <1>4, RoundSeq
  <2>4. P[i + 1] \in Inv
    BY <2>1, <2>2, <2>3
  <2>5. SubSeq(s, 1, i + 1) = SubSeq(s, 1, (i + 1) - 1) \o << s[i + 1] >>
    BY <2>1, SubSeqRecursiveSecond
  <2>6. Append(P[i], s[i + 1]) = P[i] \o << s[i + 1] >>
    BY <2>1, <2>3, AppendIsConcat
  <2>7. P[i + 1] = First(i + 1)
    BY <2>1, <2>2, <2>3, <2>5, <2>6
  <2> HIDE DEF First
  <2> QED BY <2>1, <2>4, <2>7
<1>5. Len(s) \in Good
  <2> HIDE DEF Good
  <2> QED BY <1>2, <1>3, <1>4, Rounds
<1>6. SubSeq(s, 1, Len(s)) = s
  BY SubSeqFull
<1> QED BY <1>5, <1>6
==============================================================================
