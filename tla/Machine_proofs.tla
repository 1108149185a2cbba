--------------------------- MODULE Machine_proofs ---------------------------
(***************************************************************************)
(* Theorems about Machine, for every set of clients and descriptors and    *)
(* every width of the identifiers.                                         *)
(***************************************************************************)
EXTENDS Machine, Loops, SequenceTheorems, FiniteSetTheorems, TLAPS

-----------------------------------------------------------------------------
(* Sequences                                                               *)

\* msgrcv: the first message is taken.
LEMMA TailDrops ==
  ASSUME NEW T, NEW s \in Seq(T), s # << >>
  PROVE  /\ Tail(s) \in Seq(T) /\ Dropped(s, 1, Tail(s))
         /\ Head(s) = s[1] /\ Head(s) \in T
<1>1. Len(s) \in Nat /\ Len(s) # 0
  BY SeqFacts
<1>2. /\ Tail(s) \in Seq(T) /\ Len(Tail(s)) = Len(s) - 1 /\ Head(s) \in T
      /\ \A i \in 1 .. Len(Tail(s)) : Tail(s)[i] = s[i + 1]
  BY HeadTailProperties
<1>3. \A j \in 1 .. Len(s) - 1 : Tail(s)[j] = IF j < 1 THEN s[j] ELSE s[j + 1]
  BY <1>1, <1>2
<1>4. Head(s) = s[1]
  OBVIOUS
<1> QED BY <1>1, <1>2, <1>3, <1>4 DEF Dropped

\* vector::erase.
LEMMA RemoveDrops ==
  ASSUME NEW T, NEW s \in Seq(T), NEW k \in 1 .. Len(s)
  PROVE  RemoveAt(s, k) \in Seq(T) /\ Dropped(s, k, RemoveAt(s, k))
BY CutDrops DEF RemoveAt

-----------------------------------------------------------------------------
(* The identifiers of the messages of a queue                              *)

IDs(q) == {q[k].id : k \in DOMAIN q}

Distinct(q) == \A j, k \in DOMAIN q : q[j].id = q[k].id => j = k

\* A message is put at the end of a queue.
LEMMA AppendIDs ==
  ASSUME NEW T, NEW s \in Seq(T), NEW e \in T
  PROVE  /\ IDs(Append(s, e)) = IDs(s) \cup {e.id}
         /\ ToSet(Append(s, e)) = ToSet(s) \cup {e}
         /\ Distinct(s) /\ e.id \notin IDs(s) => Distinct(Append(s, e))
<1> DEFINE t == Append(s, e)
           n == Len(s)
<1>1. n \in Nat /\ DOMAIN s = 1 .. n
  BY SeqFacts
<1>2. /\ DOMAIN t = 1 .. n + 1
      /\ \A k \in 1 .. n + 1 : t[k] = IF k = n + 1 THEN e ELSE s[k]
  BY AppendFacts, SeqFacts
<1> HIDE DEF t, n
<1>3. 1 .. n + 1 = (1 .. n) \cup {n + 1} /\ n + 1 \notin 1 .. n
  BY <1>1
<1>4. IDs(t) = IDs(s) \cup {e.id}
  BY <1>1, <1>2, <1>3 DEF IDs
<1>5. ToSet(t) = ToSet(s) \cup {e}
  BY <1>1, <1>2, <1>3 DEF ToSet
<1>6. ASSUME Distinct(s), e.id \notin IDs(s) PROVE Distinct(t)
  <2>1. ASSUME NEW j \in 1 .. n + 1, NEW k \in 1 .. n + 1, t[j].id = t[k].id
        PROVE  j = k
    <3>1. CASE j \in 1 .. n /\ k \in 1 .. n
      BY <2>1, <3>1, <1>1, <1>2, <1>3, <1>6 DEF Distinct
    <3>2. CASE j = n + 1 /\ k \in 1 .. n
      <4>1. e.id = s[k].id
        BY <2>1, <3>2, <1>2, <1>3
      <4> QED BY <4>1, <3>2, <1>1, <1>6 DEF IDs
    <3>3. CASE j \in 1 .. n /\ k = n + 1
      <4>1. e.id = s[j].id
        BY <2>1, <3>3, <1>2, <1>3
      <4> QED BY <4>1, <3>3, <1>1, <1>6 DEF IDs
    <3> QED BY <3>1, <3>2, <3>3, <1>3
  <2> QED BY <2>1, <1>2 DEF Distinct
<1> QED BY <1>4, <1>5, <1>6 DEF t

\* One message is taken from a queue, wherever it is.
LEMMA DropIDs ==
  ASSUME NEW T, NEW s \in Seq(T), NEW t \in Seq(T), NEW k, Dropped(s, k, t)
  PROVE  /\ ToSet(t) \subseteq ToSet(s)
         /\ ToSet(s) \subseteq ToSet(t) \cup {s[k]}
         /\ s[k].id \in IDs(s) /\ s[k] \in ToSet(s) /\ s[k] \in T
         /\ IDs(t) \subseteq IDs(s) /\ IDs(s) \subseteq IDs(t) \cup {s[k].id}
         /\ Distinct(s) => Distinct(t) /\ s[k].id \notin IDs(t)
<1> DEFINE n == Len(s)
           p(j) == IF j < k THEN j ELSE j + 1
<1>1. /\ n \in Nat /\ DOMAIN s = 1 .. n /\ k \in 1 .. n /\ DOMAIN t = 1 .. n - 1
      /\ \A j \in 1 .. n - 1 : t[j] = IF j < k THEN s[j] ELSE s[j + 1]
      /\ s[k] \in T
  BY SeqFacts DEF Dropped
<1> HIDE DEF n
<1>2. \A j \in 1 .. n - 1 : p(j) \in 1 .. n /\ p(j) # k /\ t[j] = s[p(j)]
  BY <1>1
<1>3. \A i, j \in 1 .. n - 1 : p(i) = p(j) => i = j
  BY <1>1
<1>4. ASSUME NEW i \in 1 .. n, i # k
      PROVE  \E j \in 1 .. n - 1 : p(j) = i
  <2>1. CASE i < k
    <3>1. i \in 1 .. n - 1 /\ p(i) = i
      BY <2>1, <1>1
    <3> QED BY <3>1
  <2>2. CASE i > k
    <3>1. i - 1 \in 1 .. n - 1 /\ p(i - 1) = i
      BY <2>2, <1>1
    <3> QED BY <3>1
  <2> QED BY <1>1, <1>4, <2>1, <2>2
<1> HIDE DEF p
<1>5. ToSet(t) \subseteq ToSet(s) /\ IDs(t) \subseteq IDs(s)
  BY <1>1, <1>2 DEF ToSet, IDs
<1>6. /\ ToSet(s) \subseteq ToSet(t) \cup {s[k]}
      /\ IDs(s) \subseteq IDs(t) \cup {s[k].id}
  <2>1. ASSUME NEW i \in 1 .. n, i # k PROVE \E j \in DOMAIN t : t[j] = s[i]
    BY <2>1, <1>1, <1>2, <1>4
  <2> QED BY <2>1, <1>1 DEF ToSet, IDs
<1>7. ASSUME Distinct(s) PROVE Distinct(t) /\ s[k].id \notin IDs(t)
  <2>1. ASSUME NEW i \in 1 .. n - 1, NEW j \in 1 .. n - 1, t[i].id = t[j].id
        PROVE  i = j
    <3>1. s[p(i)].id = s[p(j)].id /\ p(i) \in 1 .. n /\ p(j) \in 1 .. n
      BY <2>1, <1>2
    <3>2. p(i) = p(j)
      BY <3>1, <1>1, <1>7 DEF Distinct
    <3> QED BY <3>2, <1>3
  <2>2. ASSUME NEW j \in 1 .. n - 1 PROVE t[j].id # s[k].id
    <3>1. t[j] = s[p(j)] /\ p(j) \in 1 .. n /\ p(j) # k
      BY <1>2
    <3> QED BY <3>1, <1>1, <1>7 DEF Distinct
  <2> QED BY <2>1, <2>2, <1>1 DEF Distinct, IDs
<1> QED BY <1>1, <1>5, <1>6, <1>7 DEF ToSet, IDs

-----------------------------------------------------------------------------
(* Only                                                                    *)

\* What the loop has seen after n rounds.
Seen(s, n) == {s[j] : j \in 1 .. n}

\* After each round the loop holds the elements seen that are in S.
LEMMA RoundElems ==
  ASSUME NEW T, NEW s \in Seq(T), NEW S, NEW R, Rounded(R, s, S),
         NEW n \in 0 .. Len(s)
  PROVE  R[n] \in Seq(T) /\ ToSet(R[n]) = Seen(s, n) \cap S
<1> DEFINE First(k) == Seen(s, k)
           Inv == {k \in 0 .. n : R[k] \in Seq(T) /\ ToSet(R[k]) = First(k) \cap S}
<1>1. Len(s) \in Nat /\ \A k \in 1 .. Len(s) : s[k] \in T
  BY SeqFacts
<1>2. 0 \in Inv
  <2>1. First(0) = {}
    BY DEF Seen
  <2>2. << >> \in Seq(T) /\ DOMAIN << >> = {}
    BY EmptySeq
  <2>3. ToSet(<< >>) = {}
    BY <2>2 DEF ToSet
  <2> HIDE DEF First
  <2>4. R[0] \in Seq(T) /\ ToSet(R[0]) = First(0) \cap S
    BY <2>1, <2>2, <2>3 DEF Rounded
  <2> QED BY <2>4, <1>1
<1>3. ASSUME NEW k \in 0 .. n - 1, k \in Inv PROVE k + 1 \in Inv
  <2>1. k + 1 \in 1 .. Len(s) /\ (k + 1) - 1 = k /\ k + 1 \in 0 .. n
    BY <1>1
  <2>2. R[k + 1] = IF s[k + 1] \in S THEN Append(R[k], s[k + 1]) ELSE R[k]
    <3>1. R[k + 1] = IF s[k + 1] \in S THEN Append(R[(k + 1) - 1], s[k + 1])
                     ELSE R[(k + 1) - 1]
      BY <2>1 DEF Rounded
    <3> QED BY <3>1, <2>1
  <2>3. First(k + 1) = First(k) \cup {s[k + 1]}
    BY <2>1 DEF Seen
  <2>4. R[k] \in Seq(T) /\ ToSet(R[k]) = First(k) \cap S /\ s[k + 1] \in T
    BY <1>1, <1>3, <2>1
  <2> HIDE DEF First
  <2>5. /\ Append(R[k], s[k + 1]) \in Seq(T)
        /\ ToSet(Append(R[k], s[k + 1])) = ToSet(R[k]) \cup {s[k + 1]}
    BY <2>4, AppendFacts, AppendIDs
  <2>6. R[k + 1] \in Seq(T) /\ ToSet(R[k + 1]) = First(k + 1) \cap S
    BY <2>2, <2>3, <2>4, <2>5
  <2> QED BY <2>1, <2>6
<1>4. n \in Inv
  <2>1. n \in Nat
    BY <1>1
  <2> HIDE DEF Inv
  <2> QED BY <1>2, <1>3, <2>1, Rounds
<1> QED BY <1>4

\* Only keeps what is in S.
LEMMA OnlyElems ==
  ASSUME NEW T, NEW s \in Seq(T), NEW S
  PROVE  Only(s, S) \in Seq(T) /\ ToSet(Only(s, S)) = ToSet(s) \cap S
<1>1. PICK R : Rounded(R, s, S) /\ Only(s, S) = R[Len(s)]
  BY OnlyRounds
<1>2. Len(s) \in 0 .. Len(s) /\ DOMAIN s = 1 .. Len(s)
  BY SeqFacts
<1>3. R[Len(s)] \in Seq(T) /\ ToSet(R[Len(s)]) = Seen(s, Len(s)) \cap S
  BY <1>1, <1>2, RoundElems
<1>4. Seen(s, Len(s)) = ToSet(s)
  BY <1>2 DEF Seen, ToSet
<1> QED BY <1>1, <1>3, <1>4

\* Concatenation, appending and the sequence of one element, as operators the
\* provers leave alone.
Cat(u, v) == u \o v
Put(u, e) == Append(u, e)
Lone(e) == << e >>

\* They commute.
LEMMA CatPut ==
  ASSUME NEW T, NEW u \in Seq(T), NEW v \in Seq(T), NEW e \in T
  PROVE  Put(Cat(u, v), e) = Cat(u, Put(v, e))
<1>1. << e >> \in Seq(T)
  OBVIOUS
<1>2. PICK w \in Seq(T) : w = << e >>
  BY <1>1
<1>3. u \o v \in Seq(T)
  BY ConcatProperties
<1>4. PICK x \in Seq(T) : x = u \o v
  BY <1>3
<1>5. Append(v, e) = v \o w
  BY <1>2, AppendIsConcat
<1>6. Append(x, e) = x \o w
  BY <1>2, AppendIsConcat
<1>7. (u \o v) \o w = u \o (v \o w)
  BY ConcatAssociative
<1> QED BY <1>4, <1>5, <1>6, <1>7 DEF Cat, Put

\* The rounds on s and on s without its k-th element, after the k-th: pre is
\* what the k-th element adds.
LEMMA RoundsDropped ==
  ASSUME NEW T, NEW s \in Seq(T), NEW t \in Seq(T), NEW k, Dropped(s, k, t),
         NEW S, NEW P, NEW Q, Rounded(P, s, S), Rounded(Q, t, S),
         NEW pre \in Seq(T), P[k] = Cat(pre, Q[k - 1])
  PROVE  P[Len(s)] = Cat(pre, Q[Len(t)])
<1> DEFINE n == Len(s)
           Inv == {i \in 0 .. n - k : P[k + i] = Cat(pre, Q[(k - 1) + i])}
<1>1. /\ n \in Nat /\ k \in 1 .. n /\ Len(t) = n - 1
      /\ \A j \in 1 .. n : s[j] \in T
      /\ \A j \in 1 .. n - 1 : t[j] = IF j < k THEN s[j] ELSE s[j + 1]
  BY SeqFacts DEF Dropped
<1> HIDE DEF n
<1>2. 0 \in Inv
  <2>1. k + 0 = k /\ (k - 1) + 0 = k - 1 /\ 0 \in 0 .. n - k
    BY <1>1
  <2> QED BY <2>1
<1>3. ASSUME NEW i \in 0 .. (n - k) - 1, i \in Inv PROVE i + 1 \in Inv
  <2> DEFINE a == k + i
             b == (k - 1) + i
  <2>1. /\ a + 1 \in 1 .. n /\ (a + 1) - 1 = a /\ k + (i + 1) = a + 1
        /\ b + 1 \in 1 .. n - 1 /\ (b + 1) - 1 = b /\ (k - 1) + (i + 1) = b + 1
        /\ ~ (b + 1 < k) /\ (b + 1) + 1 = a + 1 /\ b \in 0 .. n - 1
        /\ i + 1 \in 0 .. n - k
    BY <1>1
  <2>2. P[a] = Cat(pre, Q[b])
    BY <1>3
  <2> HIDE DEF a, b
  <2>3. t[b + 1] = s[a + 1] /\ s[a + 1] \in T
    BY <1>1, <2>1
  <2>4. P[a + 1] = IF s[a + 1] \in S THEN Put(P[a], s[a + 1]) ELSE P[a]
    <3>1. P[a + 1] = IF s[a + 1] \in S THEN Append(P[(a + 1) - 1], s[a + 1])
                     ELSE P[(a + 1) - 1]
      BY <2>1 DEF Rounded, n
    <3> QED BY <3>1, <2>1 DEF Put
  <2>5. Q[b + 1] = IF s[a + 1] \in S THEN Put(Q[b], s[a + 1]) ELSE Q[b]
    <3>1. Q[b + 1] = IF t[b + 1] \in S THEN Append(Q[(b + 1) - 1], t[b + 1])
                     ELSE Q[(b + 1) - 1]
      BY <1>1, <2>1 DEF Rounded
    <3> QED BY <3>1, <2>1, <2>3 DEF Put
  <2>6. Q[b] \in Seq(T)
    BY <1>1, <2>1, RoundElems
  <2>7. Put(Cat(pre, Q[b]), s[a + 1]) = Cat(pre, Put(Q[b], s[a + 1]))
    BY <2>3, <2>6, CatPut
  <2>8. P[a + 1] = Cat(pre, Q[b + 1])
    BY <2>2, <2>4, <2>5, <2>7
  <2> QED BY <2>1, <2>8
<1>4. n - k \in Inv
  <2>1. n - k \in Nat
    BY <1>1
  <2> HIDE DEF Inv
  <2> QED BY <1>2, <1>3, <2>1, Rounds
<1>5. k + (n - k) = n /\ (k - 1) + (n - k) = n - 1
  BY <1>1
<1> QED BY <1>1, <1>4, <1>5 DEF n

\* An element that is not in S may go.
LEMMA OnlySkip ==
  ASSUME NEW T, NEW s \in Seq(T), NEW t \in Seq(T), NEW k, Dropped(s, k, t),
         NEW S, s[k] \notin S
  PROVE  Only(t, S) = Only(s, S)
<1>1. /\ Len(s) \in Nat /\ k \in 1 .. Len(s) /\ Len(t) = Len(s) - 1
      /\ \A j \in 1 .. Len(s) - 1 : t[j] = IF j < k THEN s[j] ELSE s[j + 1]
  BY SeqFacts DEF Dropped
<1>2. PICK P : Rounded(P, s, S) /\ Only(s, S) = P[Len(s)]
  BY OnlyRounds
<1>3. PICK Q : Rounded(Q, t, S) /\ Only(t, S) = Q[Len(t)]
  BY OnlyRounds
<1>4. P[k - 1] = Q[k - 1]
  <2>1. /\ k - 1 \in Nat /\ Len(t) \in Nat /\ k - 1 <= Len(s) /\ k - 1 <= Len(t)
        /\ \A j \in 1 .. k - 1 : s[j] = t[j]
    BY <1>1
  <2> QED BY <1>1, <1>2, <1>3, <2>1, RoundsAgree
<1>5. P[k] = P[k - 1]
  BY <1>1, <1>2 DEF Rounded
<1>6. Q[k - 1] \in Seq(T) /\ Only(t, S) \in Seq(T)
  <2>1. k - 1 \in 0 .. Len(t)
    BY <1>1
  <2> QED BY <1>3, <2>1, RoundElems, OnlyElems
<1>7. \A q \in Seq(T) : Cat(<< >>, q) = q
  BY ConcatEmptySeq DEF Cat
<1>8. << >> \in Seq(T) /\ P[k] = Cat(<< >>, Q[k - 1])
  BY <1>4, <1>5, <1>6, <1>7, EmptySeq
<1>9. P[Len(s)] = Cat(<< >>, Q[Len(t)])
  <2>1. PICK pre : pre = << >>
    OBVIOUS
  <2>2. pre \in Seq(T) /\ P[k] = Cat(pre, Q[k - 1])
    BY <2>1, <1>8
  <2>3. P[Len(s)] = Cat(pre, Q[Len(t)])
    BY <2>2, <1>2, <1>3, RoundsDropped
  <2> QED BY <2>1, <2>3
<1> QED BY <1>2, <1>3, <1>6, <1>7, <1>9

\* The first element in S comes first.
LEMMA OnlyFirst ==
  ASSUME NEW T, NEW s \in Seq(T), NEW t \in Seq(T), NEW k, Dropped(s, k, t),
         NEW S, s[k] \in S, \A j \in 1 .. k - 1 : s[j] \notin S
  PROVE  Only(s, S) = Cat(Lone(s[k]), Only(t, S))
<1>1. /\ Len(s) \in Nat /\ k \in 1 .. Len(s) /\ Len(t) = Len(s) - 1 /\ s[k] \in T
      /\ \A j \in 1 .. Len(s) - 1 : t[j] = IF j < k THEN s[j] ELSE s[j + 1]
  BY SeqFacts DEF Dropped
<1>2. PICK P : Rounded(P, s, S) /\ Only(s, S) = P[Len(s)]
  BY OnlyRounds
<1>3. PICK Q : Rounded(Q, t, S) /\ Only(t, S) = Q[Len(t)]
  BY OnlyRounds
<1>4. P[k - 1] = Q[k - 1]
  <2>1. /\ k - 1 \in Nat /\ Len(t) \in Nat /\ k - 1 <= Len(s) /\ k - 1 <= Len(t)
        /\ \A j \in 1 .. k - 1 : s[j] = t[j]
    BY <1>1
  <2> QED BY <1>1, <1>2, <1>3, <2>1, RoundsAgree
<1>5. P[k - 1] = << >>
  <2>1. k - 1 \in 0 .. Len(s)
    BY <1>1
  <2>2. P[k - 1] \in Seq(T) /\ ToSet(P[k - 1]) = Seen(s, k - 1) \cap S
    BY <1>2, <2>1, RoundElems
  <2>3. Seen(s, k - 1) \cap S = {}
    BY DEF Seen
  <2>4. DOMAIN P[k - 1] = {}
    BY <2>2, <2>3 DEF ToSet
  <2> QED BY <2>2, <2>4, SeqFacts, SMTT(30)
<1>6. P[k] = Append(<< >>, s[k])
  BY <1>1, <1>2, <1>5 DEF Rounded
<1>7. Q[k - 1] = << >>
  BY <1>4, <1>5
<1>8. PICK pre \in Seq(T) : pre = << s[k] >>
  <2>1. << s[k] >> \in Seq(T)
    BY <1>1
  <2> QED BY <2>1
<1>9. P[k] = pre
  BY <1>6, <1>8
<1>10. pre = Cat(pre, << >>)
  BY ConcatEmptySeq DEF Cat
<1>11. P[k] = Cat(pre, Q[k - 1])
  BY <1>7, <1>9, <1>10
<1>12. P[Len(s)] = Cat(pre, Q[Len(t)])
  BY <1>2, <1>3, <1>11, RoundsDropped
<1> QED BY <1>2, <1>3, <1>8, <1>12 DEF Lone

\* What is at two places of q is at two of the first n places of s.
Places(q, s, n) ==
  \A i, j \in DOMAIN q : i # j =>
    \E a, b \in 1 .. n : a # b /\ q[i] = s[a] /\ q[j] = s[b]

\* What Only keeps at two places is at two places of s.
LEMMA OnlyPlaces ==
  ASSUME NEW T, NEW s \in Seq(T), NEW S
  PROVE  Places(Only(s, S), s, Len(s))
<1>1. PICK R : Rounded(R, s, S) /\ Only(s, S) = R[Len(s)]
  BY OnlyRounds
<1> DEFINE n == Len(s)
           Inv == {k \in 0 .. n : Places(R[k], s, k)}
<1>2. n \in Nat /\ DOMAIN s = 1 .. n /\ \A j \in 1 .. n : s[j] \in T
  BY SeqFacts
<1>3. 0 \in Inv
  <2>1. DOMAIN << >> = {}
    BY EmptySeq
  <2>2. Places(R[0], s, 0)
    BY <1>1, <2>1 DEF Rounded, Places
  <2> QED BY <1>2, <2>2
<1>4. ASSUME NEW k \in 0 .. n - 1, k \in Inv PROVE k + 1 \in Inv
  <2>1. /\ k + 1 \in 1 .. n /\ (k + 1) - 1 = k /\ k + 1 \in 0 .. n /\ k \in 0 .. n
        /\ 1 .. k \subseteq 1 .. k + 1 /\ k + 1 \in 1 .. k + 1 /\ k + 1 \notin 1 .. k
    BY <1>2
  <2>2. R[k + 1] = IF s[k + 1] \in S THEN Append(R[k], s[k + 1]) ELSE R[k]
    <3>1. R[k + 1] = IF s[k + 1] \in S THEN Append(R[(k + 1) - 1], s[k + 1])
                     ELSE R[(k + 1) - 1]
      BY <1>1, <2>1 DEF Rounded
    <3> QED BY <3>1, <2>1
  <2>3. R[k] \in Seq(T) /\ ToSet(R[k]) = Seen(s, k) \cap S /\ Places(R[k], s, k)
    BY <1>1, <1>4, <2>1, RoundElems
  <2>4. ASSUME NEW i \in DOMAIN R[k] PROVE \E a \in 1 .. k : R[k][i] = s[a]
    BY <2>3 DEF ToSet, Seen
  <2>5. Places(R[k + 1], s, k + 1)
    <3>1. CASE s[k + 1] \notin S
      <4>1. R[k + 1] = R[k]
        BY <2>2, <3>1
      <4> QED BY <2>1, <2>3, <4>1 DEF Places
    <3>2. CASE s[k + 1] \in S
      <4> DEFINE q == R[k]
                 e == s[k + 1]
                 r == Append(q, e)
                 m == Len(q)
      <4>1. R[k + 1] = r
        BY <2>2, <3>2
      <4>2. e \in T /\ q \in Seq(T) /\ m \in Nat /\ DOMAIN q = 1 .. m
        BY <1>2, <2>1, <2>3, SeqFacts
      <4>3. r \in Seq(T) /\ Len(r) = m + 1
            /\ \A i \in 1 .. m + 1 : r[i] = IF i = m + 1 THEN e ELSE q[i]
        BY <4>2, AppendFacts
      <4>4. DOMAIN r = 1 .. m + 1
        BY <4>3, SeqFacts
      <4> HIDE DEF r, m
      <4>5. 1 .. m + 1 = (1 .. m) \cup {m + 1} /\ m + 1 \notin 1 .. m
        BY <4>2
      <4>6. ASSUME NEW i \in 1 .. m + 1, NEW j \in 1 .. m + 1, i # j
            PROVE  \E a, b \in 1 .. k + 1 : a # b /\ r[i] = s[a] /\ r[j] = s[b]
        <5>1. CASE i \in 1 .. m /\ j \in 1 .. m
          <6>1. PICK a \in 1 .. k, b \in 1 .. k :
                  a # b /\ q[i] = s[a] /\ q[j] = s[b]
            <7>1. Places(q, s, k) /\ i \in DOMAIN q /\ j \in DOMAIN q /\ i # j
              BY <2>3, <4>2, <4>6, <5>1
            <7> HIDE DEF q
            <7> QED BY <7>1 DEF Places
          <6> QED BY <2>1, <4>3, <4>5, <5>1, <6>1
        <5>2. CASE i \in 1 .. m /\ j = m + 1
          <6>1. PICK a \in 1 .. k : q[i] = s[a]
            BY <2>4, <4>2, <5>2
          <6> QED BY <2>1, <4>3, <4>5, <5>2, <6>1
        <5>3. CASE i = m + 1 /\ j \in 1 .. m
          <6>1. PICK b \in 1 .. k : q[j] = s[b]
            BY <2>4, <4>2, <5>3
          <6> QED BY <2>1, <4>3, <4>5, <5>3, <6>1
        <5> QED BY <4>5, <4>6, <5>1, <5>2, <5>3
      <4> QED BY <4>1, <4>4, <4>6 DEF Places
    <3> QED BY <3>1, <3>2
  <2> QED BY <2>1, <2>5
<1>5. n \in Inv
  <2> HIDE DEF Inv, n
  <2> QED BY <1>2, <1>3, <1>4, Rounds
<1> QED BY <1>1, <1>5

-----------------------------------------------------------------------------
(* Signals and messages                                                    *)

One(b) == IF b THEN 1 ELSE 0

\* Each byte of the pipe, each signal the child has not handled and the signal
\* the parent is about to send has a message of its own in the channel.
Announced ==
  child # "exited" =>
    pipe + One(childSig) + One(parent \in {"kill", "kill_wait"})
      <= Len(requests)

\* The child takes a message for a byte it has.
ByteTaken == child = "take" => pipe > 0

SInv == TypeOK /\ RepliesAreFetched /\ Announced /\ ByteTaken

\* The initial state is typed, and nothing is announced in it.
LEMMA InitSInv == ASSUME Init PROVE SInv
<1>1. TypeOK
  <2>1. 0 \in ID
    BY MachineAssumption DEF ID
  <2>2. << >> \in Seq(Message) /\ << >> \in Seq(FD) /\ DOMAIN << >> = {}
    BY EmptySeq
  <2> QED BY <2>1, <2>2 DEF Init, TypeOK
<1>2. Len(requests) = 0
  BY DEF Init
<1> QED BY <1>1, <1>2 DEF Init, SInv, RepliesAreFetched, Announced, ByteTaken, One

\* The next identifier is one.
LEMMA NextIDType == ASSUME requestID \in ID PROVE NextID \in ID
  BY MachineAssumption DEF ID, NextID

\* Lengths and members of the queues.
LEMMA QueueFacts ==
  ASSUME TypeOK
  PROVE  /\ Len(requests) \in Nat /\ DOMAIN requests = 1 .. Len(requests)
         /\ \A k \in 1 .. Len(requests) : requests[k] \in Message
         /\ requests = << >> <=> Len(requests) = 0
         /\ Len(reads) \in Nat /\ DOMAIN reads = 1 .. Len(reads)
         /\ \A k \in 1 .. Len(reads) : reads[k] \in Message
         /\ Len(replies) \in Nat /\ DOMAIN replies = 1 .. Len(replies)
         /\ \A k \in 1 .. Len(replies) : replies[k] \in Message
<1>1. requests \in Seq(Message) /\ reads \in Seq(Message) /\ replies \in Seq(Message)
  BY DEF TypeOK
<1> QED BY <1>1, SeqFacts

\* The first message is taken from the request channel.
LEMMA TakeFacts ==
  ASSUME TypeOK, Take
  PROVE  /\ requests' \in Seq(Message) /\ Dropped(requests, 1, requests')
         /\ Head(requests) = requests[1] /\ Head(requests) \in Message
         /\ Len(requests') = Len(requests) - 1
<1>1. requests \in Seq(Message) /\ requests # << >> /\ requests' = Tail(requests)
  BY DEF TypeOK, Take
<1> QED BY <1>1, TailDrops DEF Dropped

\* A request is sent.
LEMMA SendFacts ==
  ASSUME TypeOK, NEW c \in Client \cup {NULL}, NEW class \in Class \cup {"terminate"},
         Send(c, class)
  PROVE  /\ requests' \in Seq(Message) /\ Len(requests') = Len(requests) + 1
         /\ requestID' \in ID /\ requestID' = NextID
         /\ [id |-> NextID, class |-> class] \in Message
         /\ DOMAIN pending' = DOMAIN pending \cup {NextID}
         /\ \A i \in DOMAIN pending' :
              pending'[i] = IF i = NextID THEN c ELSE pending[i]
<1>1. requests \in Seq(Message) /\ NextID \in ID
  BY NextIDType DEF TypeOK
<1>2. [id |-> NextID, class |-> class] \in Message
  BY <1>1 DEF Message
<1>3. /\ requests' = Append(requests, [id |-> NextID, class |-> class])
      /\ requestID' = NextID /\ pending' = With(pending, NextID, c)
  BY DEF Send
<1> QED BY <1>1, <1>2, <1>3, AppendFacts DEF With

\* Every step leaves the variables with their types.
LEMMA StepTypeOK ==
  ASSUME TypeOK, ByteTaken, [Next]_vars
  PROVE  TypeOK'
<1> USE DEF TypeOK
<1>1. CASE UNCHANGED vars
  BY <1>1 DEF vars, parentVars, childVars, ToSet
<1>2. ASSUME NEW c \in Client, NEW class \in Class, MachineFile(c, class)
      PROVE  TypeOK'
  <2>1. /\ c \in Client \cup {NULL} /\ class \in Class \cup {"terminate"}
        /\ Send(c, class) /\ parent' = "kill"
    BY <1>2 DEF MachineFile
  <2>2. /\ requests' \in Seq(Message) /\ requestID' \in ID /\ DOMAIN pending' \subseteq ID
        /\ \A i \in DOMAIN pending' : pending'[i] \in Client \cup {NULL}
    <3>1. /\ requests' \in Seq(Message) /\ Len(requests') = Len(requests) + 1
          /\ requestID' \in ID /\ requestID' = NextID
          /\ [id |-> NextID, class |-> class] \in Message
          /\ DOMAIN pending' = DOMAIN pending \cup {NextID}
          /\ \A i \in DOMAIN pending' :
               pending'[i] = IF i = NextID THEN c ELSE pending[i]
      BY <2>1, SendFacts
    <3> QED BY <2>1, <3>1
  <2> QED BY <2>1, <2>2 DEF Send, childVars, ToSet
<1>3. CASE MachineTerminate
  <2>1. Send(NULL, "terminate") /\ parent' = "kill_wait"
    BY <1>3 DEF MachineTerminate
  <2>2. PICK c, class : c = NULL /\ class = "terminate"
    OBVIOUS
  <2>3. /\ c \in Client \cup {NULL} /\ class \in Class \cup {"terminate"}
        /\ Send(c, class)
    BY <2>1, <2>2
  <2>4. /\ requests' \in Seq(Message) /\ requestID' \in ID /\ DOMAIN pending' \subseteq ID
        /\ \A i \in DOMAIN pending' : pending'[i] \in Client \cup {NULL}
    BY <2>3, SendFacts
  <2> QED BY <2>1, <2>4 DEF Send, childVars, ToSet
<1>4. CASE KillChild \/ WaitReturns \/ ParentDies \/ ReplySignal \/ HandlerReturn
  BY <1>4 DEF KillChild, WaitReturns, ParentDies, ReplySignal, HandlerReturn,
              childVars, ToSet
<1>5. CASE Receive
  <2>1. replies' \in Seq(Message)
    BY <1>5, TailDrops DEF Receive
  <2>2. /\ DOMAIN pending' \subseteq ID
        /\ \A i \in DOMAIN pending' : pending'[i] \in Client \cup {NULL}
    BY <1>5 DEF Receive, WithoutID
  <2> QED BY <1>5, <2>1, <2>2 DEF Receive, childVars, ToSet
<1>6. CASE RequestSignal \/ Poll \/ PollTimeout \/ KillParent
  <2>1. CASE RequestSignal
    <3>1. pipe' \in Nat
      BY <2>1 DEF RequestSignal
    <3> QED BY <2>1, <3>1 DEF RequestSignal, parentVars, ToSet
  <2>2. CASE Poll
    <3>1. ready' \subseteq ToSet(pollFDs) /\ child' \in {"take", "reads"}
      BY <2>2 DEF Poll
    <3> QED BY <2>2, <3>1 DEF Poll, parentVars, ToSet
  <2>3. CASE PollTimeout
    <3>1. terminated' \in BOOLEAN /\ child' \in {"reads", "poll"}
      BY <2>3 DEF PollTimeout
    <3> QED BY <2>3, <3>1 DEF PollTimeout, parentVars, ToSet
  <2>4. CASE KillParent
    <3>1. parentSig' \in BOOLEAN
      BY <2>4 DEF KillParent
    <3> QED BY <2>4, <3>1 DEF KillParent, ToSet
  <2> QED BY <1>6, <2>1, <2>2, <2>3, <2>4
<1>7. ASSUME Take PROVE requests' \in Seq(Message) /\ Head(requests) \in Message /\ pipe' \in Nat
  BY <1>7, TakeFacts DEF Take, ByteTaken
<1>8. CASE TakeNow
  <2>1. Take
    BY <1>8 DEF TakeNow
  <2>2. replies' \in Seq(Message)
    BY <1>7, <1>8, <2>1, AppendFacts DEF TakeNow
  <2> QED BY <1>7, <1>8, <2>1, <2>2 DEF TakeNow, Take, parentVars, ToSet
<1>9. CASE TakeRead
  <2>1. Take /\ Head(requests).class \in FD
    BY <1>9 DEF TakeRead
  <2>2. reads' \in Seq(Message)
    BY <1>7, <1>9, <2>1, AppendFacts DEF TakeRead
  <2>3. pollFDs' \in Seq(FD) /\ ToSet(pollFDs) \subseteq ToSet(pollFDs')
    BY <1>9, <2>1, AppendFacts, AppendIDs DEF TakeRead
  <2> QED BY <1>7, <1>9, <2>1, <2>2, <2>3 DEF TakeRead, Take, parentVars
<1>10. CASE TakeTerminate
  <2>1. Take
    BY <1>10 DEF TakeTerminate
  <2> QED BY <1>7, <1>10, <2>1 DEF TakeTerminate, Take, parentVars, ToSet
<1>11. CASE AnswerRead
  <2>1. PICK n \in DOMAIN pollFDs, k \in DOMAIN reads :
           /\ replies' = Append(replies, reads[k])
           /\ reads' = RemoveAt(reads, k)
           /\ ready' = ready \ {pollFDs[n]}
    BY <1>11 DEF AnswerRead
  <2>2. k \in 1 .. Len(reads) /\ reads[k] \in Message
    BY SeqFacts
  <2>3. reads' \in Seq(Message) /\ replies' \in Seq(Message)
    BY <2>1, <2>2, RemoveDrops, AppendFacts
  <2> QED BY <1>11, <2>1, <2>3 DEF AnswerRead, parentVars, ToSet
<1>12. CASE Again
  <2>1. pollFDs' \in Seq(FD)
    BY <1>12, OnlyElems DEF Again
  <2> QED BY <1>12, <2>1 DEF Again, parentVars
<1>13. CASE Exit
  <2>1. << >> \in Seq(Message) /\ << >> \in Seq(FD)
    BY EmptySeq
  <2> QED BY <1>13, <2>1 DEF Exit, parentVars
<1>14. CASE Stopped
  BY <1>1, <1>14 DEF Stopped
<1> QED BY <1>1, <1>2, <1>3, <1>4, <1>5, <1>6, <1>8, <1>9, <1>10, <1>11, <1>12,
           <1>13, <1>14 DEF Next, Parent, Child

\* No step leaves a reply with nobody to fetch it.
LEMMA StepFetched ==
  ASSUME TypeOK, RepliesAreFetched, [Next]_vars
  PROVE  RepliesAreFetched'
<1> USE DEF RepliesAreFetched
<1>1. CASE UNCHANGED vars
  BY <1>1 DEF vars, parentVars, childVars
<1>2. CASE \/ \E c \in Client, class \in Class : MachineFile(c, class)
           \/ MachineTerminate
  BY <1>2 DEF MachineFile, MachineTerminate, Send, childVars
<1>3. CASE KillChild \/ WaitReturns \/ ParentDies \/ ReplySignal \/ HandlerReturn
  BY <1>3 DEF KillChild, WaitReturns, ParentDies, ReplySignal, HandlerReturn, childVars
<1>4. CASE Receive
  BY <1>4 DEF Receive, childVars
<1>5. CASE RequestSignal \/ Poll \/ PollTimeout \/ KillParent
  BY <1>5 DEF RequestSignal, Poll, PollTimeout, KillParent, parentVars
<1>6. CASE TakeNow \/ TakeRead \/ TakeTerminate
  BY <1>6 DEF TakeNow, TakeRead, TakeTerminate, Take, parentVars
<1>7. CASE AnswerRead \/ Again
  BY <1>7 DEF AnswerRead, Again, parentVars
<1>8. CASE Exit
  BY <1>8 DEF Exit
<1>9. CASE Stopped
  BY <1>1, <1>9 DEF Stopped
<1> QED BY <1>1, <1>2, <1>3, <1>4, <1>5, <1>6, <1>7, <1>8, <1>9
        DEF Next, Parent, Child

\* No step announces a message that is not there.
LEMMA StepAnnounced ==
  ASSUME TypeOK, Announced, ByteTaken, [Next]_vars
  PROVE  Announced' /\ ByteTaken'
<1> USE DEF Announced, ByteTaken, One
<1>0. /\ Len(requests) \in Nat /\ pipe \in Nat
      /\ requests = << >> <=> Len(requests) = 0
  BY QueueFacts DEF TypeOK
<1>1. CASE UNCHANGED vars
  BY <1>1 DEF vars, parentVars, childVars
<1>2. ASSUME NEW c \in Client \cup {NULL}, NEW class \in Class \cup {"terminate"},
             Send(c, class)
      PROVE  Announced' /\ ByteTaken'
  <2>1. Len(requests') = Len(requests) + 1
    BY <1>2, SendFacts
  <2> QED BY <1>0, <1>2, <2>1 DEF Send, childVars
<1>3. CASE KillChild \/ WaitReturns \/ ParentDies \/ ReplySignal \/ HandlerReturn
  BY <1>0, <1>3
  DEF KillChild, WaitReturns, ParentDies, ReplySignal, HandlerReturn, childVars
<1>4. CASE Receive
  BY <1>4 DEF Receive, childVars
<1>5. CASE RequestSignal \/ Poll \/ PollTimeout \/ KillParent
  <2>1. CASE RequestSignal
    BY <1>0, <2>1 DEF RequestSignal, parentVars
  <2>2. CASE Poll
    BY <1>0, <2>2 DEF Poll, parentVars
  <2>3. CASE PollTimeout
    <3>1. child' \in {"reads", "poll"} /\ child # "exited"
      BY <2>3 DEF PollTimeout
    <3> QED BY <1>0, <2>3, <3>1 DEF PollTimeout, parentVars
  <2>4. CASE KillParent
    BY <2>4 DEF KillParent
  <2> QED BY <1>5, <2>1, <2>2, <2>3, <2>4
<1>6. CASE TakeNow \/ TakeRead \/ TakeTerminate
  <2>1. Take
    BY <1>6 DEF TakeNow, TakeRead, TakeTerminate
  <2>2. Len(requests') = Len(requests) - 1
    BY <2>1, TakeFacts
  <2>3. child' \notin {"take", "exited"}
    BY <1>6 DEF TakeNow, TakeRead, TakeTerminate
  <2> QED BY <1>0, <2>1, <2>2, <2>3 DEF Take, parentVars
<1>7. CASE AnswerRead \/ Again
  BY <1>7 DEF AnswerRead, Again, parentVars
<1>8. CASE Exit
  BY <1>8 DEF Exit
<1>9. CASE Stopped
  BY <1>1, <1>9 DEF Stopped
<1> QED BY <1>1, <1>2, <1>3, <1>4, <1>5, <1>6, <1>7, <1>8, <1>9
        DEF Next, Parent, Child, MachineFile, MachineTerminate

\* Every step keeps what relates signals and bytes to messages.
LEMMA StepSInv == ASSUME SInv, [Next]_vars PROVE SInv'
  BY StepTypeOK, StepFetched, StepAnnounced DEF SInv

\* So it holds in every state.
LEMMA AlwaysSInv == Spec => []SInv
<1>1. Init => SInv
  BY InitSInv
<1>2. SInv /\ [Next]_vars => SInv'
  BY StepSInv
<1> QED BY <1>1, <1>2, PTL DEF Spec

\* The variables have their types in every reachable state, whatever the number
\* of clients and descriptors and the width of the identifiers.
THEOREM TypeCorrect == Spec => []TypeOK
<1>1. SInv => TypeOK
  BY DEF SInv
<1> QED BY <1>1, AlwaysSInv, PTL

\* Merging signals still match the messages they announce: MachineReplySignal-
\* Handler is never left with a reply and no signal, and the child never calls
\* msgrcv for a byte without a message (where it would fetch nothing).
THEOREM SignalsMatch == Spec => []SignalsMatchMessages
<1>1. SInv => SignalsMatchMessages
  <2>1. SUFFICES ASSUME SInv PROVE BytesAreRequests
    BY DEF SInv, SignalsMatchMessages
  <2>2. TypeOK
    BY <2>1 DEF SInv
  <2>3. Len(requests) \in Nat /\ pipe \in Nat
    BY <2>2, QueueFacts DEF TypeOK
  <2> QED BY <2>1, <2>3 DEF SInv, Announced, One, BytesAreRequests
<1> QED BY <1>1, AlwaysSInv, PTL
-----------------------------------------------------------------------------
(* Where requests are                                                      *)

\* Every message in a queue has an entry in MachinePendingCallbacks, that of
\* MachineTerminate without a client; reads wait for descriptors.
Registered ==
  /\ \A m \in ToSet(requests) :
       m.id \in DOMAIN pending /\ (m.class = "terminate" <=> pending[m.id] = NULL)
  /\ \A m \in ToSet(reads) :
       m.id \in DOMAIN pending /\ pending[m.id] # NULL /\ m.class \in FD
  /\ \A m \in ToSet(replies) :
       m.id \in DOMAIN pending /\ pending[m.id] # NULL /\ m.class \in Class

\* No two of the messages have one identifier.
Apart ==
  /\ Distinct(requests) /\ Distinct(reads) /\ Distinct(replies)
  /\ IDs(requests) \cap IDs(reads) = {} /\ IDs(requests) \cap IDs(replies) = {}
  /\ IDs(reads) \cap IDs(replies) = {}

\* Every client's request is in a queue.
Found ==
  child # "exited" =>
    \A i \in DOMAIN pending :
      pending[i] # NULL => i \in IDs(requests) \cup IDs(reads) \cup IDs(replies)

\* The descriptors of the pending reads are polled, each once, and poll() is
\* not called with any other.
Polls ==
  /\ \A m \in ToSet(reads) : m.class \in ToSet(pollFDs)
  /\ \A j, k \in DOMAIN pollFDs : pollFDs[j] = pollFDs[k] => j = k
  /\ child = "poll" => ToSet(pollFDs) \subseteq Polled

KInv == Registered /\ Apart /\ Found /\ Polls

\* A new request's identifier is not that of a pending one: fewer than 2^32
\* requests are made while a request is pending.
Fresh == requestID' # requestID => requestID' \notin DOMAIN pending

NoReuse == [][Fresh]_vars

\* The identifier of a message in a queue is one of the queue's.
LEMMA MemberID ==
  ASSUME NEW q, NEW m \in ToSet(q)
  PROVE  m.id \in IDs(q)
  BY DEF ToSet, IDs

\* A step that leaves the queues and the callbacks alone.
LEMMA QuietStep ==
  ASSUME Registered, Apart, Found, UNCHANGED <<requests, reads, replies, pending>>,
         child' # "exited" => child # "exited"
  PROVE  Registered' /\ Apart' /\ Found'
  BY DEF Registered, Apart, Found

\* The next identifier is another one.
LEMMA NextIDMoves == ASSUME requestID \in ID PROVE NextID # requestID
<1>1. Modulus \in Nat /\ Modulus > 1 /\ requestID \in Nat /\ requestID < Modulus
  BY MachineAssumption DEF ID
<1>2. CASE requestID + 1 < Modulus
  <2>1. NextID = requestID + 1
    BY <1>1, <1>2 DEF NextID
  <2> QED BY <1>1, <2>1
<1>3. CASE requestID + 1 = Modulus
  <2>1. NextID = 0
    BY <1>1, <1>3 DEF NextID
  <2> QED BY <1>1, <1>3, <2>1
<1> QED BY <1>1, <1>2, <1>3

\* A request is made: it is in the request channel, with its callback.
LEMMA SendStep ==
  ASSUME TypeOK, Registered, Apart, Found, Fresh,
         NEW c \in Client \cup {NULL}, NEW class \in Class \cup {"terminate"},
         class = "terminate" <=> c = NULL, Send(c, class)
  PROVE  Registered' /\ Apart' /\ Found'
<1> DEFINE m == [id |-> NextID, class |-> class]
<1>1. /\ m \in Message /\ NextID \notin DOMAIN pending
      /\ DOMAIN pending' = DOMAIN pending \cup {NextID}
      /\ \A i \in DOMAIN pending' :
           pending'[i] = IF i = NextID THEN c ELSE pending[i]
  <2>1. requestID' = NextID /\ NextID # requestID
    BY NextIDMoves DEF Send, TypeOK
  <2>2. NextID \notin DOMAIN pending
    BY <2>1 DEF Fresh
  <2>3. /\ requests' \in Seq(Message) /\ Len(requests') = Len(requests) + 1
        /\ requestID' \in ID /\ requestID' = NextID
        /\ m \in Message
        /\ DOMAIN pending' = DOMAIN pending \cup {NextID}
        /\ \A i \in DOMAIN pending' :
             pending'[i] = IF i = NextID THEN c ELSE pending[i]
    BY SendFacts
  <2> QED BY <2>2, <2>3
<1>2. /\ requests' = Append(requests, m) /\ requests \in Seq(Message)
      /\ reads' = reads /\ replies' = replies /\ child' = child
  BY DEF Send, childVars, TypeOK
<1>3. m.id = NextID /\ m.class = class
  OBVIOUS
<1> HIDE DEF m
<1>4. /\ IDs(requests') = IDs(requests) \cup {NextID}
      /\ ToSet(requests') = ToSet(requests) \cup {m}
      /\ Distinct(requests) /\ NextID \notin IDs(requests) => Distinct(requests')
  BY <1>1, <1>2, <1>3, AppendIDs
<1>5. \A q : IDs(q) = {e.id : e \in ToSet(q)}
  BY DEF IDs, ToSet
<1>6. /\ NextID \notin IDs(requests) /\ NextID \notin IDs(reads)
      /\ NextID \notin IDs(replies)
  BY <1>1, <1>5 DEF Registered
<1>7. Registered'
  <2>1. ASSUME NEW e \in ToSet(requests')
        PROVE  e.id \in DOMAIN pending' /\ (e.class = "terminate" <=> pending'[e.id] = NULL)
    BY <1>1, <1>3, <1>4 DEF Registered
  <2>2. ASSUME NEW e \in ToSet(reads)
        PROVE  e.id \in DOMAIN pending' /\ pending'[e.id] # NULL /\ e.class \in FD
    BY <1>1 DEF Registered
  <2>3. ASSUME NEW e \in ToSet(replies)
        PROVE  e.id \in DOMAIN pending' /\ pending'[e.id] # NULL /\ e.class \in Class
    BY <1>1 DEF Registered
  <2> QED BY <1>2, <2>1, <2>2, <2>3 DEF Registered
<1>8. Apart'
  BY <1>2, <1>4, <1>6 DEF Apart
<1>9. Found'
  BY <1>1, <1>2, <1>4 DEF Found
<1> QED BY <1>7, <1>8, <1>9

\* A reply is fetched and its callback erased.
LEMMA ReceiveStep ==
  ASSUME TypeOK, Registered, Apart, Found, Receive
  PROVE  Registered' /\ Apart' /\ Found'
<1> DEFINE m == Head(replies)
<1>1. /\ replies \in Seq(Message) /\ replies # << >> /\ replies' = Tail(replies)
      /\ requests' = requests /\ reads' = reads /\ child' = child
      /\ pending' = WithoutID(pending, m.id)
  BY DEF Receive, childVars, TypeOK
<1>2. m = replies[1] /\ replies' \in Seq(Message) /\ Dropped(replies, 1, replies')
  BY <1>1, TailDrops
<1> HIDE DEF m
<1>3. /\ ToSet(replies') \subseteq ToSet(replies)
      /\ ToSet(replies) \subseteq ToSet(replies') \cup {m}
      /\ m.id \in IDs(replies) /\ m \in ToSet(replies)
      /\ IDs(replies') \subseteq IDs(replies)
      /\ IDs(replies) \subseteq IDs(replies') \cup {m.id}
      /\ Distinct(replies') /\ m.id \notin IDs(replies')
  <2>1. PICK k : k = 1
    OBVIOUS
  <2>2. Dropped(replies, k, replies') /\ m = replies[k]
    BY <1>2, <2>1
  <2>3. replies \in Seq(Message) /\ Distinct(replies) /\ replies' \in Seq(Message)
    BY <1>1, <1>2 DEF Apart
  <2> QED BY <2>2, <2>3, DropIDs
<1>4. m.id \notin IDs(requests) /\ m.id \notin IDs(reads)
  BY <1>3 DEF Apart
<1>5. /\ DOMAIN pending' = DOMAIN pending \ {m.id}
      /\ \A i \in DOMAIN pending' : pending'[i] = pending[i]
  BY <1>1 DEF WithoutID
<1>6. Registered'
  <2>1. ASSUME NEW e \in ToSet(requests)
        PROVE  e.id \in DOMAIN pending' /\ (e.class = "terminate" <=> pending'[e.id] = NULL)
    BY <1>4, <1>5, MemberID DEF Registered
  <2>2. ASSUME NEW e \in ToSet(reads)
        PROVE  e.id \in DOMAIN pending' /\ pending'[e.id] # NULL /\ e.class \in FD
    BY <1>4, <1>5, MemberID DEF Registered
  <2>3. ASSUME NEW e \in ToSet(replies')
        PROVE  e.id \in DOMAIN pending' /\ pending'[e.id] # NULL /\ e.class \in Class
    <3>1. e \in ToSet(replies) /\ e.id # m.id
      BY <1>3, MemberID
    <3> QED BY <3>1, <1>5 DEF Registered
  <2> QED BY <1>1, <2>1, <2>2, <2>3 DEF Registered
<1>7. Apart'
  BY <1>1, <1>3 DEF Apart
<1>8. Found'
  BY <1>1, <1>3, <1>5 DEF Found
<1> QED BY <1>6, <1>7, <1>8

\* The first request leaves its channel.
LEMMA TakeIDs ==
  ASSUME TypeOK, Registered, Apart, Take
  PROVE  LET m == Head(requests) IN
         /\ m \in Message /\ m \in ToSet(requests) /\ m.id \in IDs(requests)
         /\ ToSet(requests') \subseteq ToSet(requests)
         /\ IDs(requests') \subseteq IDs(requests)
         /\ IDs(requests) \subseteq IDs(requests') \cup {m.id}
         /\ Distinct(requests') /\ m.id \notin IDs(requests')
         /\ m.id \notin IDs(reads) /\ m.id \notin IDs(replies)
         /\ m.id \in DOMAIN pending
         /\ m.class = "terminate" <=> pending[m.id] = NULL
<1> DEFINE m == Head(requests)
<1>1. /\ requests' \in Seq(Message) /\ Dropped(requests, 1, requests')
      /\ m = requests[1] /\ m \in Message
  BY TakeFacts
<1> HIDE DEF m
<1>2. requests \in Seq(Message) /\ Distinct(requests)
  BY DEF TypeOK, Apart
<1>3. /\ ToSet(requests') \subseteq ToSet(requests)
      /\ m.id \in IDs(requests) /\ m \in ToSet(requests)
      /\ IDs(requests') \subseteq IDs(requests)
      /\ IDs(requests) \subseteq IDs(requests') \cup {m.id}
      /\ Distinct(requests') /\ m.id \notin IDs(requests')
  <2>1. PICK k : k = 1
    OBVIOUS
  <2>2. Dropped(requests, k, requests') /\ m = requests[k]
    BY <1>1, <2>1
  <2> QED BY <1>1, <1>2, <2>2, DropIDs
<1>4. m.id \notin IDs(reads) /\ m.id \notin IDs(replies)
  BY <1>3 DEF Apart
<1>5. /\ m.id \in DOMAIN pending
      /\ m.class = "terminate" <=> pending[m.id] = NULL
  BY <1>3 DEF Registered
<1> QED BY <1>1, <1>3, <1>4, <1>5 DEF m

\* The child executes a request, keeps a read, or stops.
LEMMA TakeStep ==
  ASSUME TypeOK, Registered, Apart, Found, TakeNow \/ TakeRead \/ TakeTerminate
  PROVE  Registered' /\ Apart' /\ Found'
<1> DEFINE m == Head(requests)
<1>1. Take /\ pending' = pending
  BY DEF TakeNow, TakeRead, TakeTerminate, Take, parentVars
<1>2. child = "take"
  BY <1>1 DEF Take
<1>3. /\ m \in Message /\ m \in ToSet(requests) /\ m.id \in IDs(requests)
      /\ ToSet(requests') \subseteq ToSet(requests)
      /\ IDs(requests') \subseteq IDs(requests)
      /\ IDs(requests) \subseteq IDs(requests') \cup {m.id}
      /\ Distinct(requests') /\ m.id \notin IDs(requests')
      /\ m.id \notin IDs(reads) /\ m.id \notin IDs(replies)
      /\ m.id \in DOMAIN pending
      /\ m.class = "terminate" <=> pending[m.id] = NULL
  BY <1>1, TakeIDs
<1>4. CASE TakeNow
  <2>1. m.class = "now" /\ replies' = Append(replies, m) /\ reads' = reads
    BY <1>4 DEF TakeNow
  <2>2. replies \in Seq(Message)
    BY DEF TypeOK
  <2> HIDE DEF m
  <2>3. /\ IDs(replies') = IDs(replies) \cup {m.id}
        /\ ToSet(replies') = ToSet(replies) \cup {m}
        /\ Distinct(replies) /\ m.id \notin IDs(replies) => Distinct(replies')
    BY <1>3, <2>1, <2>2, AppendIDs
  <2>4. pending[m.id] # NULL /\ m.class \in Class
    BY <1>3, <2>1 DEF Class
  <2>5. Registered'
    BY <1>1, <1>3, <2>1, <2>3, <2>4 DEF Registered
  <2>6. Apart'
    BY <1>3, <2>1, <2>3 DEF Apart
  <2>7. Found'
    BY <1>1, <1>2, <1>3, <2>1, <2>3 DEF Found
  <2> QED BY <2>5, <2>6, <2>7
<1>5. CASE TakeRead
  <2>1. m.class \in FD /\ reads' = Append(reads, m) /\ replies' = replies
    BY <1>5 DEF TakeRead
  <2>2. reads \in Seq(Message)
    BY DEF TypeOK
  <2> HIDE DEF m
  <2>3. /\ IDs(reads') = IDs(reads) \cup {m.id}
        /\ ToSet(reads') = ToSet(reads) \cup {m}
        /\ Distinct(reads) /\ m.id \notin IDs(reads) => Distinct(reads')
    BY <1>3, <2>1, <2>2, AppendIDs
  <2>4. pending[m.id] # NULL
    BY <1>3, <2>1, MachineAssumption
  <2>5. Registered'
    BY <1>1, <1>3, <2>1, <2>3, <2>4 DEF Registered
  <2>6. Apart'
    BY <1>3, <2>1, <2>3 DEF Apart
  <2>7. Found'
    BY <1>1, <1>2, <1>3, <2>1, <2>3 DEF Found
  <2> QED BY <2>5, <2>6, <2>7
<1>6. CASE TakeTerminate
  <2>1. m.class = "terminate" /\ reads' = reads /\ replies' = replies
    BY <1>6 DEF TakeTerminate
  <2> HIDE DEF m
  <2>2. pending[m.id] = NULL
    BY <1>3, <2>1
  <2>3. Registered'
    BY <1>1, <1>3, <2>1 DEF Registered
  <2>4. Apart'
    BY <1>3, <2>1 DEF Apart
  <2>5. Found'
    BY <1>1, <1>2, <1>3, <2>1, <2>2 DEF Found
  <2> QED BY <2>3, <2>4, <2>5
<1> QED BY <1>4, <1>5, <1>6

\* A pending read is answered.
LEMMA AnswerStep ==
  ASSUME TypeOK, Registered, Apart, Found, AnswerRead
  PROVE  Registered' /\ Apart' /\ Found'
<1>1. PICK k \in DOMAIN reads :
         replies' = Append(replies, reads[k]) /\ reads' = RemoveAt(reads, k)
  BY DEF AnswerRead
<1>2. PICK m : m = reads[k]
  OBVIOUS
<1>3. /\ requests' = requests /\ pending' = pending /\ child = "reads"
      /\ reads \in Seq(Message) /\ replies \in Seq(Message)
  BY DEF AnswerRead, parentVars, TypeOK
<1>4. k \in 1 .. Len(reads) /\ m \in Message
  BY <1>2, <1>3, SeqFacts
<1>5. reads' \in Seq(Message) /\ Dropped(reads, k, reads')
  BY <1>1, <1>3, <1>4, RemoveDrops
<1>6. /\ ToSet(reads') \subseteq ToSet(reads)
      /\ m.id \in IDs(reads) /\ m \in ToSet(reads)
      /\ IDs(reads') \subseteq IDs(reads)
      /\ IDs(reads) \subseteq IDs(reads') \cup {m.id}
      /\ Distinct(reads) => Distinct(reads') /\ m.id \notin IDs(reads')
  BY <1>2, <1>3, <1>5, DropIDs
<1>7. m.id \notin IDs(requests) /\ m.id \notin IDs(replies)
  BY <1>6 DEF Apart
<1>8. /\ IDs(replies') = IDs(replies) \cup {m.id}
      /\ ToSet(replies') = ToSet(replies) \cup {m}
      /\ Distinct(replies) /\ m.id \notin IDs(replies) => Distinct(replies')
  BY <1>1, <1>2, <1>3, <1>4, AppendIDs
<1>9. Registered'
  <2>1. m.id \in DOMAIN pending /\ pending[m.id] # NULL /\ m.class \in Class
    BY <1>6 DEF Registered, Class
  <2> QED BY <1>3, <1>6, <1>8, <2>1 DEF Registered
<1>10. Apart'
  BY <1>3, <1>6, <1>7, <1>8 DEF Apart
<1>11. Found'
  BY <1>3, <1>6, <1>8 DEF Found
<1> QED BY <1>9, <1>10, <1>11

\* Every step keeps a request in exactly one place, if its identifier is fresh.
LEMMA StepQueues ==
  ASSUME TypeOK, Registered, Apart, Found, Fresh, [Next]_vars
  PROVE  Registered' /\ Apart' /\ Found'
<1>1. CASE UNCHANGED vars
  BY <1>1, QuietStep DEF vars, parentVars, childVars
<1>2. ASSUME NEW c \in Client, NEW class \in Class, MachineFile(c, class)
      PROVE  Registered' /\ Apart' /\ Found'
  <2>1. /\ c \in Client \cup {NULL} /\ class \in Class \cup {"terminate"}
        /\ class # "terminate" /\ c # NULL /\ Send(c, class)
    BY <1>2, MachineAssumption DEF MachineFile, Class
  <2> QED BY <2>1, SendStep
<1>3. CASE MachineTerminate
  <2>1. PICK c, class : c = NULL /\ class = "terminate"
    OBVIOUS
  <2>2. /\ c \in Client \cup {NULL} /\ class \in Class \cup {"terminate"}
        /\ class = "terminate" <=> c = NULL
        /\ Send(c, class)
    BY <1>3, <2>1 DEF MachineTerminate
  <2> QED BY <2>2, SendStep
<1>4. CASE KillChild \/ WaitReturns \/ ParentDies \/ ReplySignal \/ HandlerReturn
  BY <1>4, QuietStep
  DEF KillChild, WaitReturns, ParentDies, ReplySignal, HandlerReturn, childVars
<1>5. CASE Receive
  BY <1>5, ReceiveStep
<1>6. CASE RequestSignal \/ Poll \/ PollTimeout \/ KillParent \/ Again
  BY <1>6, QuietStep
  DEF RequestSignal, Poll, PollTimeout, KillParent, Again, parentVars
<1>7. CASE TakeNow \/ TakeRead \/ TakeTerminate
  BY <1>7, TakeStep
<1>8. CASE AnswerRead
  BY <1>8, AnswerStep
<1>9. CASE Exit
  <2>1. DOMAIN << >> = {}
    BY EmptySeq
  <2>2. ToSet(<< >>) = {} /\ IDs(<< >>) = {} /\ Distinct(<< >>)
    BY <2>1 DEF ToSet, IDs, Distinct
  <2>3. /\ requests' = << >> /\ replies' = << >> /\ reads' = << >>
        /\ child' = "exited"
    BY <1>9 DEF Exit
  <2> QED BY <2>2, <2>3 DEF Registered, Apart, Found
<1>10. CASE Stopped
  BY <1>1, <1>10 DEF Stopped
<1> QED BY <1>1, <1>2, <1>3, <1>4, <1>5, <1>6, <1>7, <1>8, <1>9, <1>10
        DEF Next, Parent, Child

\* The child polls the descriptors its reads wait for, each once.
LEMMA StepPolls ==
  ASSUME TypeOK, Registered, Polls, [Next]_vars
  PROVE  Polls'
<1>0. /\ pollFDs \in Seq(FD) /\ reads \in Seq(Message) /\ requests \in Seq(Message)
      /\ DOMAIN pollFDs = 1 .. Len(pollFDs) /\ Len(pollFDs) \in Nat
  BY SeqFacts DEF TypeOK
<1>1. ASSUME UNCHANGED <<reads, pollFDs>>, child' = "poll" => child = "poll"
      PROVE  Polls'
  BY <1>1 DEF Polls, Polled
<1>2. CASE UNCHANGED vars
  BY <1>1, <1>2 DEF vars, childVars
<1>3. CASE Parent
  <2>1. UNCHANGED childVars
    BY <1>3 DEF Parent, MachineFile, MachineTerminate, Send, KillChild, WaitReturns,
                ParentDies, ReplySignal, Receive, HandlerReturn
  <2> QED BY <1>1, <2>1 DEF childVars
<1>4. CASE RequestSignal \/ Poll \/ PollTimeout \/ KillParent \/ TakeNow
           \/ TakeTerminate
  BY <1>1, <1>4
  DEF RequestSignal, Poll, PollTimeout, KillParent, TakeNow, TakeTerminate
<1>5. CASE TakeRead
  <2>1. PICK m : m = Head(requests)
    OBVIOUS
  <2>2. /\ Take /\ m.class \in FD /\ reads' = Append(reads, m) /\ child' = "reads"
        /\ pollFDs' = IF m.class \in ToSet(pollFDs) THEN pollFDs
                      ELSE Append(pollFDs, m.class)
    BY <1>5, <2>1 DEF TakeRead
  <2>3. m \in Message
    BY <2>1, <2>2, TakeFacts
  <2>4. ToSet(reads') = ToSet(reads) \cup {m}
    BY <1>0, <2>2, <2>3, AppendIDs
  <2>5. CASE m.class \in ToSet(pollFDs)
    BY <2>2, <2>4, <2>5 DEF Polls
  <2>6. CASE m.class \notin ToSet(pollFDs)
    <3>1. pollFDs' = Append(pollFDs, m.class)
      BY <2>2, <2>6
    <3>2. ToSet(pollFDs') = ToSet(pollFDs) \cup {m.class}
      BY <1>0, <2>2, <3>1, AppendIDs
    <3>3. /\ pollFDs' \in Seq(FD) /\ Len(pollFDs') = Len(pollFDs) + 1
          /\ \A k \in 1 .. Len(pollFDs) + 1 :
               pollFDs'[k] = IF k = Len(pollFDs) + 1 THEN m.class ELSE pollFDs[k]
      BY <1>0, <2>2, <3>1, AppendFacts
    <3>4. PICK n \in Nat : n = Len(pollFDs)
      BY <1>0
    <3>5. DOMAIN pollFDs' = 1 .. n + 1
      BY <3>3, <3>4, SeqFacts
    <3>6. 1 .. n + 1 = (1 .. n) \cup {n + 1} /\ n + 1 \notin 1 .. n
      BY <3>4
    <3>7. \A k \in 1 .. n : pollFDs[k] # m.class
      BY <1>0, <2>6, <3>4 DEF ToSet
    <3>8. \A j, k \in DOMAIN pollFDs' : pollFDs'[j] = pollFDs'[k] => j = k
      BY <1>0, <3>3, <3>4, <3>5, <3>6, <3>7 DEF Polls
    <3> QED BY <2>2, <2>4, <3>2, <3>8 DEF Polls
  <2> QED BY <2>5, <2>6
<1>6. CASE AnswerRead
  <2>1. PICK k \in DOMAIN reads : reads' = RemoveAt(reads, k)
    BY <1>6 DEF AnswerRead
  <2>2. k \in 1 .. Len(reads)
    BY <1>0, SeqFacts
  <2>3. reads' \in Seq(Message) /\ Dropped(reads, k, reads')
    BY <1>0, <2>1, <2>2, RemoveDrops
  <2>4. ToSet(reads') \subseteq ToSet(reads)
    BY <1>0, <2>3, DropIDs
  <2>5. pollFDs' = pollFDs /\ child' = "kill"
    BY <1>6 DEF AnswerRead
  <2> QED BY <2>4, <2>5 DEF Polls
<1>7. CASE Again
  <2>1. pollFDs' = Only(pollFDs, Polled) /\ reads' = reads /\ Polled' = Polled
    BY <1>7 DEF Again, Polled
  <2>2. ToSet(pollFDs') = ToSet(pollFDs) \cap Polled
    BY <1>0, <2>1, OnlyElems
  <2>3. Places(pollFDs', pollFDs, Len(pollFDs))
    BY <1>0, <2>1, OnlyPlaces
  <2>4. \A j, k \in DOMAIN pollFDs' : pollFDs'[j] = pollFDs'[k] => j = k
    BY <1>0, <2>3 DEF Places, Polls
  <2>5. \A m \in ToSet(reads) : m.class \in Polled
    BY DEF ToSet, Polled
  <2>6. \A m \in ToSet(reads) : m.class \in ToSet(pollFDs')
    BY <2>2, <2>5 DEF Polls
  <2> QED BY <2>1, <2>2, <2>4, <2>6 DEF Polls
<1>8. CASE Exit
  <2>1. DOMAIN << >> = {}
    BY EmptySeq
  <2>2. ToSet(<< >>) = {}
    BY <2>1 DEF ToSet
  <2>3. reads' = << >> /\ pollFDs' = << >> /\ child' = "exited"
    BY <1>8 DEF Exit
  <2> QED BY <2>1, <2>2, <2>3 DEF Polls
<1>9. CASE Stopped
  BY <1>2, <1>9 DEF Stopped
<1> QED BY <1>2, <1>3, <1>4, <1>5, <1>6, <1>7, <1>8, <1>9 DEF Next, Child

\* At the start there are no requests.
LEMMA InitKInv == ASSUME Init PROVE KInv
<1>1. DOMAIN << >> = {}
  BY EmptySeq
<1>2. ToSet(<< >>) = {} /\ IDs(<< >>) = {} /\ Distinct(<< >>)
  BY <1>1 DEF ToSet, IDs, Distinct
<1> QED BY <1>1, <1>2 DEF Init, KInv, Registered, Apart, Found, Polls

\* Every step keeps the invariant of the requests.
LEMMA StepKInv == ASSUME SInv, KInv, Fresh, [Next]_vars PROVE KInv'
<1>1. TypeOK /\ Registered /\ Apart /\ Found /\ Polls
  BY DEF SInv, KInv
<1>2. Registered' /\ Apart' /\ Found'
  BY <1>1, StepQueues
<1>3. Polls'
  BY <1>1, StepPolls
<1> QED BY <1>2, <1>3 DEF KInv

\* So it holds in every state, while no identifier comes back too early.
LEMMA AlwaysKInv == Spec /\ NoReuse => []KInv
<1>1. Init => KInv
  BY InitKInv
<1>2. SInv /\ KInv /\ [Fresh]_vars /\ [Next]_vars => KInv'
  <2>1. SUFFICES ASSUME SInv, KInv, [Fresh]_vars, [Next]_vars PROVE KInv'
    OBVIOUS
  <2>2. CASE Fresh
    BY <2>1, <2>2, StepKInv
  <2>3. CASE UNCHANGED vars
    <3>1. Fresh
      BY <2>3 DEF Fresh, vars, parentVars
    <3> QED BY <2>1, <3>1, StepKInv
  <2> QED BY <2>1, <2>2, <2>3
<1> QED BY <1>1, <1>2, AlwaysSInv, PTL DEF Spec, NoReuse

\* The identifiers of two queues one after the other.
LEMMA CatIDs ==
  ASSUME NEW T, NEW u \in Seq(T), NEW v \in Seq(T)
  PROVE  /\ u \o v \in Seq(T) /\ IDs(u \o v) = IDs(u) \cup IDs(v)
         /\ Distinct(u) /\ Distinct(v) /\ IDs(u) \cap IDs(v) = {}
              => Distinct(u \o v)
<1> DEFINE w == u \o v
           m == Len(u)
           n == Len(v)
<1>1. /\ w \in Seq(T) /\ Len(w) = m + n
      /\ \A k \in 1 .. m + n : w[k] = IF k <= m THEN u[k] ELSE v[k - m]
  BY ConcatProperties
<1>2. /\ m \in Nat /\ n \in Nat /\ DOMAIN u = 1 .. m /\ DOMAIN v = 1 .. n
  BY SeqFacts
<1>3. DOMAIN w = 1 .. m + n
  BY <1>1, SeqFacts
<1> HIDE DEF w, m, n
<1>4. \A k \in 1 .. m : k \in 1 .. m + n /\ w[k] = u[k]
  BY <1>1, <1>2
<1>5. \A k \in 1 .. n : m + k \in 1 .. m + n /\ w[m + k] = v[k]
  BY <1>1, <1>2
<1>6. \A k \in 1 .. m + n :
        \/ k \in 1 .. m /\ w[k] = u[k]
        \/ k - m \in 1 .. n /\ w[k] = v[k - m]
  BY <1>1, <1>2
<1>7. IDs(w) = IDs(u) \cup IDs(v)
  <2>1. IDs(w) \subseteq IDs(u) \cup IDs(v)
    BY <1>2, <1>3, <1>6 DEF IDs
  <2>2. IDs(u) \subseteq IDs(w)
    BY <1>2, <1>3, <1>4 DEF IDs
  <2>3. IDs(v) \subseteq IDs(w)
    BY <1>2, <1>3, <1>5 DEF IDs
  <2> QED BY <2>1, <2>2, <2>3
<1>8. ASSUME Distinct(u), Distinct(v), IDs(u) \cap IDs(v) = {}
      PROVE  Distinct(w)
  <2>1. ASSUME NEW j \in 1 .. m + n, NEW k \in 1 .. m + n, w[j].id = w[k].id
        PROVE  j = k
    <3>1. CASE j \in 1 .. m /\ k \in 1 .. m
      BY <2>1, <3>1, <1>2, <1>4, <1>8 DEF Distinct
    <3>2. CASE j \in 1 .. m /\ ~ k \in 1 .. m
      <4>1. w[j].id \in IDs(u) /\ w[k].id \in IDs(v)
        BY <3>2, <1>2, <1>4, <1>6 DEF IDs
      <4> QED BY <2>1, <4>1, <1>8
    <3>3. CASE ~ j \in 1 .. m /\ k \in 1 .. m
      <4>1. w[k].id \in IDs(u) /\ w[j].id \in IDs(v)
        BY <3>3, <1>2, <1>4, <1>6 DEF IDs
      <4> QED BY <2>1, <4>1, <1>8
    <3>4. CASE ~ j \in 1 .. m /\ ~ k \in 1 .. m
      <4>1. /\ j - m \in 1 .. n /\ k - m \in 1 .. n
            /\ w[j] = v[j - m] /\ w[k] = v[k - m]
        BY <3>4, <1>6
      <4>2. j - m = k - m
        BY <2>1, <4>1, <1>2, <1>8 DEF Distinct
      <4> QED BY <4>2, <1>2
    <3> QED BY <3>1, <3>2, <3>3, <3>4
  <2> QED BY <2>1, <1>3 DEF Distinct
<1> QED BY <1>1, <1>7, <1>8 DEF w

\* The queues hold the requests that have a client, each once.
LEMMA OnceInQueues ==
  ASSUME TypeOK, Registered, Apart, Found
  PROVE  EachRequestOnce
<1> DEFINE u == Only(requests, FileMessage)
<1>1. requests \in Seq(Message) /\ reads \in Seq(Message) /\ replies \in Seq(Message)
  BY DEF TypeOK
<1>2. u \in Seq(Message) /\ ToSet(u) = ToSet(requests) \cap FileMessage
  BY <1>1, OnlyElems
<1>3. Distinct(u)
  <2>1. Places(u, requests, Len(requests)) /\ DOMAIN requests = 1 .. Len(requests)
    BY <1>1, OnlyPlaces, SeqFacts
  <2> HIDE DEF u
  <2> QED BY <2>1 DEF Places, Apart, Distinct
<1> HIDE DEF u
<1>4. \A q : IDs(q) = {m.id : m \in ToSet(q)}
  BY DEF IDs, ToSet
<1>5. ToSet(requests) \subseteq Message
  BY <1>1, SeqFacts DEF ToSet
<1>6. \A m \in ToSet(requests) : m \in FileMessage <=> pending[m.id] # NULL
  <2>1. SUFFICES ASSUME NEW m \in ToSet(requests)
                 PROVE  m \in FileMessage <=> pending[m.id] # NULL
    OBVIOUS
  <2>2. m \in Message
    BY <1>5
  <2>3. m \in FileMessage <=> m.class # "terminate"
    BY <2>2, MachineAssumption DEF Message, FileMessage, Class
  <2> QED BY <2>3 DEF Registered
<1>7. IDs(u) \subseteq IDs(requests)
  BY <1>2, <1>4
<1>8. \A i \in IDs(u) : i \in DOMAIN pending /\ pending[i] # NULL
  <2>1. SUFFICES ASSUME NEW m \in ToSet(u)
                 PROVE  m.id \in DOMAIN pending /\ pending[m.id] # NULL
    BY <1>4
  <2> QED BY <1>2, <1>6 DEF Registered
<1>9. \A i \in IDs(reads) \cup IDs(replies) : i \in DOMAIN pending /\ pending[i] # NULL
  BY <1>4 DEF Registered
<1>10. \A i \in IDs(requests) : pending[i] # NULL => i \in IDs(u)
  BY <1>2, <1>4, <1>6
<1>11. PICK v : v = u \o reads
  OBVIOUS
<1>12. v \in Seq(Message) /\ IDs(v) = IDs(u) \cup IDs(reads) /\ Distinct(v)
  <2>1. Distinct(reads) /\ IDs(u) \cap IDs(reads) = {}
    BY <1>7 DEF Apart
  <2> QED BY <1>1, <1>2, <1>3, <1>11, <2>1, CatIDs
<1>13. PICK w : w = v \o replies
  OBVIOUS
<1>14. IDs(w) = IDs(v) \cup IDs(replies) /\ Distinct(w)
  <2>1. Distinct(replies) /\ IDs(v) \cap IDs(replies) = {}
    BY <1>7, <1>12 DEF Apart
  <2> QED BY <1>1, <1>12, <1>13, <2>1, CatIDs
<1>15. Travelling = w
  BY <1>11, <1>13 DEF Travelling, u
<1>16. IDs(w) = {i \in DOMAIN pending : pending[i] # NULL} \/ child = "exited"
  BY <1>8, <1>9, <1>10, <1>12, <1>14 DEF Found
<1> QED BY <1>14, <1>15, <1>16 DEF EachRequestOnce, Distinct, IDs

\* In poll() the descriptors are those of the reads, as many as there are.
LEMMA PolledOnce ==
  ASSUME TypeOK, Polls
  PROVE  PollsForReads
<1>1. SUFFICES ASSUME child = "poll"
               PROVE  /\ ToSet(pollFDs) = Polled
                      /\ Cardinality(ToSet(pollFDs)) = Len(pollFDs)
  BY DEF PollsForReads
<1>2. ToSet(pollFDs) = Polled
  <2>1. Polled \subseteq ToSet(pollFDs)
    BY DEF Polls, Polled, ToSet
  <2> QED BY <1>1, <2>1 DEF Polls
<1>3. pollFDs \in Seq(FD) /\ Len(pollFDs) \in Nat /\ DOMAIN pollFDs = 1 .. Len(pollFDs)
  BY SeqFacts DEF TypeOK
<1>4. pollFDs \in [1 .. Len(pollFDs) -> ToSet(pollFDs)]
  BY <1>3 DEF ToSet
<1>5. pollFDs \in Bijection(1 .. Len(pollFDs), ToSet(pollFDs))
  <2>1. IsInjective(pollFDs)
    BY DEF Polls, IsInjective
  <2>2. \A t \in ToSet(pollFDs) : \E k \in 1 .. Len(pollFDs) : pollFDs[k] = t
    BY <1>3 DEF ToSet
  <2> QED BY <1>4, <2>1, <2>2 DEF Bijection, Injection, Surjection
<1>6. ExistsBijection(1 .. Len(pollFDs), ToSet(pollFDs))
  BY <1>5 DEF ExistsBijection
<1>7. Cardinality(ToSet(pollFDs)) = Len(pollFDs)
  BY <1>3, <1>6, FS_CountingElements
<1> QED BY <1>2, <1>7

\* No request is lost and none is answered twice, over every interleaving of the
\* two processes and for every number of clients and descriptors: as long as
\* DRequestID does not come back to an identifier that is pending, each request
\* with a callback is in exactly one of the request channel, PendingReads and the
\* reply channel, and the child polls exactly the descriptors of PendingReads.
THEOREM NoRequestLost == Spec /\ NoReuse => []RequestsKept
<1>1. SInv /\ KInv => RequestsKept
  BY OnceInQueues, PolledOnce DEF SInv, KInv, RequestsKept
<1> QED BY <1>1, AlwaysSInv, AlwaysKInv, PTL

-----------------------------------------------------------------------------
(* The machine implements the channel                                      *)

\* The request of a message, by the callbacks that are pending.
Told(p, m) ==
  [client |-> IF m.id \in DOMAIN p THEN p[m.id] ELSE NULL, class |-> m.class]
ToldOf(p, T) == {Told(p, m) : m \in T}

\* Callbacks that come and go do not matter to a queue without their identifiers.
LEMMA ToldAgree ==
  ASSUME NEW p, NEW r, NEW q,
         \A i \in IDs(q) : i \in DOMAIN p /\ i \in DOMAIN r /\ p[i] = r[i]
  PROVE  Described(p, q) = Described(r, q)
<1>1. ASSUME NEW k \in DOMAIN q PROVE Told(p, q[k]) = Told(r, q[k])
  <2>1. q[k].id \in IDs(q)
    BY DEF IDs
  <2> QED BY <2>1 DEF Told
<1> QED BY <1>1 DEF Described, Told

\* A queue of messages, as IOChannel sees it: message by message.
LEMMA ToldSeq ==
  ASSUME NEW T, NEW q \in Seq(T), NEW p
  PROVE  /\ Described(p, q) \in Seq(ToldOf(p, T))
         /\ Len(Described(p, q)) = Len(q)
         /\ \A k \in 1 .. Len(q) : Described(p, q)[k] = Told(p, q[k])
<1> DEFINE V == ToldOf(p, T)
<1>1. Len(q) \in Nat /\ DOMAIN q = 1 .. Len(q) /\ \A k \in 1 .. Len(q) : q[k] \in T
  BY SeqFacts
<1>2. Described(p, q) \in [1 .. Len(q) -> V]
  BY <1>1 DEF Described, Told, ToldOf
<1>3. Described(p, q) \in Seq(V) /\ Len(Described(p, q)) = Len(q)
  <2> HIDE DEF V
  <2>1. Described(p, q) \in Seq(V)
    BY <1>1, <1>2, SeqDef
  <2>2. DOMAIN Described(p, q) = 1 .. Len(q)
    BY <1>2
  <2> QED BY <1>1, <2>1, <2>2, LenProperties
<1> QED BY <1>1, <1>3 DEF Described, Told

\* A message put in the queue is put in what IOChannel sees of it.
LEMMA ToldAppend ==
  ASSUME NEW T, NEW q \in Seq(T), NEW m \in T, NEW p
  PROVE  Described(p, Put(q, m)) = Put(Described(p, q), Told(p, m))
<1> DEFINE n == Len(q)
           V == ToldOf(p, T)
           u == Append(q, m)
           t == Described(p, q)
           x == Described(p, u)
           v == Told(p, m)
           y == Append(t, v)
<1>1. n \in Nat
  BY SeqFacts
<1>2. /\ u \in Seq(T) /\ Len(u) = n + 1
      /\ \A k \in 1 .. n + 1 : u[k] = IF k = n + 1 THEN m ELSE q[k]
  BY AppendFacts
<1>3. /\ t \in Seq(V) /\ Len(t) = n /\ \A k \in 1 .. n : t[k] = Told(p, q[k])
  BY ToldSeq
<1>4. v \in V
  BY DEF ToldOf
<1> HIDE DEF n, V, t, v
<1>5. /\ y \in Seq(V) /\ Len(y) = n + 1
      /\ \A k \in 1 .. n + 1 : y[k] = IF k = n + 1 THEN v ELSE t[k]
  BY <1>3, <1>4, AppendFacts
<1> HIDE DEF u, y
<1>6. /\ x \in Seq(V) /\ Len(x) = n + 1
      /\ \A k \in 1 .. n + 1 : x[k] = Told(p, u[k])
  BY <1>2, ToldSeq DEF V
<1> HIDE DEF x
<1>7. \A k \in 1 .. n + 1 : x[k] = y[k]
  <2>1. \A k \in 1 .. n + 1 : k # n + 1 => k \in 1 .. n
    BY <1>1
  <2> QED BY <2>1, <1>2, <1>3, <1>5, <1>6, SMTT(30) DEF v
<1>8. x = y
  BY <1>1, <1>5, <1>6, <1>7, SeqEqual
<1> QED BY <1>8 DEF x, y, u, t, v, Put

\* The first message of a queue, and the rest of it.
LEMMA ToldTail ==
  ASSUME NEW T, NEW q \in Seq(T), q # << >>, NEW p
  PROVE  /\ Described(p, q) # << >>
         /\ Head(Described(p, q)) = Told(p, Head(q))
         /\ Described(p, Tail(q)) = Tail(Described(p, q))
<1> DEFINE n == Len(q)
           V == ToldOf(p, T)
           u == Tail(q)
           t == Described(p, q)
           x == Described(p, u)
           y == Tail(t)
<1>1. n \in Nat /\ n # 0
  BY SeqFacts
<1>2. /\ u \in Seq(T) /\ Len(u) = n - 1 /\ Head(q) = q[1]
      /\ \A k \in 1 .. n - 1 : u[k] = q[k + 1]
  <2>1. u \in Seq(T) /\ Dropped(q, 1, u) /\ Head(q) = q[1]
    BY TailDrops
  <2>2. \A k \in 1 .. n - 1 : ~ k < 1
    BY <1>1
  <2> QED BY <2>1, <2>2 DEF Dropped
<1>3. /\ t \in Seq(V) /\ Len(t) = n /\ \A k \in 1 .. n : t[k] = Told(p, q[k])
  BY ToldSeq
<1> HIDE DEF n, V, t
<1>4. t # << >>
  BY <1>1, <1>3, SeqFacts
<1>5. /\ y \in Seq(V) /\ Len(y) = n - 1 /\ Head(t) = t[1]
      /\ \A k \in 1 .. n - 1 : y[k] = t[k + 1]
  <2>1. y \in Seq(V) /\ Dropped(t, 1, y) /\ Head(t) = t[1]
    BY <1>3, <1>4, TailDrops
  <2>2. \A k \in 1 .. n - 1 : ~ k < 1
    BY <1>1
  <2> QED BY <1>3, <2>1, <2>2 DEF Dropped
<1> HIDE DEF u, y
<1>6. /\ x \in Seq(V) /\ Len(x) = n - 1
      /\ \A k \in 1 .. n - 1 : x[k] = Told(p, u[k])
  BY <1>2, ToldSeq DEF V
<1> HIDE DEF x
<1>7. \A k \in 1 .. n - 1 : x[k] = y[k]
  <2>1. \A k \in 1 .. n - 1 : k + 1 \in 1 .. n
    BY <1>1
  <2> QED BY <2>1, <1>2, <1>3, <1>5, <1>6
<1>8. x = y
  BY <1>1, <1>5, <1>6, <1>7, SeqEqual
<1>9. Head(t) = Told(p, Head(q))
  BY <1>1, <1>2, <1>3, <1>5
<1> QED BY <1>4, <1>8, <1>9 DEF x, y, u, t

\* The messages of class c.
Kind(c) == [id : ID, class : {c}]

\* The requests of a class: those the child polls for, then those it has not
\* read.
LEMMA AskedCat ==
  ASSUME NEW rd, NEW rq, NEW c
  PROVE  Asked(rd, rq, c) = Cat(Only(rd, Kind(c)), Only(rq, Kind(c)))
  BY DEF Asked, Cat, Kind

\* How Cat, Put and Lone go together.
LEMMA CatAlgebra ==
  ASSUME NEW T, NEW u \in Seq(T), NEW v \in Seq(T), NEW m \in T
  PROVE  /\ Cat(u, v) \in Seq(T) /\ Put(u, m) \in Seq(T) /\ Lone(m) \in Seq(T)
         /\ Cat(Put(u, m), v) = Cat(u, Cat(Lone(m), v))
         /\ Cat(Cat(Lone(m), u), v) = Cat(Lone(m), Cat(u, v))
<1>1. << m >> \in Seq(T)
  OBVIOUS
<1>2. PICK w \in Seq(T) : w = << m >> /\ w = Lone(m)
  BY <1>1 DEF Lone
<1>3. Cat(u, v) \in Seq(T)
  BY ConcatProperties DEF Cat
<1>4. Put(u, m) \in Seq(T)
  BY AppendFacts DEF Put
<1>5. Put(u, m) = Cat(u, w)
  BY <1>2, AppendIsConcat DEF Put, Cat
<1>6. Cat(Cat(u, w), v) = Cat(u, Cat(w, v)) /\ Cat(Cat(w, u), v) = Cat(w, Cat(u, v))
  <2>1. (u \o w) \o v = u \o (w \o v)
    BY ConcatAssociative
  <2>2. (w \o u) \o v = w \o (u \o v)
    BY ConcatAssociative
  <2> QED BY <2>1, <2>2 DEF Cat
<1> QED BY <1>2, <1>3, <1>4, <1>5, <1>6

\* The last of the first queue is before the first of the second.
LEMMA CatShift ==
  ASSUME NEW T, NEW u \in Seq(T), NEW v \in Seq(T), NEW m \in T
  PROVE  Cat(Put(u, m), v) = Cat(u, Cat(Lone(m), v))
  BY CatAlgebra

\* An empty queue adds nothing.
LEMMA CatEmpty ==
  ASSUME NEW T, NEW u \in Seq(T)
  PROVE  Cat(<< >>, u) = u /\ Cat(u, << >>) = u
  BY ConcatEmptySeq DEF Cat

\* The first element of a sequence, and the others.
LEMMA LoneFirst ==
  ASSUME NEW T, NEW u \in Seq(T), NEW m \in T, NEW x, x = Cat(Lone(m), u)
  PROVE  x # << >> /\ Head(x) = m /\ Tail(x) = u
<1>1. << m >> \in Seq(T)
  OBVIOUS
<1>2. PICK w \in Seq(T) : w = << m >> /\ w = Lone(m)
  BY <1>1 DEF Lone
<1>3. /\ Len(u) \in Nat /\ Len(w) = 1 /\ w[1] = m
      /\ \A k \in 1 .. Len(u) : u[k] \in T
  BY <1>2, SeqFacts
<1>4. /\ x \in Seq(T) /\ Len(x) = 1 + Len(u)
      /\ \A k \in 1 .. 1 + Len(u) : x[k] = IF k <= 1 THEN w[k] ELSE u[k - 1]
  <2>1. /\ w \o u \in Seq(T) /\ Len(w \o u) = Len(w) + Len(u)
        /\ \A k \in 1 .. Len(w) + Len(u) :
             (w \o u)[k] = IF k <= Len(w) THEN w[k] ELSE u[k - Len(w)]
    BY ConcatProperties
  <2>2. x = w \o u
    BY <1>2 DEF Cat
  <2> QED BY <1>3, <2>1, <2>2
<1>5. x # << >>
  BY <1>3, <1>4, SeqFacts
<1>6. Tail(x) \in Seq(T) /\ Dropped(x, 1, Tail(x)) /\ Head(x) = x[1]
  BY <1>4, <1>5, TailDrops
<1>7. Head(x) = m
  BY <1>3, <1>4, <1>6
<1>8. Tail(x) = u
  <2>1. PICK t : t = Tail(x)
    OBVIOUS
  <2>2. /\ t \in Seq(T) /\ Len(t) = Len(u)
        /\ \A j \in 1 .. Len(u) : t[j] = x[j + 1]
    BY <1>3, <1>4, <1>6, <2>1 DEF Dropped
  <2>3. ASSUME NEW j \in 1 .. Len(u) PROVE x[j + 1] = u[j]
    <3>1. j + 1 \in 1 .. 1 + Len(u) /\ ~ (j + 1 <= 1) /\ (j + 1) - 1 = j
      BY <1>3
    <3> QED BY <1>4, <3>1
  <2>4. t = u
    BY <2>2, <2>3, SeqEqual
  <2> QED BY <2>1, <2>4
<1> QED BY <1>5, <1>7, <1>8

\* A message is of one class.
LEMMA KindOf ==
  ASSUME NEW m \in Message, NEW c
  PROVE  m \in Kind(c) <=> m.class = c
  BY DEF Message, Kind

\* The queues of a class hold messages whose identifiers are pending.
LEMMA AskedFacts ==
  ASSUME NEW rd \in Seq(Message), NEW rq \in Seq(Message), NEW c
  PROVE  /\ Only(rd, Kind(c)) \in Seq(Message) /\ Only(rq, Kind(c)) \in Seq(Message)
         /\ Asked(rd, rq, c) \in Seq(Message)
         /\ IDs(Asked(rd, rq, c)) \subseteq IDs(rd) \cup IDs(rq)
<1> DEFINE u == Only(rd, Kind(c))
           v == Only(rq, Kind(c))
<1>1. /\ u \in Seq(Message) /\ v \in Seq(Message)
      /\ ToSet(u) \subseteq ToSet(rd) /\ ToSet(v) \subseteq ToSet(rq)
  BY OnlyElems
<1>2. Asked(rd, rq, c) = u \o v
  BY AskedCat DEF Cat
<1> HIDE DEF u, v
<1>3. \A q : IDs(q) = {m.id : m \in ToSet(q)}
  BY DEF IDs, ToSet
<1>4. IDs(u) \subseteq IDs(rd) /\ IDs(v) \subseteq IDs(rq)
  BY <1>1, <1>3
<1>5. u \o v \in Seq(Message) /\ IDs(u \o v) = IDs(u) \cup IDs(v)
  BY <1>1, CatIDs
<1> QED BY <1>1, <1>2, <1>4, <1>5 DEF u, v

\* An identifier that no message has does not matter to what they ask.
LEMMA OthersAgree ==
  ASSUME TypeOK, Registered, NEW p, NEW i,
         i \notin IDs(requests), i \notin IDs(reads),
         \A j \in DOMAIN pending : j # i => j \in DOMAIN p /\ p[j] = pending[j]
  PROVE  /\ \A c : Described(p, Asked(reads, requests, c))
                     = Described(pending, Asked(reads, requests, c))
         /\ \A q : IDs(q) \subseteq IDs(replies) /\ i \notin IDs(q)
                     => Described(p, q) = Described(pending, q)
<1>1. requests \in Seq(Message) /\ reads \in Seq(Message)
  BY DEF TypeOK
<1>2. \A q : IDs(q) = {m.id : m \in ToSet(q)}
  BY DEF IDs, ToSet
<1>3. \A j \in IDs(requests) \cup IDs(reads) \cup IDs(replies) : j \in DOMAIN pending
  BY <1>2 DEF Registered
<1>4. ASSUME NEW c
      PROVE  Described(p, Asked(reads, requests, c))
               = Described(pending, Asked(reads, requests, c))
  <2>1. IDs(Asked(reads, requests, c)) \subseteq IDs(reads) \cup IDs(requests)
    BY <1>1, AskedFacts
  <2>2. PICK q : q = Asked(reads, requests, c)
    OBVIOUS
  <2>3. \A j \in IDs(q) : j \in DOMAIN p /\ j \in DOMAIN pending /\ p[j] = pending[j]
    BY <1>3, <2>1, <2>2
  <2>4. Described(p, q) = Described(pending, q)
    BY <2>3, ToldAgree
  <2> QED BY <2>2, <2>4
<1>5. ASSUME NEW q, IDs(q) \subseteq IDs(replies), i \notin IDs(q)
      PROVE  Described(p, q) = Described(pending, q)
  <2>1. \A j \in IDs(q) : j \in DOMAIN p /\ j \in DOMAIN pending /\ p[j] = pending[j]
    BY <1>3, <1>5
  <2> QED BY <2>1, ToldAgree
<1> QED BY <1>4, <1>5

\* A message appended to a queue is kept if it is of the class.
LEMMA OnlyPut ==
  ASSUME NEW q \in Seq(Message), NEW m \in Message, NEW c
  PROVE  Only(Put(q, m), Kind(c)) = IF m.class = c THEN Put(Only(q, Kind(c)), m)
                                    ELSE Only(q, Kind(c))
<1>1. m \in Kind(c) <=> m.class = c
  BY KindOf
<1>2. Only(Put(q, m), Kind(c)) = IF m \in Kind(c) THEN Put(Only(q, Kind(c)), m)
                                 ELSE Only(q, Kind(c))
  BY OnlyAppend DEF Put
<1> QED BY <1>1, <1>2

\* A message sent is the last of its class.
LEMMA SentLast ==
  ASSUME NEW rd \in Seq(Message), NEW rq \in Seq(Message), NEW m \in Message, NEW c
  PROVE  Asked(rd, Put(rq, m), c) = IF m.class = c THEN Put(Asked(rd, rq, c), m)
                                    ELSE Asked(rd, rq, c)
<1> DEFINE u == Only(rd, Kind(c))
           v == Only(rq, Kind(c))
<1>1. u \in Seq(Message) /\ v \in Seq(Message)
  BY OnlyElems
<1>2. Only(Put(rq, m), Kind(c)) = IF m.class = c THEN Put(v, m) ELSE v
  BY OnlyPut
<1>3. /\ Asked(rd, Put(rq, m), c) = Cat(u, Only(Put(rq, m), Kind(c)))
      /\ Asked(rd, rq, c) = Cat(u, v)
  BY AskedCat
<1> HIDE DEF u, v
<1>4. Put(Cat(u, v), m) = Cat(u, Put(v, m))
  BY <1>1, CatPut
<1> QED BY <1>2, <1>3, <1>4

\* A message taken is the first of its class in the channel, and when it is
\* kept, the last of its class in PendingReads.
LEMMA TakenFirst ==
  ASSUME NEW rd \in Seq(Message), NEW rq \in Seq(Message), NEW t \in Seq(Message),
         NEW m \in Message, Dropped(rq, 1, t), m = rq[1], NEW c
  PROVE  /\ m.class # c => Asked(rd, t, c) = Asked(rd, rq, c)
         /\ m.class = c /\ (\A e \in ToSet(rd) : e.class # c)
              => Asked(rd, rq, c) = Cat(Lone(m), Asked(rd, t, c))
         /\ Asked(Put(rd, m), t, c) = Asked(rd, rq, c)
<1> DEFINE a == Only(rd, Kind(c))
           b == Only(rq, Kind(c))
           d == Only(t, Kind(c))
<1>1. /\ a \in Seq(Message) /\ b \in Seq(Message) /\ d \in Seq(Message)
      /\ ToSet(a) = ToSet(rd) \cap Kind(c)
  BY OnlyElems
<1>2. /\ Asked(rd, t, c) = Cat(a, d) /\ Asked(rd, rq, c) = Cat(a, b)
      /\ Asked(Put(rd, m), t, c) = Cat(Only(Put(rd, m), Kind(c)), d)
  BY AskedCat
<1>3. Only(Put(rd, m), Kind(c)) = IF m.class = c THEN Put(a, m) ELSE a
  BY OnlyPut
<1>4. IF m.class = c THEN b = Cat(Lone(m), d) ELSE d = b
  <2>1. PICK k : k = 1
    OBVIOUS
  <2>2. Dropped(rq, k, t) /\ m = rq[k] /\ \A j \in 1 .. k - 1 : rq[j] \notin Kind(c)
    BY <2>1
  <2>3. CASE m.class = c
    <3>1. rq[k] \in Kind(c)
      BY <2>2, <2>3, KindOf
    <3>2. b = Cat(Lone(rq[k]), d)
      BY <2>2, <3>1, OnlyFirst
    <3> HIDE DEF b, d
    <3> QED BY <2>2, <2>3, <3>2
  <2>4. CASE m.class # c
    <3>1. rq[k] \notin Kind(c)
      BY <2>2, <2>4, KindOf
    <3>2. d = b
      BY <2>2, <3>1, OnlySkip
    <3> QED BY <2>4, <3>2
  <2> QED BY <2>3, <2>4
<1> HIDE DEF a, b, d
<1>5. Cat(Put(a, m), d) = Cat(a, Cat(Lone(m), d))
  BY <1>1, CatShift
<1>6. ASSUME m.class = c, \A e \in ToSet(rd) : e.class # c
      PROVE  Cat(a, b) = Cat(Lone(m), Cat(a, d))
  <2>1. ToSet(rd) \cap Kind(c) = {}
    BY <1>6 DEF Kind
  <2>2. DOMAIN a = {}
    BY <1>1, <2>1 DEF ToSet
  <2>3. a = << >>
    BY <1>1, <2>2, SeqFacts
  <2>4. Cat(a, b) = b /\ Cat(a, d) = d
    BY <1>1, <2>3, CatEmpty
  <2> QED BY <1>4, <1>6, <2>4
<1> QED BY <1>2, <1>3, <1>4, <1>5, <1>6

\* The first read of a class is the first request of it.
LEMMA ReadFirst ==
  ASSUME NEW rd \in Seq(Message), NEW rq \in Seq(Message), NEW t \in Seq(Message),
         NEW m \in Message, NEW k, Dropped(rd, k, t), m = rd[k], NEW c,
         m.class = c, \A j \in 1 .. k - 1 : rd[j].class # c
  PROVE  Asked(rd, rq, c) = Cat(Lone(m), Asked(t, rq, c))
<1> DEFINE a == Only(rd, Kind(c))
           b == Only(rq, Kind(c))
           d == Only(t, Kind(c))
<1>1. b \in Seq(Message) /\ d \in Seq(Message)
  BY OnlyElems
<1>2. Asked(t, rq, c) = Cat(d, b) /\ Asked(rd, rq, c) = Cat(a, b)
  BY AskedCat
<1>3. rd[k] \in Kind(c)
  BY KindOf
<1>4. \A j \in 1 .. k - 1 : rd[j] \notin Kind(c)
  BY DEF Kind
<1>5. a = Cat(Lone(rd[k]), d)
  BY <1>3, <1>4, OnlyFirst
<1> HIDE DEF a, b, d
<1>6. Cat(Cat(Lone(m), d), b) = Cat(Lone(m), Cat(d, b))
  BY <1>1, CatAlgebra
<1> QED BY <1>2, <1>5, <1>6

\* It is not one of another class.
LEMMA ReadOthers ==
  ASSUME NEW rd \in Seq(Message), NEW rq \in Seq(Message), NEW t \in Seq(Message),
         NEW m \in Message, NEW k, Dropped(rd, k, t), m = rd[k], NEW c, m.class # c
  PROVE  Asked(t, rq, c) = Asked(rd, rq, c)
<1>1. rd[k] \notin Kind(c)
  BY KindOf
<1>2. Only(t, Kind(c)) = Only(rd, Kind(c))
  BY <1>1, OnlySkip
<1> QED BY <1>2, AskedCat

\* A queue that begins with m, described.
LEMMA ToldFirst ==
  ASSUME NEW q \in Seq(Message), NEW m \in Message, NEW p,
         NEW x, x = Cat(Lone(m), q)
  PROVE  /\ Described(p, x) # << >> /\ Head(Described(p, x)) = Told(p, m)
         /\ Tail(Described(p, x)) = Described(p, q)
<1>1. x # << >> /\ Head(x) = m /\ Tail(x) = q
  BY LoneFirst
<1>2. x \in Seq(Message)
  BY CatAlgebra
<1>3. /\ Described(p, x) # << >>
      /\ Head(Described(p, x)) = Told(p, Head(x))
      /\ Described(p, Tail(x)) = Tail(Described(p, x))
  BY <1>1, <1>2, ToldTail
<1> QED BY <1>1, <1>3

\* The variables of the channel.
AskedNow == [c \in Class |-> Described(pending, Asked(reads, requests, c))]
Answered == Described(pending, replies)

\* The machine starts as the channel does.
LEMMA InitRefines == ASSUME Init PROVE Channel!Init
<1>1. << >> \in Seq(Message) /\ DOMAIN << >> = {}
  BY EmptySeq
<1>2. \A p : Described(p, << >>) = << >>
  <2>1. SUFFICES ASSUME NEW p PROVE Described(p, << >>) = << >>
    OBVIOUS
  <2>2. PICK q : q = << >>
    OBVIOUS
  <2>3. q \in Seq(Message) /\ Len(q) = 0
    BY <1>1, <2>2
  <2>4. Described(p, q) \in Seq(ToldOf(p, Message)) /\ Len(Described(p, q)) = 0
    BY <2>3, ToldSeq
  <2>5. Described(p, q) = << >>
    BY <2>4, SeqFacts
  <2> QED BY <2>2, <2>5
<1>3. \A c : Asked(<< >>, << >>, c) = << >>
  BY <1>1, OnlyEmpty, AskedCat, CatEmpty
<1> QED BY <1>2, <1>3 DEF Init, Channel!Init

\* MachineFileOpen and the others ask.
LEMMA AskRefines ==
  ASSUME TypeOK, Registered, Fresh, NEW c \in Client, NEW class \in Class,
         MachineFile(c, class)
  PROVE  Channel!Ask([client |-> c, class |-> class])
<1> DEFINE m == [id |-> NextID, class |-> class]
           r == [client |-> c, class |-> class]
<1>1. /\ c \in Client \cup {NULL} /\ class \in Class \cup {"terminate"}
      /\ Send(c, class) /\ reads' = reads /\ replies' = replies
      /\ reads \in Seq(Message) /\ requests \in Seq(Message)
  BY DEF MachineFile, Send, childVars, TypeOK
<1>2. requestID' = NextID /\ NextID \notin DOMAIN pending
  BY <1>1, NextIDMoves DEF Send, Fresh, TypeOK
<1>3. /\ requests' \in Seq(Message) /\ Len(requests') = Len(requests) + 1
      /\ requestID' \in ID /\ requestID' = NextID
      /\ m \in Message
      /\ DOMAIN pending' = DOMAIN pending \cup {NextID}
      /\ \A i \in DOMAIN pending' :
           pending'[i] = IF i = NextID THEN c ELSE pending[i]
  BY <1>1, SendFacts
<1>4. \A q : IDs(q) = {e.id : e \in ToSet(q)}
  BY DEF IDs, ToSet
<1>5. /\ NextID \notin IDs(requests) /\ NextID \notin IDs(reads)
      /\ NextID \notin IDs(replies)
  BY <1>2, <1>4 DEF Registered
<1>6. /\ requests' = Put(requests, m) /\ m.class = class
      /\ Told(pending', m) = r
  BY <1>1, <1>3 DEF Send, Put, Told
<1> HIDE DEF m
<1>7. /\ \A k : Described(pending', Asked(reads, requests, k))
                  = Described(pending, Asked(reads, requests, k))
      /\ Described(pending', replies) = Described(pending, replies)
  <2>1. \A j \in DOMAIN pending :
          j # NextID => j \in DOMAIN pending' /\ pending'[j] = pending[j]
    BY <1>3
  <2>2. /\ \A k : Described(pending', Asked(reads, requests, k))
                    = Described(pending, Asked(reads, requests, k))
        /\ \A q : IDs(q) \subseteq IDs(replies) /\ NextID \notin IDs(q)
                    => Described(pending', q) = Described(pending, q)
    BY <1>5, <2>1, OthersAgree
  <2> QED BY <1>5, <2>2
<1>8. ASSUME NEW k \in Class
      PROVE  Described(pending', Asked(reads', requests', k))
               = IF k = class
                 THEN Append(Described(pending, Asked(reads, requests, k)), r)
                 ELSE Described(pending, Asked(reads, requests, k))
  <2>1. Asked(reads, Put(requests, m), k)
          = IF m.class = k THEN Put(Asked(reads, requests, k), m)
            ELSE Asked(reads, requests, k)
    BY <1>1, <1>3, SentLast
  <2>2. PICK q : q = Asked(reads, requests, k)
    OBVIOUS
  <2>3. q \in Seq(Message)
    BY <1>1, <2>2, AskedFacts
  <2>4. Described(pending', Put(q, m)) = Put(Described(pending', q), Told(pending', m))
    BY <1>3, <2>3, ToldAppend
  <2>5. Described(pending', q) = Described(pending, q)
    BY <1>7, <2>2
  <2>6. Described(pending', Put(q, m)) = Append(Described(pending, q), r)
    BY <1>6, <2>4, <2>5 DEF Put
  <2>7. CASE k = class
    BY <1>1, <1>6, <2>1, <2>2, <2>6, <2>7
  <2>8. CASE k # class
    BY <1>1, <1>6, <2>1, <2>2, <2>5, <2>8
  <2> QED BY <2>7, <2>8
<1>9. r.class = class
  OBVIOUS
<1> HIDE DEF r
<1>10. AskedNow' = [AskedNow EXCEPT ![r.class] = Append(@, r)]
  BY <1>8, <1>9 DEF AskedNow
<1>11. Answered' = Answered
  BY <1>1, <1>7 DEF Answered
<1> QED BY <1>10, <1>11 DEF Channel!Ask, AskedNow, Answered, r

\* MachineTerminate asks nothing of the channel.
LEMMA TerminateStutters ==
  ASSUME TypeOK, Registered, Fresh, MachineTerminate
  PROVE  UNCHANGED Channel!vars
<1>1. PICK c, class : c = NULL /\ class = "terminate"
  OBVIOUS
<1> DEFINE m == [id |-> NextID, class |-> class]
<1>2. /\ c \in Client \cup {NULL} /\ class \in Class \cup {"terminate"}
      /\ Send(c, class) /\ reads' = reads /\ replies' = replies
      /\ reads \in Seq(Message) /\ requests \in Seq(Message)
  BY <1>1 DEF MachineTerminate, Send, childVars, TypeOK
<1>3. requestID' = NextID /\ NextID \notin DOMAIN pending
  BY <1>2, NextIDMoves DEF Send, Fresh, TypeOK
<1>4. /\ requests' \in Seq(Message) /\ Len(requests') = Len(requests) + 1
      /\ requestID' \in ID /\ requestID' = NextID
      /\ m \in Message
      /\ DOMAIN pending' = DOMAIN pending \cup {NextID}
      /\ \A i \in DOMAIN pending' :
           pending'[i] = IF i = NextID THEN c ELSE pending[i]
  BY <1>2, SendFacts
<1>5. \A q : IDs(q) = {e.id : e \in ToSet(q)}
  BY DEF IDs, ToSet
<1>6. /\ NextID \notin IDs(requests) /\ NextID \notin IDs(reads)
      /\ NextID \notin IDs(replies)
  BY <1>3, <1>5 DEF Registered
<1>7. requests' = Put(requests, m) /\ m.class = class
  BY <1>2 DEF Send, Put
<1> HIDE DEF m
<1>8. /\ \A k : Described(pending', Asked(reads, requests, k))
                  = Described(pending, Asked(reads, requests, k))
      /\ Described(pending', replies) = Described(pending, replies)
  <2>1. \A j \in DOMAIN pending :
          j # NextID => j \in DOMAIN pending' /\ pending'[j] = pending[j]
    BY <1>4
  <2>2. /\ \A k : Described(pending', Asked(reads, requests, k))
                    = Described(pending, Asked(reads, requests, k))
        /\ \A q : IDs(q) \subseteq IDs(replies) /\ NextID \notin IDs(q)
                    => Described(pending', q) = Described(pending, q)
    BY <1>6, <2>1, OthersAgree
  <2> QED BY <1>6, <2>2
<1>9. ASSUME NEW k \in Class
      PROVE  Described(pending', Asked(reads', requests', k))
               = Described(pending, Asked(reads, requests, k))
  <2>1. Asked(reads, Put(requests, m), k)
          = IF m.class = k THEN Put(Asked(reads, requests, k), m)
            ELSE Asked(reads, requests, k)
    BY <1>2, <1>4, SentLast
  <2>2. m.class # k
    BY <1>1, <1>7, MachineAssumption DEF Class
  <2> QED BY <1>2, <1>7, <1>8, <2>1, <2>2
<1>10. AskedNow' = AskedNow
  BY <1>9 DEF AskedNow
<1>11. Answered' = Answered
  BY <1>2, <1>8 DEF Answered
<1> QED BY <1>10, <1>11 DEF Channel!vars, AskedNow, Answered

\* A callback runs: the first answer is delivered.
LEMMA DeliverRefines ==
  ASSUME TypeOK, Registered, Apart, Receive
  PROVE  \E r \in [client : Client, class : Class] : Channel!Deliver(r)
<1>1. /\ replies \in Seq(Message) /\ replies # << >> /\ replies' = Tail(replies)
      /\ requests' = requests /\ reads' = reads
      /\ pending' = WithoutID(pending, Head(replies).id)
  BY DEF Receive, childVars, TypeOK
<1>2. PICK m : m = Head(replies)
  OBVIOUS
<1>3. m = replies[1] /\ replies' \in Seq(Message) /\ Dropped(replies, 1, replies')
  BY <1>1, <1>2, TailDrops
<1>4. /\ m.id \in IDs(replies) /\ m \in ToSet(replies)
      /\ IDs(replies') \subseteq IDs(replies) /\ m.id \notin IDs(replies')
  <2>1. PICK k : k = 1
    OBVIOUS
  <2>2. Dropped(replies, k, replies') /\ m = replies[k]
    BY <1>3, <2>1
  <2>3. replies \in Seq(Message) /\ Distinct(replies) /\ replies' \in Seq(Message)
    BY <1>1, <1>3 DEF Apart
  <2> QED BY <2>2, <2>3, DropIDs
<1>5. m.id \notin IDs(requests) /\ m.id \notin IDs(reads)
  BY <1>4 DEF Apart
<1>6. \A j \in DOMAIN pending :
        j # m.id => j \in DOMAIN pending' /\ pending'[j] = pending[j]
  BY <1>1, <1>2 DEF WithoutID
<1>7. /\ \A k : Described(pending', Asked(reads, requests, k))
                  = Described(pending, Asked(reads, requests, k))
      /\ Described(pending', replies') = Described(pending, replies')
  <2>1. /\ \A k : Described(pending', Asked(reads, requests, k))
                    = Described(pending, Asked(reads, requests, k))
        /\ \A q : IDs(q) \subseteq IDs(replies) /\ m.id \notin IDs(q)
                    => Described(pending', q) = Described(pending, q)
    BY <1>5, <1>6, OthersAgree
  <2> QED BY <1>4, <2>1
<1>8. PICK t : t = replies'
  OBVIOUS
<1>9. /\ Described(pending, replies) # << >>
      /\ Head(Described(pending, replies)) = Told(pending, m)
      /\ Described(pending, t) = Tail(Described(pending, replies))
  <2>1. /\ Described(pending, replies) # << >>
        /\ Head(Described(pending, replies)) = Told(pending, Head(replies))
        /\ Described(pending, Tail(replies)) = Tail(Described(pending, replies))
    BY <1>1, ToldTail
  <2> QED BY <1>1, <1>2, <1>8, <2>1
<1>10. PICK r : r = Told(pending, m)
  OBVIOUS
<1>11. r \in [client : Client, class : Class]
  BY <1>4, <1>10 DEF Registered, Told, TypeOK
<1>12. /\ Answered # << >> /\ r = Head(Answered) /\ Answered' = Tail(Answered)
  BY <1>7, <1>8, <1>9, <1>10 DEF Answered
<1>13. AskedNow' = AskedNow
  BY <1>1, <1>7 DEF AskedNow
<1>14. Channel!Deliver(r)
  BY <1>12, <1>13 DEF Channel!Deliver, AskedNow, Answered
<1> QED BY <1>11, <1>14

\* The first message of a class goes from the queues to the answers.
LEMMA AnswerRefines ==
  ASSUME TypeOK, NEW c \in Class, NEW m \in Message, pending' = pending,
         reads' \in Seq(Message), requests' \in Seq(Message),
         replies' = Append(replies, m),
         \A k \in Class : k # c => Asked(reads', requests', k) = Asked(reads, requests, k),
         Asked(reads, requests, c) = Cat(Lone(m), Asked(reads', requests', c))
  PROVE  Channel!Answer(c)
<1>1. PICK q : q = Asked(reads', requests', c)
  OBVIOUS
<1>2. PICK x : x = Asked(reads, requests, c)
  OBVIOUS
<1>3. q \in Seq(Message) /\ x = Cat(Lone(m), q)
  BY <1>1, <1>2, AskedFacts
<1>4. /\ Described(pending, x) # << >> /\ Head(Described(pending, x)) = Told(pending, m)
      /\ Tail(Described(pending, x)) = Described(pending, q)
  BY <1>3, ToldFirst
<1>5. AskedNow[c] = Described(pending, x)
  BY <1>2 DEF AskedNow
<1>6. PICK d : d = Described(pending, q)
  OBVIOUS
<1>7. Tail(AskedNow[c]) = d /\ AskedNow[c] # << >> /\ Head(AskedNow[c]) = Told(pending, m)
  BY <1>4, <1>5, <1>6
<1>8. AskedNow' = [AskedNow EXCEPT ![c] = d]
  BY <1>1, <1>6 DEF AskedNow
<1>9. Answered' = Append(Answered, Told(pending, m))
  <2>1. replies \in Seq(Message) /\ replies' = Put(replies, m)
    BY DEF TypeOK, Put
  <2>2. Described(pending, Put(replies, m)) = Put(Described(pending, replies), Told(pending, m))
    BY <2>1, ToldAppend
  <2> QED BY <2>1, <2>2 DEF Answered, Put
<1>10. AskedNow' = [AskedNow EXCEPT ![c] = Tail(@)]
  BY <1>7, <1>8
<1>11. Answered' = Append(Answered, Head(AskedNow[c]))
  BY <1>7, <1>9
<1> QED BY <1>7, <1>10, <1>11 DEF Channel!Answer, AskedNow, Answered

\* Executing a request answers the first of class "now", keeping a read answers
\* nothing, and neither does the request to stop.
LEMMA TakeRefines ==
  ASSUME TypeOK, Registered, TakeNow \/ TakeRead \/ TakeTerminate
  PROVE  Channel!Answer("now") \/ UNCHANGED Channel!vars
<1>1. PICK m : m = Head(requests)
  OBVIOUS
<1>2. Take /\ pending' = pending /\ reads \in Seq(Message) /\ requests \in Seq(Message)
  BY DEF TakeNow, TakeRead, TakeTerminate, Take, parentVars, TypeOK
<1>3. PICK t : t = requests'
  OBVIOUS
<1>4. t \in Seq(Message) /\ Dropped(requests, 1, t) /\ m = requests[1] /\ m \in Message
  BY <1>1, <1>2, <1>3, TakeFacts
<1>5. ASSUME NEW k
      PROVE  /\ m.class # k => Asked(reads, t, k) = Asked(reads, requests, k)
             /\ m.class = k /\ (\A e \in ToSet(reads) : e.class # k)
                  => Asked(reads, requests, k) = Cat(Lone(m), Asked(reads, t, k))
             /\ Asked(Put(reads, m), t, k) = Asked(reads, requests, k)
  BY <1>2, <1>4, TakenFirst
<1>6. CASE TakeNow
  <2>1. m.class = "now" /\ replies' = Append(replies, m) /\ reads' = reads
    BY <1>1, <1>6 DEF TakeNow
  <2>2. \A e \in ToSet(reads) : e.class # "now"
    BY MachineAssumption DEF Registered
  <2>3. PICK c \in Class : c = "now"
    BY DEF Class
  <2>4. Asked(reads, requests, c) = Cat(Lone(m), Asked(reads', requests', c))
    BY <1>3, <1>5, <2>1, <2>2, <2>3
  <2>5. \A k \in Class : k # c => Asked(reads', requests', k) = Asked(reads, requests, k)
    BY <1>3, <1>5, <2>1, <2>3
  <2>6. reads' \in Seq(Message) /\ requests' \in Seq(Message)
    BY <1>2, <1>3, <1>4, <2>1
  <2>7. Channel!Answer(c)
    BY <1>2, <1>4, <2>1, <2>4, <2>5, <2>6, AnswerRefines
  <2> QED BY <2>3, <2>7
<1>7. CASE TakeRead
  <2>1. reads' = Put(reads, m) /\ replies' = replies
    BY <1>1, <1>7 DEF TakeRead, Put
  <2>2. \A k \in Class : Asked(reads', requests', k) = Asked(reads, requests, k)
    BY <1>3, <1>5, <2>1
  <2>3. AskedNow' = AskedNow /\ Answered' = Answered
    BY <1>2, <2>1, <2>2 DEF AskedNow, Answered
  <2> QED BY <2>3 DEF Channel!vars, AskedNow, Answered
<1>8. CASE TakeTerminate
  <2>1. m.class = "terminate" /\ reads' = reads /\ replies' = replies
    BY <1>1, <1>8 DEF TakeTerminate
  <2>2. ASSUME NEW k \in Class
        PROVE  Asked(reads', requests', k) = Asked(reads, requests, k)
    <3>1. m.class # k
      BY <2>1, MachineAssumption DEF Class
    <3> QED BY <1>3, <1>5, <2>1, <3>1
  <2>3. AskedNow' = AskedNow /\ Answered' = Answered
    BY <1>2, <2>1, <2>2 DEF AskedNow, Answered
  <2> QED BY <2>3 DEF Channel!vars, AskedNow, Answered
<1> QED BY <1>6, <1>7, <1>8

\* A read is answered when it is the first of its descriptor.
LEMMA ReadRefines ==
  ASSUME TypeOK, AnswerRead
  PROVE  \E c \in Class : Channel!Answer(c)
<1>1. PICK n \in DOMAIN pollFDs, k \in DOMAIN reads :
         /\ FirstRead(pollFDs[n], k)
         /\ replies' = Append(replies, reads[k])
         /\ reads' = RemoveAt(reads, k)
  BY DEF AnswerRead
<1>2. /\ requests' = requests /\ pending' = pending
      /\ reads \in Seq(Message) /\ requests \in Seq(Message) /\ pollFDs \in Seq(FD)
  BY DEF AnswerRead, parentVars, TypeOK
<1>3. PICK m : m = reads[k]
  OBVIOUS
<1>4. PICK c \in Class : c = pollFDs[n]
  <2>1. pollFDs[n] \in FD
    BY <1>2, SeqFacts
  <2> QED BY <2>1 DEF Class
<1>5. k \in 1 .. Len(reads) /\ m \in Message
  BY <1>2, <1>3, SeqFacts
<1>6. PICK t : t = reads'
  OBVIOUS
<1>7. t \in Seq(Message) /\ Dropped(reads, k, t)
  BY <1>1, <1>2, <1>5, <1>6, RemoveDrops
<1>8. m.class = c /\ \A j \in 1 .. k - 1 : reads[j].class # c
  BY <1>1, <1>3, <1>4 DEF FirstRead
<1>9. /\ reads \in Seq(Message) /\ requests \in Seq(Message) /\ t \in Seq(Message)
      /\ m \in Message /\ Dropped(reads, k, t) /\ m = reads[k]
  BY <1>2, <1>3, <1>5, <1>7
<1>10. Asked(reads, requests, c) = Cat(Lone(m), Asked(reads', requests', c))
  <2>1. Asked(reads, requests, c) = Cat(Lone(m), Asked(t, requests, c))
    BY <1>8, <1>9, ReadFirst, SMTT(30)
  <2> QED BY <2>1, <1>2, <1>6
<1>11. \A d \in Class : d # c => Asked(reads', requests', d) = Asked(reads, requests, d)
  <2>1. ASSUME NEW d \in Class, d # c
        PROVE  Asked(t, requests, d) = Asked(reads, requests, d)
    BY <1>8, <1>9, <2>1, ReadOthers
  <2> QED BY <2>1, <1>2, <1>6
<1>12. /\ reads' \in Seq(Message) /\ requests' \in Seq(Message)
       /\ replies' = Append(replies, m)
  BY <1>1, <1>2, <1>3, <1>6, <1>7
<1>13. Channel!Answer(c)
  BY <1>2, <1>5, <1>10, <1>11, <1>12, AnswerRefines
<1> QED BY <1>13

\* The queues are removed: the channel closes.
LEMMA CloseRefines ==
  ASSUME Exit
  PROVE  Channel!Close
<1>1. /\ requests' = << >> /\ replies' = << >> /\ reads' = << >>
      /\ << >> \in Seq(Message) /\ DOMAIN << >> = {}
  BY EmptySeq DEF Exit
<1>2. Described(pending', << >>) = << >>
  <2>1. PICK q, p : q = << >> /\ p = pending'
    OBVIOUS
  <2>2. q \in Seq(Message) /\ Len(q) = 0
    BY <1>1, <2>1
  <2>3. Described(p, q) \in Seq(ToldOf(p, Message)) /\ Len(Described(p, q)) = 0
    BY <2>2, ToldSeq
  <2>4. Described(p, q) = << >>
    BY <2>3, SeqFacts
  <2> QED BY <2>1, <2>4
<1>3. \A c : Asked(<< >>, << >>, c) = << >>
  BY <1>1, OnlyEmpty, AskedCat, CatEmpty
<1> QED BY <1>1, <1>2, <1>3 DEF Channel!Close

\* Every step is one of the channel, or the channel does not notice.
LEMMA StepRefines ==
  ASSUME SInv, KInv, Fresh, [Next]_vars
  PROVE  [Channel!Next]_(Channel!vars)
<1>1. TypeOK /\ Registered /\ Apart
  BY DEF SInv, KInv
<1>2. ASSUME UNCHANGED <<requests, reads, replies, pending>>
      PROVE  UNCHANGED Channel!vars
  BY <1>2 DEF Channel!vars
<1>3. CASE UNCHANGED vars
  BY <1>2, <1>3 DEF vars, parentVars, childVars
<1>4. ASSUME NEW c \in Client, NEW class \in Class, MachineFile(c, class)
      PROVE  Channel!Next
  <2>1. [client |-> c, class |-> class] \in [client : Client, class : Class]
    OBVIOUS
  <2>2. Channel!Ask([client |-> c, class |-> class])
    BY <1>1, <1>4, AskRefines
  <2> QED BY <2>1, <2>2 DEF Channel!Next
<1>5. CASE MachineTerminate
  BY <1>1, <1>5, TerminateStutters
<1>6. CASE KillChild \/ WaitReturns \/ ParentDies \/ ReplySignal \/ HandlerReturn
  BY <1>2, <1>6
  DEF KillChild, WaitReturns, ParentDies, ReplySignal, HandlerReturn, childVars
<1>7. CASE Receive
  BY <1>1, <1>7, DeliverRefines DEF Channel!Next
<1>8. CASE RequestSignal \/ Poll \/ PollTimeout \/ KillParent \/ Again
  BY <1>2, <1>8
  DEF RequestSignal, Poll, PollTimeout, KillParent, Again, parentVars
<1>9. CASE TakeNow \/ TakeRead \/ TakeTerminate
  <2>1. "now" \in Class
    BY DEF Class
  <2> QED BY <1>1, <1>9, <2>1, TakeRefines DEF Channel!Next
<1>10. CASE AnswerRead
  BY <1>1, <1>10, ReadRefines DEF Channel!Next
<1>11. CASE Exit
  BY <1>11, CloseRefines DEF Channel!Next
<1>12. CASE Stopped
  BY <1>3, <1>12 DEF Stopped
<1> QED BY <1>3, <1>4, <1>5, <1>6, <1>7, <1>8, <1>9, <1>10, <1>11, <1>12
        DEF Next, Parent, Child

\* The two processes are the channel they promise to be: requests of one class
\* are answered in the order they were made, each once, and its callback is
\* called once with the calldata of that request, in the order of the answers -
\* as long as no identifier is used again while it is pending.
THEOREM MachineIsChannel == Spec /\ NoReuse => ImplementsIOChannel
<1>1. Init => Channel!Init
  BY InitRefines
<1>2. SInv /\ KInv /\ [Fresh]_vars /\ [Next]_vars => [Channel!Next]_(Channel!vars)
  <2>1. SUFFICES ASSUME SInv, KInv, [Fresh]_vars, [Next]_vars
                 PROVE  [Channel!Next]_(Channel!vars)
    OBVIOUS
  <2>2. Fresh
    BY <2>1 DEF Fresh, vars, parentVars
  <2> QED BY <2>1, <2>2, StepRefines
<1> QED BY <1>1, <1>2, AlwaysSInv, AlwaysKInv, PTL
        DEF Spec, NoReuse, ImplementsIOChannel, Channel!Spec
=============================================================================
