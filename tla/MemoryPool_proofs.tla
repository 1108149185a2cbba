------------------------- MODULE MemoryPool_proofs -------------------------
(***************************************************************************)
(* Theorems about MemoryPool, for every heap, granularity, set of requests *)
(* and number of pools.                                                    *)
(***************************************************************************)
EXTENDS MemoryPool, Loops, SequenceTheorems, FiniteSetTheorems, TLAPS

PoolState == [start : Nat, size : Nat, allocated : Seq(Block)]

\* A pool as MPCB keeps it: no larger than the memory, its vector in order.
Sound(p) == p \in PoolState /\ p.size < Modulus /\ InOrder(p)

-----------------------------------------------------------------------------
(* Arithmetic                                                              *)

\* The rounding in unsigned arithmetic, and that it rounds up as long as it
\* does not wrap.
LEMMA RoundUpFacts ==
  ASSUME NEW size \in Nat, size < Modulus
  PROVE  /\ RoundUp(size) \in Nat
         /\ RoundUp(size) < Modulus
         /\ size <= Modulus - Align =>
              size <= RoundUp(size) /\ RoundUp(size) < size + Align
<1>1. Align \in Nat /\ Align > 0 /\ Modulus \in Nat /\ Align < Modulus
  BY PoolAssumption
<1> DEFINE sum == (size + Align - 1) % Modulus
           rest == sum % Align
<1>2. RoundUp(size) = sum - rest
  BY DEF RoundUp
<1>3. sum \in Nat /\ sum < Modulus
  BY <1>1
<1>4. rest \in Nat /\ rest < Align /\ rest <= sum
  <2> HIDE DEF sum
  <2> QED BY <1>1, <1>3
<1>5. size <= Modulus - Align => sum = size + Align - 1
  BY <1>1
<1> HIDE DEF sum, rest
<1> QED BY <1>1, <1>2, <1>3, <1>4, <1>5

-----------------------------------------------------------------------------
(* One pool                                                                *)

\* What the type of a pool says of its vector.
LEMMA VectorType ==
  ASSUME NEW p \in PoolState
  PROVE  /\ p.start \in Nat /\ p.size \in Nat
         /\ p.allocated \in Seq(Block)
         /\ Len(p.allocated) \in Nat
         /\ DOMAIN p.allocated = 1 .. Len(p.allocated)
         /\ \A k \in 1 .. Len(p.allocated) :
              /\ p.allocated[k] \in Block
              /\ p.allocated[k].start \in Nat
              /\ p.allocated[k].size \in Nat
<1>1. p.start \in Nat /\ p.size \in Nat /\ p.allocated \in Seq(Block)
  BY DEF PoolState
<1>2. /\ Len(p.allocated) \in Nat
      /\ DOMAIN p.allocated = 1 .. Len(p.allocated)
      /\ \A k \in 1 .. Len(p.allocated) : p.allocated[k] \in Block
  BY <1>1, LenProperties, ElementOfSeq
<1> QED BY <1>1, <1>2 DEF Block

\* A sequence given by its length and its elements.
LEMMA SeqByElements ==
  ASSUME NEW S, NEW n \in Nat, NEW q, q \in [1 .. n -> S]
  PROVE  q \in Seq(S) /\ Len(q) = n /\ DOMAIN q = 1 .. n
<1>1. q \in Seq(S)
  BY SeqDef
<1> QED BY <1>1, LenProperties

\* The space between two blocks of a vector in order is what the unsigned
\* difference says: it does not wrap.
LEMMA GapFacts ==
  ASSUME NEW p, Sound(p), NEW k \in 1 .. Len(p.allocated) + 1
  PROVE  /\ Candidate(p, k) \in Nat /\ Limit(p, k) \in Nat
         /\ p.start <= Candidate(p, k)
         /\ Candidate(p, k) <= Limit(p, k)
         /\ Limit(p, k) <= End(p)
         /\ Gap(p, k) = Limit(p, k) - Candidate(p, k)
<1> DEFINE a == p.allocated
           n == Len(p.allocated)
<1>1. /\ p.start \in Nat /\ p.size \in Nat /\ n \in Nat
      /\ \A j \in 1 .. n : a[j].start \in Nat /\ a[j].size \in Nat
  BY VectorType DEF Sound
<1>2. /\ p.size < Modulus /\ Modulus \in Nat
      /\ \A j \in 1 .. n : /\ p.start <= a[j].start
                           /\ a[j].start + a[j].size <= p.start + p.size
      /\ \A i, j \in 1 .. n : i < j => a[i].start + a[i].size <= a[j].start
  BY PoolAssumption DEF Sound, InOrder, End
<1>3. Candidate(p, k) = IF k = 1 THEN p.start ELSE a[k - 1].start + a[k - 1].size
  BY DEF Candidate, End
<1>4. Limit(p, k) = IF k = n + 1 THEN p.start + p.size ELSE a[k].start
  BY DEF Limit, End
<1>5. End(p) = p.start + p.size
  BY DEF End
<1>6. k # 1 => k - 1 \in 1 .. n
  BY <1>1
<1>7. k # n + 1 => k \in 1 .. n
  BY <1>1
<1>8. k # 1 /\ k # n + 1 => a[k - 1].start + a[k - 1].size <= a[k].start
  <2>1. k - 1 < k
    BY <1>1
  <2> QED BY <1>2, <1>6, <1>7, <2>1
<1> HIDE DEF a, n
<1>9. /\ Candidate(p, k) \in Nat /\ p.start <= Candidate(p, k)
      /\ Candidate(p, k) <= End(p)
  BY <1>1, <1>2, <1>3, <1>5, <1>6
<1>10. Limit(p, k) \in Nat /\ Limit(p, k) <= End(p)
  BY <1>1, <1>2, <1>4, <1>5, <1>7, SMTT(30)
<1>11. Candidate(p, k) <= Limit(p, k)
  <2>1. CASE k = 1
    BY <2>1, <1>1, <1>2, <1>3, <1>4, <1>7
  <2>2. CASE k # 1 /\ k = n + 1
    BY <2>2, <1>4, <1>5, <1>9
  <2>3. CASE k # 1 /\ k # n + 1
    BY <2>3, <1>3, <1>4, <1>8
  <2> QED BY <2>1, <2>2, <2>3
<1>12. /\ Limit(p, k) - Candidate(p, k) \in Nat
       /\ Limit(p, k) - Candidate(p, k) < Modulus
  BY <1>1, <1>2, <1>5, <1>9, <1>10, <1>11
<1>13. Gap(p, k) = Limit(p, k) - Candidate(p, k)
  BY <1>2, <1>12 DEF Gap
<1> QED BY <1>9, <1>10, <1>11, <1>13

\* vector::insert of a block in a space it fits in.
LEMMA InsertFacts ==
  ASSUME NEW p, Sound(p), NEW k \in 1 .. Len(p.allocated) + 1,
         NEW size \in Nat, size <= Gap(p, k)
  PROVE  LET q == InsertBlock(p, k, size)
             b == [start |-> Candidate(p, k), size |-> size]
         IN  /\ Sound(q)
             /\ q.start = p.start /\ q.size = p.size
             /\ Len(q.allocated) = Len(p.allocated) + 1
             /\ \A j \in 1 .. Len(p.allocated) + 1 :
                  q.allocated[j] = IF j < k THEN p.allocated[j]
                                   ELSE IF j = k THEN b
                                   ELSE p.allocated[j - 1]
<1> DEFINE q == InsertBlock(p, k, size)
           b == [start |-> Candidate(p, k), size |-> size]
           a == p.allocated
           n == Len(p.allocated)
           ins == [j \in 1 .. n + 1 |-> IF j < k THEN a[j]
                                        ELSE IF j = k THEN b ELSE a[j - 1]]
<1>1. /\ p \in PoolState /\ p.start \in Nat /\ p.size \in Nat /\ n \in Nat
      /\ \A j \in 1 .. n : /\ a[j] \in Block
                           /\ a[j].start \in Nat /\ a[j].size \in Nat
  BY VectorType DEF Sound
<1>2. /\ Candidate(p, k) \in Nat /\ p.start <= Candidate(p, k)
      /\ Candidate(p, k) + size <= Limit(p, k) /\ Limit(p, k) \in Nat
      /\ Limit(p, k) <= End(p)
  BY GapFacts, <1>1 DEF End
<1>3. b \in Block
  BY <1>2 DEF Block
<1>4. q = [p EXCEPT !.allocated = ins]
  BY DEF InsertBlock
<1>5. ins \in [1 .. n + 1 -> Block]
  <2>1. ASSUME NEW j \in 1 .. n + 1
        PROVE  (IF j < k THEN a[j] ELSE IF j = k THEN b ELSE a[j - 1]) \in Block
    <3>1. j < k => j \in 1 .. n
      BY <1>1
    <3>2. j > k => j - 1 \in 1 .. n
      BY <1>1
    <3> HIDE DEF b
    <3> QED BY <3>1, <3>2, <1>1, <1>3
  <2> QED BY <2>1
<1>6. ins \in Seq(Block) /\ Len(ins) = n + 1
  <2>1. n + 1 \in Nat
    BY <1>1
  <2> HIDE DEF ins, n, a
  <2> QED BY <2>1, <1>5, SeqByElements
<1>7. /\ q \in PoolState /\ q.start = p.start /\ q.size = p.size
      /\ q.allocated = ins
  <2> HIDE DEF ins
  <2> QED BY <1>1, <1>4, <1>6 DEF PoolState
<1>8. \A j \in 1 .. n + 1 :
        ins[j] = IF j < k THEN a[j] ELSE IF j = k THEN b ELSE a[j - 1]
  OBVIOUS
<1>9. /\ \A j \in 1 .. n : /\ p.start <= a[j].start
                           /\ a[j].start + a[j].size <= p.start + p.size
      /\ \A i, j \in 1 .. n : i < j => a[i].start + a[i].size <= a[j].start
      /\ p.size < Modulus
  BY DEF Sound, InOrder, End
<1>10. b.start = Candidate(p, k) /\ b.size = size
  OBVIOUS

\* The blocks before the space end before it, and those after it start after.
<1>11. \A j \in 1 .. n : j < k => a[j].start + a[j].size <= Candidate(p, k)
  <2>1. ASSUME NEW j \in 1 .. n, j < k
        PROVE  a[j].start + a[j].size <= Candidate(p, k)
    <3>1. /\ k # 1 /\ k - 1 \in 1 .. n
          /\ Candidate(p, k) = a[k - 1].start + a[k - 1].size
      BY <2>1, <1>1 DEF Candidate, End
    <3>2. CASE j = k - 1
      <4> DEFINE e == a[j].start + a[j].size
      <4>1. e = Candidate(p, k)
        BY <3>1, <3>2
      <4>2. Candidate(p, k) \in Nat
        BY <1>2
      <4> HIDE DEF e
      <4>3. e <= Candidate(p, k)
        BY <4>1, <4>2
      <4> QED BY <4>3 DEF e
    <3>3. CASE j < k - 1
      <4>1. a[j].start + a[j].size <= a[k - 1].start
        BY <3>1, <3>3, <1>9
      <4> HIDE DEF a, n
      <4> QED BY <4>1, <3>1, <1>1, SMTT(30)
    <3> QED BY <2>1, <3>2, <3>3, <1>1
  <2> QED BY <2>1
<1>12. \A j \in 1 .. n : j >= k => Limit(p, k) <= a[j].start
  <2>1. ASSUME NEW j \in 1 .. n, j >= k PROVE Limit(p, k) <= a[j].start
    <3>1. k \in 1 .. n /\ Limit(p, k) = a[k].start
      BY <2>1, <1>1 DEF Limit
    <3>2. CASE j = k
      <4> HIDE DEF a
      <4> QED BY <3>1, <3>2, <1>1
    <3>3. CASE k < j
      <4>1. a[k].start + a[k].size <= a[j].start
        BY <3>1, <3>3, <1>9
      <4> HIDE DEF a, n
      <4> QED BY <4>1, <3>1, <1>1, <1>2
    <3> QED BY <2>1, <3>2, <3>3, <1>1
  <2> QED BY <2>1
<1>13. \A j \in 1 .. n + 1 : /\ p.start <= ins[j].start
                             /\ ins[j].start + ins[j].size <= p.start + p.size
  <2>1. ASSUME NEW j \in 1 .. n + 1
        PROVE  /\ p.start <= ins[j].start
               /\ ins[j].start + ins[j].size <= p.start + p.size
    <3>1. CASE j < k
      <4>1. j \in 1 .. n
        BY <3>1, <1>1
      <4>2. ins[j] = a[j]
        BY <3>1, <1>8
      <4> HIDE DEF ins
      <4> QED BY <4>1, <4>2, <1>9
    <3>2. CASE j = k
      <4>1. ins[j] = b
        BY <3>2, <1>8
      <4> HIDE DEF ins, b
      <4> QED BY <4>1, <1>1, <1>2, <1>10 DEF End
    <3>3. CASE j > k
      <4>1. j - 1 \in 1 .. n
        BY <3>3, <1>1
      <4>2. ins[j] = a[j - 1]
        BY <3>3, <1>8
      <4> HIDE DEF ins
      <4> QED BY <4>1, <4>2, <1>9
    <3> QED BY <3>1, <3>2, <3>3, <1>1
  <2> QED BY <2>1
<1>14. \A i, j \in 1 .. n + 1 : i < j => ins[i].start + ins[i].size <= ins[j].start
  <2>1. ASSUME NEW i \in 1 .. n + 1, NEW j \in 1 .. n + 1, i < j
        PROVE  ins[i].start + ins[i].size <= ins[j].start
    <3>1. CASE j < k
      <4>1. i \in 1 .. n /\ j \in 1 .. n /\ i < k
        BY <2>1, <3>1, <1>1
      <4>2. ins[i] = a[i] /\ ins[j] = a[j]
        BY <3>1, <4>1, <1>8
      <4> HIDE DEF ins
      <4> QED BY <2>1, <4>1, <4>2, <1>9
    <3>2. CASE j = k
      <4>1. i \in 1 .. n /\ i < k
        BY <2>1, <3>2, <1>1
      <4>2. ins[i] = a[i] /\ ins[j] = b
        BY <3>2, <4>1, <1>8
      <4> HIDE DEF ins, b
      <4> QED BY <4>1, <4>2, <1>10, <1>11
    <3>3. CASE j > k /\ i < k
      <4>1. i \in 1 .. n /\ j - 1 \in 1 .. n /\ i < j - 1
        BY <3>3, <1>1
      <4>2. ins[i] = a[i] /\ ins[j] = a[j - 1]
        BY <3>3, <1>8
      <4> HIDE DEF ins
      <4> QED BY <4>1, <4>2, <1>9
    <3>4. CASE j > k /\ i = k
      <4>1. j - 1 \in 1 .. n /\ j - 1 >= k
        BY <3>4, <1>1
      <4>2. ins[i] = b /\ ins[j] = a[j - 1]
        BY <3>4, <1>8
      <4>3. Limit(p, k) <= a[j - 1].start
        BY <4>1, <1>12
      <4>4. a[j - 1].start \in Nat
        BY <4>1, <1>1
      <4>5. b.start + b.size <= a[j - 1].start
        <5> HIDE DEF a, b, n
        <5> QED BY <4>3, <4>4, <1>2, <1>10
      <4> HIDE DEF ins, b
      <4> QED BY <4>2, <4>5
    <3>5. CASE j > k /\ i > k
      <4>1. i - 1 \in 1 .. n /\ j - 1 \in 1 .. n /\ i - 1 < j - 1
        BY <2>1, <3>5, <1>1
      <4>2. ins[i] = a[i - 1] /\ ins[j] = a[j - 1]
        BY <3>5, <1>8
      <4> HIDE DEF ins
      <4> QED BY <4>1, <4>2, <1>9
    <3> QED BY <2>1, <3>1, <3>2, <3>3, <3>4, <3>5, <1>1
  <2> QED BY <2>1
<1> HIDE DEF ins, b, q
<1>15. InOrder(q)
  BY <1>6, <1>7, <1>13, <1>14 DEF InOrder, End
<1>16. Sound(q)
  BY <1>7, <1>9, <1>15 DEF Sound
<1> QED BY <1>16, <1>6, <1>7, <1>8 DEF q, b

\* vector::erase of the k-th block.
LEMMA EraseFacts ==
  ASSUME NEW p, Sound(p), NEW k \in 1 .. Len(p.allocated)
  PROVE  LET q == EraseBlock(p, k)
         IN  /\ Sound(q)
             /\ q.start = p.start /\ q.size = p.size
             /\ Len(q.allocated) = Len(p.allocated) - 1
             /\ \A j \in 1 .. Len(p.allocated) - 1 :
                  q.allocated[j] = IF j < k THEN p.allocated[j]
                                   ELSE p.allocated[j + 1]
<1> DEFINE q == EraseBlock(p, k)
           a == p.allocated
           n == Len(p.allocated)
           era == [j \in 1 .. n - 1 |-> IF j < k THEN a[j] ELSE a[j + 1]]
<1>1. /\ p \in PoolState /\ p.start \in Nat /\ p.size \in Nat /\ n \in Nat
      /\ \A j \in 1 .. n : /\ a[j] \in Block
                           /\ a[j].start \in Nat /\ a[j].size \in Nat
  BY VectorType DEF Sound
<1>2. /\ \A j \in 1 .. n : /\ p.start <= a[j].start
                           /\ a[j].start + a[j].size <= p.start + p.size
      /\ \A i, j \in 1 .. n : i < j => a[i].start + a[i].size <= a[j].start
      /\ p.size < Modulus
  BY DEF Sound, InOrder, End
<1>3. q = [p EXCEPT !.allocated = era]
  BY DEF EraseBlock
<1>4. era \in [1 .. n - 1 -> Block]
  BY <1>1
<1>5. era \in Seq(Block) /\ Len(era) = n - 1
  <2>1. n - 1 \in Nat
    BY <1>1
  <2> HIDE DEF era, n, a
  <2> QED BY <2>1, <1>4, SeqByElements
<1>6. /\ q \in PoolState /\ q.start = p.start /\ q.size = p.size
      /\ q.allocated = era
  <2> HIDE DEF era
  <2> QED BY <1>1, <1>3, <1>5 DEF PoolState
<1>7. \A j \in 1 .. n - 1 : era[j] = IF j < k THEN a[j] ELSE a[j + 1]
  OBVIOUS

\* The j-th block that stays is the i-th block of the old vector.
<1>8. \A j \in 1 .. n - 1 : \E i \in 1 .. n :
        era[j] = a[i] /\ i = IF j < k THEN j ELSE j + 1
  <2>1. ASSUME NEW j \in 1 .. n - 1
        PROVE  \E i \in 1 .. n : era[j] = a[i] /\ i = IF j < k THEN j ELSE j + 1
    <3>1. CASE j < k
      <4>1. j \in 1 .. n /\ era[j] = a[j]
        BY <3>1, <1>1, <1>7
      <4> HIDE DEF era
      <4> QED BY <3>1, <4>1
    <3>2. CASE ~ (j < k)
      <4>1. j + 1 \in 1 .. n /\ era[j] = a[j + 1]
        BY <3>2, <1>1, <1>7
      <4> HIDE DEF era
      <4> QED BY <3>2, <4>1
    <3> QED BY <3>1, <3>2
  <2> QED BY <2>1
<1>9. \A j \in 1 .. n - 1 : /\ p.start <= era[j].start
                            /\ era[j].start + era[j].size <= p.start + p.size
  <2> HIDE DEF era
  <2> QED BY <1>2, <1>8
<1>10. \A i, j \in 1 .. n - 1 : i < j => era[i].start + era[i].size <= era[j].start
  <2>1. ASSUME NEW i \in 1 .. n - 1, NEW j \in 1 .. n - 1, i < j
        PROVE  era[i].start + era[i].size <= era[j].start
    <3>1. PICK x \in 1 .. n : era[i] = a[x] /\ x = IF i < k THEN i ELSE i + 1
      BY <1>8
    <3>2. PICK y \in 1 .. n : era[j] = a[y] /\ y = IF j < k THEN j ELSE j + 1
      BY <1>8
    <3>3. x < y
      BY <2>1, <3>1, <3>2, <1>1
    <3> HIDE DEF era
    <3> QED BY <3>1, <3>2, <3>3, <1>2
  <2> QED BY <2>1
<1> HIDE DEF era, q
<1>11. InOrder(q)
  BY <1>5, <1>6, <1>9, <1>10 DEF InOrder, End
<1>12. Sound(q)
  BY <1>2, <1>6, <1>11 DEF Sound
<1> QED BY <1>12, <1>5, <1>6, <1>7 DEF q

\* The blocks of a pool as a set: one more after an insertion.
LEMMA InsertUsed ==
  ASSUME NEW p, Sound(p), NEW k \in 1 .. Len(p.allocated) + 1,
         NEW size \in Nat, size <= Gap(p, k), p # NULL,
         InsertBlock(p, k, size) # NULL
  PROVE  Used(InsertBlock(p, k, size)) =
           Used(p) \cup {[start |-> Candidate(p, k), size |-> size]}
<1> DEFINE q == InsertBlock(p, k, size)
           b == [start |-> Candidate(p, k), size |-> size]
           a == p.allocated
           n == Len(p.allocated)
<1>1. /\ n \in Nat /\ DOMAIN a = 1 .. n
      /\ Sound(q) /\ Len(q.allocated) = n + 1
      /\ \A j \in 1 .. n + 1 : q.allocated[j] = IF j < k THEN a[j]
                                                ELSE IF j = k THEN b ELSE a[j - 1]
  BY InsertFacts, VectorType DEF Sound
<1>2. DOMAIN q.allocated = 1 .. n + 1
  <2> HIDE DEF q
  <2> QED BY <1>1, VectorType DEF Sound
<1>3. Used(p) = {a[j] : j \in 1 .. n}
  BY <1>1 DEF Used
<1>4. Used(q) = {q.allocated[j] : j \in 1 .. n + 1}
  BY <1>2 DEF Used
<1> HIDE DEF q, b
<1>5. Used(q) \subseteq Used(p) \cup {b}
  <2>1. ASSUME NEW j \in 1 .. n + 1 PROVE q.allocated[j] \in Used(p) \cup {b}
    <3>1. CASE j < k
      <4>1. j \in 1 .. n
        BY <3>1, <1>1
      <4> QED BY <3>1, <4>1, <1>1, <1>3
    <3>2. CASE j = k
      BY <3>2, <1>1
    <3>3. CASE j > k
      <4>1. j - 1 \in 1 .. n
        BY <3>3, <1>1
      <4>2. q.allocated[j] = a[j - 1]
        BY <3>3, <1>1
      <4> QED BY <4>1, <4>2, <1>3
    <3> QED BY <3>1, <3>2, <3>3, <1>1
  <2> QED BY <2>1, <1>4
<1>6. Used(p) \subseteq Used(q)
  <2>1. ASSUME NEW j \in 1 .. n PROVE a[j] \in Used(q)
    <3>1. CASE j < k
      <4>1. j \in 1 .. n + 1 /\ q.allocated[j] = a[j]
        BY <3>1, <1>1
      <4> QED BY <4>1, <1>4
    <3>2. CASE ~ (j < k)
      <4>1. /\ j + 1 \in 1 .. n + 1 /\ ~ (j + 1 < k) /\ j + 1 # k
            /\ (j + 1) - 1 = j
        BY <3>2, <1>1
      <4>2. q.allocated[j + 1] = a[(j + 1) - 1]
        BY <4>1, <1>1
      <4>3. q.allocated[j + 1] = a[j]
        BY <4>1, <4>2
      <4> QED BY <4>1, <4>3, <1>4
    <3> QED BY <3>1, <3>2
  <2> QED BY <2>1, <1>3
<1>7. b \in Used(q)
  <2>1. k \in 1 .. n + 1 /\ q.allocated[k] = b
    BY <1>1
  <2> QED BY <2>1, <1>4
<1> QED BY <1>5, <1>6, <1>7 DEF q, b

\* One less after a removal, when no other block equals the one removed.
LEMMA EraseUsed ==
  ASSUME NEW p, Sound(p), NEW k \in 1 .. Len(p.allocated), p # NULL,
         EraseBlock(p, k) # NULL,
         \A j \in 1 .. Len(p.allocated) :
           p.allocated[j] = p.allocated[k] => j = k
  PROVE  Used(EraseBlock(p, k)) = Used(p) \ {p.allocated[k]}
<1> DEFINE q == EraseBlock(p, k)
           a == p.allocated
           n == Len(p.allocated)
<1>1. /\ n \in Nat /\ DOMAIN a = 1 .. n
      /\ Sound(q) /\ Len(q.allocated) = n - 1
      /\ \A j \in 1 .. n - 1 :
           q.allocated[j] = IF j < k THEN a[j] ELSE a[j + 1]
  BY EraseFacts, VectorType DEF Sound
<1>2. DOMAIN q.allocated = 1 .. n - 1
  <2> HIDE DEF q
  <2> QED BY <1>1, VectorType DEF Sound
<1>3. Used(p) = {a[j] : j \in 1 .. n}
  BY <1>1 DEF Used
<1>4. Used(q) = {q.allocated[j] : j \in 1 .. n - 1}
  BY <1>2 DEF Used
<1> HIDE DEF q
<1>5. Used(q) \subseteq Used(p) \ {a[k]}
  <2>1. ASSUME NEW j \in 1 .. n - 1 PROVE q.allocated[j] \in Used(p) \ {a[k]}
    <3>1. CASE j < k
      <4>1. j \in 1 .. n /\ j # k
        BY <3>1, <1>1
      <4> QED BY <3>1, <4>1, <1>1, <1>3
    <3>2. CASE ~ (j < k)
      <4>1. j + 1 \in 1 .. n /\ j + 1 # k
        BY <3>2, <1>1
      <4>2. q.allocated[j] = a[j + 1]
        BY <3>2, <1>1
      <4> QED BY <4>1, <4>2, <1>3
    <3> QED BY <3>1, <3>2
  <2> QED BY <2>1, <1>4
<1>6. Used(p) \ {a[k]} \subseteq Used(q)
  <2>1. ASSUME NEW j \in 1 .. n, a[j] # a[k] PROVE a[j] \in Used(q)
    <3>1. CASE j < k
      <4>1. j \in 1 .. n - 1 /\ q.allocated[j] = a[j]
        BY <3>1, <1>1
      <4> QED BY <4>1, <1>4
    <3>2. CASE j > k
      <4>1. /\ j - 1 \in 1 .. n - 1 /\ ~ (j - 1 < k) /\ (j - 1) + 1 = j
        BY <3>2, <1>1
      <4>2. q.allocated[j - 1] = a[(j - 1) + 1]
        BY <4>1, <1>1
      <4>3. q.allocated[j - 1] = a[j]
        BY <4>1, <4>2
      <4> QED BY <4>1, <4>3, <1>4
    <3>3. j # k
      BY <2>1
    <3> QED BY <3>1, <3>2, <3>3, <1>1
  <2> QED BY <2>1, <1>3
<1> QED BY <1>5, <1>6 DEF q

-----------------------------------------------------------------------------
(* First fit                                                               *)

\* The least element of a set of naturals, when it has one.
LEMMA LeastFacts ==
  ASSUME NEW S \in SUBSET Nat
  PROVE  /\ S # {} => Least(S) \in S /\ \A j \in S : Least(S) <= j
         /\ \A x \in S : (\A j \in S : x <= j) => Least(S) = x
<1>1. S # {} => \E x \in S : \A j \in S : x <= j
  BY LeastNatural
<1>2. S # {} => Least(S) \in S /\ \A j \in S : Least(S) <= j
  BY <1>1 DEF Least
<1>3. ASSUME NEW x \in S, \A j \in S : x <= j PROVE Least(S) = x
  <2>1. Least(S) \in S /\ Least(S) <= x /\ x <= Least(S)
    BY <1>2, <1>3
  <2>2. Least(S) \in Nat /\ x \in Nat
    BY <2>1
  <2> QED BY <2>1, <2>2
<1> QED BY <1>2, <1>3

\* The space allocate() chooses is one that is long enough, the first.
LEMMA FirstFitFacts ==
  ASSUME NEW p, Sound(p), NEW size \in Nat, Fits(p, size) # {}
  PROVE  /\ FirstFit(p, size) \in 1 .. Len(p.allocated) + 1
         /\ size <= Gap(p, FirstFit(p, size))
         /\ \A j \in Fits(p, size) : FirstFit(p, size) <= j
<1>1. Fits(p, size) \in SUBSET Nat
  BY VectorType DEF Fits, Sound
<1>2. /\ FirstFit(p, size) \in Fits(p, size)
      /\ \A j \in Fits(p, size) : FirstFit(p, size) <= j
  BY <1>1, LeastFacts DEF FirstFit
<1> QED BY <1>2 DEF Fits

\* The spaces come in the order of their addresses.
LEMMA CandidatesInOrder ==
  ASSUME NEW p, Sound(p), NEW j \in 1 .. Len(p.allocated) + 1,
         NEW k \in 1 .. Len(p.allocated) + 1, j <= k
  PROVE  Candidate(p, j) <= Candidate(p, k)
<1>1. /\ p.start \in Nat /\ p.size \in Nat /\ Len(p.allocated) \in Nat
      /\ \A i \in 1 .. Len(p.allocated) : /\ p.allocated[i].start \in Nat
                                          /\ p.allocated[i].size \in Nat
  BY VectorType DEF Sound
<1>2. CASE j = k
  BY <1>2, GapFacts
<1>3. CASE j = 1
  BY <1>3, GapFacts DEF Candidate
<1>4. CASE j # 1 /\ j < k
  <2> DEFINE b == p.allocated[j - 1]
             c == p.allocated[k - 1]
  <2>1. j - 1 \in 1 .. Len(p.allocated) /\ k - 1 \in 1 .. Len(p.allocated) /\ j - 1 < k - 1
    BY <1>4, <1>1
  <2>2. End(b) <= c.start
    BY <2>1 DEF Sound, InOrder
  <2>3. Candidate(p, j) = End(b) /\ Candidate(p, k) = End(c)
    BY <1>4, <1>1 DEF Candidate
  <2>4. c.start \in Nat /\ c.size \in Nat /\ b.start \in Nat /\ b.size \in Nat
    BY <2>1, <1>1
  <2> HIDE DEF b, c
  <2> QED BY <2>2, <2>3, <2>4 DEF End
<1> QED BY <1>1, <1>2, <1>3, <1>4

\* A space that fits is free, from its first address on.
LEMMA FitIsFree ==
  ASSUME NEW p, Sound(p), NEW size \in Nat, NEW k \in Fits(p, size)
  PROVE  Candidate(p, k) \in Addresses(p) /\ Free(p, Candidate(p, k), size)
<1> DEFINE c == Candidate(p, k)
           n == Len(p.allocated)
<1>1. /\ p.start \in Nat /\ p.size \in Nat /\ n \in Nat
      /\ \A i \in 1 .. n : p.allocated[i].start \in Nat /\ p.allocated[i].size \in Nat
  BY VectorType DEF Sound
<1>2. k \in 1 .. n + 1 /\ size <= Gap(p, k)
  BY DEF Fits
<1>3. /\ c \in Nat /\ p.start <= c /\ c + size <= Limit(p, k)
      /\ Limit(p, k) \in Nat /\ Limit(p, k) <= End(p) /\ End(p) \in Nat
  BY <1>1, <1>2, GapFacts DEF End
<1>4. ASSUME NEW j \in 1 .. n
      PROVE  c + size <= p.allocated[j].start \/ End(p.allocated[j]) <= c
  <2>1. CASE j < k
    <3>1. j + 1 \in 1 .. n + 1 /\ j + 1 <= k /\ j + 1 # 1 /\ (j + 1) - 1 = j
      BY <2>1, <1>1, <1>2
    <3>2. Candidate(p, j + 1) = End(p.allocated[j])
      BY <3>1 DEF Candidate
    <3> QED BY <3>1, <3>2, <1>2, CandidatesInOrder
  <2>2. CASE j = k
    <3>1. Limit(p, k) = p.allocated[j].start
      BY <2>2, <1>1 DEF Limit
    <3> QED BY <3>1, <1>3
  <2>3. CASE j > k
    <3>1. k \in 1 .. n /\ Limit(p, k) = p.allocated[k].start
      BY <2>3, <1>1, <1>2 DEF Limit
    <3>2. End(p.allocated[k]) <= p.allocated[j].start
      BY <2>3, <3>1 DEF Sound, InOrder
    <3>3. /\ p.allocated[k].start \in Nat /\ p.allocated[k].size \in Nat
          /\ p.allocated[j].start \in Nat
      BY <3>1, <1>1
    <3> HIDE DEF c
    <3> QED BY <3>1, <3>2, <3>3, <1>3, SMTT(30) DEF End
  <2> QED BY <2>1, <2>2, <2>3, <1>1, <1>2
<1> HIDE DEF c
<1>5. c \in p.start .. End(p) /\ c + size <= End(p)
  BY <1>1, <1>3
<1> QED BY <1>3, <1>4, <1>5 DEF Free, Addresses, c

\* A free range lies in a space, so that space fits and starts no later.
LEMMA FreeIsFit ==
  ASSUME NEW p, Sound(p), NEW size \in Nat,
         NEW a \in Addresses(p), Free(p, a, size)
  PROVE  \E k \in Fits(p, size) : Candidate(p, k) <= a
<1> DEFINE n == Len(p.allocated)
           After == {j \in 1 .. n + 1 : \/ j = n + 1
                                        \/ a + size <= p.allocated[j].start}
<1>1. /\ p.start \in Nat /\ p.size \in Nat /\ n \in Nat
      /\ \A i \in 1 .. n : p.allocated[i].start \in Nat /\ p.allocated[i].size \in Nat
  BY VectorType DEF Sound
<1>2. a \in Nat /\ p.start <= a /\ a + size <= End(p)
  BY <1>1 DEF Addresses, Free, End
<1>3. n + 1 \in After /\ After \in SUBSET Nat
  BY <1>1
<1>4. PICK k \in After : \A j \in After : k <= j
  <2> HIDE DEF After
  <2> QED BY <1>3, LeastNatural
<1>5. k \in 1 .. n + 1 /\ (k = n + 1 \/ a + size <= p.allocated[k].start)
  OBVIOUS
<1>6. a + size <= Limit(p, k)
  BY <1>2, <1>5 DEF Limit
<1>7. Candidate(p, k) <= a
  <2>1. CASE k = 1
    BY <2>1, <1>2 DEF Candidate
  <2>2. CASE k # 1
    <3>1. k - 1 \in 1 .. n
      BY <2>2, <1>1, <1>5
    <3>2. k - 1 \notin After
      <4>1. ~ (k <= k - 1)
        BY <1>1, <1>5
      <4> HIDE DEF After
      <4> QED BY <4>1, <1>4
    <3>3. ~ (a + size <= p.allocated[k - 1].start)
      BY <3>1, <3>2, <1>1
    <3>4. End(p.allocated[k - 1]) <= a
      BY <3>1, <3>3 DEF Free
    <3> QED BY <3>4, <2>2 DEF Candidate
  <2> QED BY <2>1, <2>2
<1>8. size <= Gap(p, k)
  BY <1>2, <1>5, <1>6, <1>7, GapFacts
<1> QED BY <1>5, <1>7, <1>8 DEF Fits

\* allocate() of a sound pool does what the reference says, for every size.
LEMMA FitsReference ==
  ASSUME NEW p, Sound(p), NEW size \in Nat
  PROVE  LET Spots == {a \in Addresses(p) : Free(p, a, size)}
         IN  IF Fits(p, size) = {} THEN Spots = {}
             ELSE /\ Spots # {}
                  /\ Candidate(p, FirstFit(p, size)) = Least(Spots)
<1> DEFINE Spots == {a \in Addresses(p) : Free(p, a, size)}
<1>1. CASE Fits(p, size) = {}
  BY <1>1, FreeIsFit
<1>2. CASE Fits(p, size) # {}
  <2> DEFINE k == FirstFit(p, size)
             c == Candidate(p, k)
  <2>1. /\ k \in 1 .. Len(p.allocated) + 1 /\ size <= Gap(p, k)
        /\ \A j \in Fits(p, size) : k <= j
    BY <1>2, FirstFitFacts
  <2>2. c \in Spots
    <3> HIDE DEF k
    <3> QED BY <2>1, FitIsFree DEF Fits
  <2>3. ASSUME NEW a \in Spots PROVE c <= a
    <3>1. PICK j \in Fits(p, size) : Candidate(p, j) <= a
      BY FreeIsFit
    <3>2. j \in 1 .. Len(p.allocated) + 1 /\ k <= j
      BY <2>1 DEF Fits
    <3>3. c <= Candidate(p, j)
      <4> HIDE DEF k
      <4> QED BY <2>1, <3>2, CandidatesInOrder
    <3>4. c \in Nat /\ Candidate(p, j) \in Nat
      <4> HIDE DEF k
      <4> QED BY <2>1, <3>2, GapFacts
    <3>5. a \in Nat
      BY VectorType DEF Addresses, End, Sound
    <3> HIDE DEF c
    <3> QED BY <3>1, <3>3, <3>4, <3>5
  <2>4. Spots \in SUBSET Nat
    BY VectorType DEF Addresses, End, Sound
  <2> HIDE DEF Spots, c
  <2>5. c = Least(Spots)
    BY <2>2, <2>3, <2>4, LeastFacts
  <2> QED BY <1>2, <2>2, <2>5 DEF Spots, c
<1> QED BY <1>1, <1>2

-----------------------------------------------------------------------------
(* The number of free bytes                                                *)

\* The loop of CountFree over the first n blocks of a vector.
SumLoop(sum, a, n) ==
  [k \in 0 .. n |-> IF k = 0 THEN 0 ELSE sum[k - 1] + a[k].size]

\* It is a function: it has a value after every round.
LEMMA SumLoopExists ==
  ASSUME NEW a, NEW n \in Nat
  PROVE  \E sum : sum = SumLoop(sum, a, n)
<1> DEFINE Inv == {k \in 0 .. n : \E f : f = SumLoop(f, a, k)}
<1>1. 0 \in Inv
  <2>1. [k \in 0 .. 0 |-> 0] = SumLoop([k \in 0 .. 0 |-> 0], a, 0)
    BY DEF SumLoop
  <2> QED BY <2>1
<1>2. ASSUME NEW k \in 0 .. n - 1, k \in Inv PROVE k + 1 \in Inv
  <2>1. PICK f : f = SumLoop(f, a, k)
    BY <1>2
  <2> DEFINE g == [i \in 0 .. k + 1 |->
                     IF i = k + 1 THEN f[k] + a[i].size ELSE f[i]]
  <2>2. ASSUME NEW i \in 0 .. k + 1
        PROVE  g[i] = SumLoop(g, a, k + 1)[i]
    <3>1. CASE i = k + 1
      BY <3>1 DEF SumLoop
    <3>2. CASE i # k + 1
      <4>1. i \in 0 .. k
        BY <3>2
      <4>2. f[i] = SumLoop(f, a, k)[i]
        BY <2>1
      <4>3. i = 0 \/ (i - 1 \in 0 .. k /\ i - 1 # k + 1)
        BY <4>1
      <4> QED BY <4>1, <4>2, <4>3, <3>2 DEF SumLoop
    <3> QED BY <3>1, <3>2
  <2>3. g = SumLoop(g, a, k + 1)
    BY <2>2 DEF SumLoop
  <2>4. k + 1 \in 0 .. n
    OBVIOUS
  <2> HIDE DEF g
  <2> QED BY <2>3, <2>4
<1>3. n \in Inv
  <2> HIDE DEF Inv
  <2> QED BY <1>1, <1>2, Rounds
<1> QED BY <1>3

\* VMMemoryPoolQuery of a sound pool counts the bytes outside of its blocks:
\* since the blocks do not meet, the sum of their sizes is their number of
\* bytes.
LEMMA CountReference ==
  ASSUME NEW p, Sound(p)
  PROVE  CountFree(p) = Cardinality({a \in p.start .. End(p) - 1 : Free(p, a, 1)})
<1> DEFINE n == Len(p.allocated)
           v == p.allocated
           All == p.start .. End(p) - 1
           Bytes(j) == v[j].start .. End(v[j]) - 1
           Taken(k) == {a \in All : \E j \in 1 .. k : a \in Bytes(j)}
           sum == CHOOSE f : f = SumLoop(f, v, n)
<1>1. /\ p.start \in Nat /\ p.size \in Nat /\ n \in Nat
      /\ \A j \in 1 .. n : v[j].start \in Nat /\ v[j].size \in Nat
  BY VectorType DEF Sound
<1>2. /\ \A j \in 1 .. n : /\ p.start <= v[j].start
                           /\ v[j].start + v[j].size <= p.start + p.size
      /\ \A i, j \in 1 .. n : i < j => v[i].start + v[i].size <= v[j].start
  BY DEF Sound, InOrder, End
<1>3. sum = SumLoop(sum, v, n)
  <2> HIDE DEF n, v
  <2> QED BY <1>1, SumLoopExists
<1>4. CountFree(p) = p.size - sum[n]
  BY DEF CountFree, SumLoop
<1> HIDE DEF sum
<1>5. sum[0] = 0 /\ \A k \in 1 .. n : sum[k] = sum[k - 1] + v[k].size
  <2>1. \A k \in 0 .. n :
          SumLoop(sum, v, n)[k] = IF k = 0 THEN 0 ELSE sum[k - 1] + v[k].size
    BY DEF SumLoop
  <2>2. \A k \in 0 .. n : sum[k] = IF k = 0 THEN 0 ELSE sum[k - 1] + v[k].size
    BY <2>1, <1>3
  <2> HIDE DEF n, v
  <2> QED BY <1>1, <2>2
<1>6. \A j \in 1 .. n : /\ IsFiniteSet(Bytes(j))
                        /\ Cardinality(Bytes(j)) = v[j].size
                        /\ Bytes(j) \subseteq All
  <2>1. ASSUME NEW j \in 1 .. n
        PROVE  /\ IsFiniteSet(Bytes(j))
               /\ Cardinality(Bytes(j)) = v[j].size
               /\ Bytes(j) \subseteq All
    <3>1. v[j].start \in Int /\ End(v[j]) - 1 \in Int
      BY <1>1 DEF End
    <3>2. /\ IsFiniteSet(Bytes(j))
          /\ Cardinality(Bytes(j)) = IF v[j].start > End(v[j]) - 1 THEN 0
                                     ELSE (End(v[j]) - 1) - v[j].start + 1
      BY <3>1, FS_Interval
    <3>3. (IF v[j].start > End(v[j]) - 1 THEN 0
           ELSE (End(v[j]) - 1) - v[j].start + 1) = v[j].size
      BY <1>1 DEF End
    <3>4. Bytes(j) \subseteq All
      <4>1. SUFFICES ASSUME NEW a \in Bytes(j) PROVE a \in All
        OBVIOUS
      <4>2. /\ v[j].start \in Nat /\ v[j].size \in Nat
            /\ p.start <= v[j].start
            /\ v[j].start + v[j].size <= p.start + p.size
        BY <1>1, <1>2
      <4>3. a \in Int /\ v[j].start <= a /\ a <= v[j].start + v[j].size - 1
        BY <4>2 DEF End
      <4>4. p.start <= a /\ a <= p.start + p.size - 1 /\ p.start + p.size \in Int
        <5> HIDE DEF v, n
        <5> QED BY <4>2, <4>3, <1>1
      <4> QED BY <4>3, <4>4, <1>1 DEF End
    <3> QED BY <3>2, <3>3, <3>4
  <2> QED BY <2>1
<1> DEFINE Inv == {k \in 0 .. n : /\ sum[k] \in Nat
                                  /\ IsFiniteSet(Taken(k))
                                  /\ Cardinality(Taken(k)) = sum[k]}
<1>7. 0 \in Inv
  <2>1. Taken(0) = {}
    OBVIOUS
  <2> HIDE DEF Taken
  <2>2. /\ sum[0] \in Nat /\ IsFiniteSet(Taken(0))
        /\ Cardinality(Taken(0)) = sum[0]
    <3>1. IsFiniteSet({}) /\ Cardinality({}) = 0
      BY FS_EmptySet
    <3>2. sum[0] = 0
      BY <1>5
    <3> QED BY <2>1, <3>1, <3>2
  <2> QED BY <2>2, <1>1
<1>8. ASSUME NEW k \in 0 .. n - 1, k \in Inv PROVE k + 1 \in Inv
  <2>1. k + 1 \in 1 .. n /\ (k + 1) - 1 = k
    BY <1>1
  <2>2. Taken(k + 1) = Taken(k) \cup Bytes(k + 1)
    <3>1. Bytes(k + 1) \subseteq All
      BY <2>1, <1>6
    <3>2. 1 .. k + 1 = (1 .. k) \cup {k + 1}
      BY <2>1
    <3> HIDE DEF Bytes, All
    <3> QED BY <3>1, <3>2
  <2>3. Taken(k) \cap Bytes(k + 1) = {}
    <3>1. SUFFICES ASSUME NEW a \in Taken(k), a \in Bytes(k + 1) PROVE FALSE
      OBVIOUS
    <3>2. PICK j \in 1 .. k : a \in Bytes(j)
      OBVIOUS
    <3>3. j \in 1 .. n /\ j < k + 1
      BY <2>1
    <3>4. v[j].start + v[j].size <= v[k + 1].start
      BY <3>3, <2>1, <1>2
    <3>5. v[j].start \in Nat /\ v[j].size \in Nat /\ v[k + 1].start \in Nat
      BY <3>3, <2>1, <1>1
    <3>6. a < v[j].start + v[j].size /\ v[k + 1].start <= a /\ a \in Int
      BY <3>1, <3>2, <3>5 DEF End
    <3> QED BY <3>4, <3>5, <3>6, SMTT(30)
  <2>4. /\ sum[k] \in Nat /\ IsFiniteSet(Taken(k))
        /\ Cardinality(Taken(k)) = sum[k]
    BY <1>8
  <2>5. /\ IsFiniteSet(Bytes(k + 1)) /\ v[k + 1].size \in Nat
        /\ Cardinality(Bytes(k + 1)) = v[k + 1].size
    BY <2>1, <1>1, <1>6
  <2>6. sum[k + 1] = sum[k] + v[k + 1].size
    BY <2>1, <1>5
  <2> HIDE DEF Taken, Bytes
  <2>7. /\ IsFiniteSet(Taken(k + 1))
        /\ Cardinality(Taken(k + 1)) =
             Cardinality(Taken(k)) + Cardinality(Bytes(k + 1)) - Cardinality({})
    BY <2>2, <2>3, <2>4, <2>5, FS_Union, SMTT(30)
  <2>8. Cardinality({}) = 0
    BY FS_EmptySet
  <2> QED BY <2>1, <2>4, <2>5, <2>6, <2>7, <2>8
<1>9. n \in Inv
  <2> HIDE DEF Inv, n
  <2> QED BY <1>1, <1>7, <1>8, Rounds
<1>10. {a \in All : Free(p, a, 1)} = All \ Taken(n)
  <2>1. ASSUME NEW a \in All
        PROVE  Free(p, a, 1) <=> a \notin Taken(n)
    <3>1. a \in Int /\ p.start <= a /\ a + 1 <= End(p)
      BY <1>1 DEF End
    <3>2. ASSUME NEW j \in 1 .. n
          PROVE  (a + 1 <= v[j].start \/ End(v[j]) <= a) <=> a \notin Bytes(j)
      BY <3>1, <1>1 DEF End
    <3> HIDE DEF Bytes
    <3> QED BY <3>1, <3>2 DEF Free
  <2> HIDE DEF Taken
  <2> QED BY <2>1
<1>11. IsFiniteSet(All) /\ Cardinality(All) = p.size
  <2>1. p.start \in Int /\ End(p) - 1 \in Int
    BY <1>1 DEF End
  <2>2. /\ IsFiniteSet(All)
        /\ Cardinality(All) = IF p.start > End(p) - 1 THEN 0
                              ELSE (End(p) - 1) - p.start + 1
    BY <2>1, FS_Interval
  <2>3. (IF p.start > End(p) - 1 THEN 0 ELSE (End(p) - 1) - p.start + 1) = p.size
    BY <1>1 DEF End
  <2> QED BY <2>2, <2>3
<1>12. Taken(n) \subseteq All /\ All \cap Taken(n) = Taken(n)
  OBVIOUS
<1>13. Cardinality(Taken(n)) = sum[n]
  BY <1>9
<1> HIDE DEF Taken, All
<1>14. Cardinality(All \ Taken(n)) = Cardinality(All) - Cardinality(All \cap Taken(n))
  BY <1>11, FS_Difference
<1>15. CountFree(p) = Cardinality(All \ Taken(n))
  BY <1>4, <1>11, <1>12, <1>13, <1>14
<1> QED BY <1>10, <1>15 DEF All

-----------------------------------------------------------------------------
(* The inductive invariant                                                 *)

\* What holds for every size: the pools are sound, and no size exceeds what an
\* unsigned int holds.
Kept ==
  /\ TypeOK
  /\ \A i \in Pool : Live(i) => Sound(pools[i])
  /\ \A c \in claims : c.size < Modulus

\* What the claims say needs sizes that rounding up does not wrap to zero: all
\* but the largest Align - 1.
NoneWraps == \A n \in Request : n <= Modulus - Align

\* Each claim has a block of its own in a live pool.
Placed(c) ==
  \E k \in 1 .. Len(pools[c.pool].allocated) :
    pools[c.pool].allocated[k] = [start |-> c.start, size |-> RoundUp(c.size)]

ClaimsPlaced ==
  /\ \A c \in claims :
       /\ Live(c.pool) /\ Placed(c)
       /\ c.size > 0 /\ c.size <= Modulus - Align
  /\ \A c, d \in claims : c.pool = d.pool /\ c.start = d.start => c = d

NoEmptyBlock ==
  \A i \in Pool : Live(i) =>
    \A k \in 1 .. Len(pools[i].allocated) : pools[i].allocated[k].size > 0

\* Each pool but the two of the machine fills one claim, in an older pool.
PoolsClaimed ==
  /\ \A c \in claims : c.use \in Pool =>
       /\ c.use > SharedID /\ c.pool < c.use /\ Live(c.use)
       /\ pools[c.use].start = c.start /\ pools[c.use].size = c.size
  /\ \A c, d \in claims : c.use \in Pool /\ c.use = d.use => c = d
  /\ \A i \in Pool : Live(i) /\ i > SharedID => \E c \in claims : c.use = i

\* The pools of the machine stay where they are; the stack of idle, which
\* nobody gives back, keeps the heap from being deleted.
MachinePools ==
  /\ Live(HeapID) /\ pools[HeapID].start = Heap.start /\ pools[HeapID].size = Heap.size
  /\ Live(SharedID)
  /\ pools[SharedID].start = Shared.start /\ pools[SharedID].size = Shared.size
  /\ \E c \in claims : c.pool = HeapID /\ c.use = Stack

Inside(c, d) == d.start <= c.start /\ End(c) <= End(d)

\* How a claim lies to a pool: in one of the pool's blocks that became a pool
\* no younger than the claim's own; or around the pool, as one of the ranges it
\* was made in.
Beneath(c, i) ==
  \E d \in claims : /\ d.pool = i /\ d.use \in Pool /\ d.use <= c.pool
                    /\ Inside(c, d)
Around(c, i) == c.use \in Pool /\ c.use <= i /\ Inside(pools[i], c)

Lies(c, i) == c.pool = i \/ Beneath(c, i) \/ Apart(c, pools[i]) \/ Around(c, i)

Nested == \A c \in claims : \A i \in Pool : Live(i) => Lies(c, i)

IInv ==
  /\ Kept
  /\ ClaimsPlaced /\ NoEmptyBlock /\ PoolsClaimed /\ MachinePools /\ Nested

-----------------------------------------------------------------------------
(* Soundness of the pools, for every size                                  *)

\* The assumptions on the constants, as numbers.
LEMMA PoolNumbers ==
  /\ Align \in Nat /\ Align > 0 /\ Modulus \in Nat /\ Align < Modulus
  /\ MaxPools \in Nat /\ MaxPools >= 2
  /\ Heap.start \in Nat /\ Heap.size \in Nat /\ Heap.size < Modulus
  /\ Shared.start \in Nat /\ Shared.size \in Nat /\ Shared.size < Modulus
  /\ Heap.start + Heap.size <= Shared.start
  /\ StackSize \in Nat /\ StackSize > 0 /\ StackSize + Align <= Heap.size
  /\ NULL \notin PoolState /\ NULL \notin Block
  /\ Pool = 0 .. MaxPools - 1 /\ HeapID \in Pool /\ SharedID \in Pool
  /\ HeapID = 0 /\ SharedID = 1
BY PoolAssumption DEF PoolState, Block, Pool, HeapID, SharedID

\* A live pool is a record, sound and with an identifier below idInc.
LEMMA LivePool ==
  ASSUME Kept, NEW i \in Pool
  PROVE  /\ Live(i) <=> pools[i] \in PoolState
         /\ Live(i) => Sound(pools[i]) /\ i < idInc
<1>1. pools[i] \in PoolState \cup {NULL}
  BY DEF Kept, TypeOK, PoolState
<1>2. Live(i) <=> pools[i] \in PoolState
  BY <1>1, PoolNumbers DEF Live
<1>3. Live(i) => i < idInc
  BY PoolNumbers DEF Kept, TypeOK, Live
<1> QED BY <1>2, <1>3 DEF Kept

\* The block that allocate() inserts.
LEMMA Allocated ==
  ASSUME Kept, NEW i \in Pool, Live(i), NEW size \in Nat,
         Fits(pools[i], size) # {}
  PROVE  LET k == FirstFit(pools[i], size)
         IN  /\ k \in 1 .. Len(pools[i].allocated) + 1
             /\ size <= Gap(pools[i], k)
             /\ Candidate(pools[i], k) \in Nat
             /\ Sound(InsertBlock(pools[i], k, size))
<1> DEFINE p == pools[i]
           k == FirstFit(p, size)
<1>1. Sound(p)
  BY LivePool
<1> HIDE DEF p
<1>2. k \in 1 .. Len(p.allocated) + 1 /\ size <= Gap(p, k)
  BY <1>1, FirstFitFacts DEF p
<1> HIDE DEF k
<1>3. Sound(InsertBlock(p, k, size)) /\ Candidate(p, k) \in Nat
  BY <1>1, <1>2, InsertFacts, GapFacts
<1> QED BY <1>2, <1>3 DEF p, k

\* A step that replaces one pool by a sound one.
LEMMA ReplaceKept ==
  ASSUME Kept, NEW i \in Pool, NEW q, Sound(q), i < idInc',
         pools' = [pools EXCEPT ![i] = q], idInc' \in idInc .. MaxPools,
         \A c \in claims' : /\ c \in [pool : Pool, start : Nat, size : Nat,
                                      use : Pool \cup {Data, Stack}]
                            /\ c.size < Modulus
  PROVE  Kept'
<1>1. /\ pools \in [Pool -> PoolState \cup {NULL}] /\ idInc \in 2 .. MaxPools
      /\ \A j \in idInc .. MaxPools - 1 : pools[j] = NULL
  BY DEF Kept, TypeOK, PoolState
<1>2. pools' \in [Pool -> PoolState \cup {NULL}]
  BY <1>1 DEF Sound
<1>3. idInc' \in 2 .. MaxPools
  BY <1>1, PoolNumbers
<1>4. \A j \in idInc' .. MaxPools - 1 : pools'[j] = NULL
  BY <1>1, PoolNumbers
<1>5. TypeOK'
  BY <1>2, <1>3, <1>4 DEF TypeOK, PoolState
<1>6. \A j \in Pool : pools'[j] # NULL => Sound(pools'[j])
  BY <1>1 DEF Kept, Live
<1>7. \A j \in Pool : Live(j)' => Sound(pools[j])'
  BY <1>6 DEF Live
<1> QED BY <1>5, <1>7 DEF Kept

\* The heap as VMStart makes it: the stack of idle is its first block.
FreshHeap == [start |-> Heap.start, size |-> Heap.size, allocated |-> << >>]

FirstHeap == InsertBlock(FreshHeap, 1, RoundUp(StackSize))

FreshShared ==
  [start |-> Shared.start, size |-> Shared.size, allocated |-> << >>]

\* The two pools that VMStart makes, and the block of the heap for idle's
\* stack.
LEMMA HeapFacts ==
  /\ Sound(FirstHeap) /\ Sound(FreshShared)
  /\ FirstHeap.start = Heap.start /\ FirstHeap.size = Heap.size
  /\ Len(FirstHeap.allocated) = 1
  /\ FirstHeap.allocated[1] =
       [start |-> Heap.start, size |-> RoundUp(StackSize)]
  /\ RoundUp(StackSize) \in Nat /\ StackSize <= RoundUp(StackSize)
<1> DEFINE e == FreshHeap
           r == RoundUp(StackSize)
<1>1. << >> \in Seq(Block) /\ Len(<< >>) = 0
  BY EmptySeq
<1>2. e \in PoolState /\ FreshShared \in PoolState
  BY <1>1, PoolNumbers DEF PoolState, FreshHeap, FreshShared
<1>3. Sound(e) /\ Sound(FreshShared)
  BY <1>1, <1>2, PoolNumbers DEF Sound, InOrder, FreshHeap, FreshShared
<1>4. e.start = Heap.start /\ e.size = Heap.size /\ Len(e.allocated) = 0
  BY <1>1 DEF FreshHeap
<1> HIDE DEF e
<1>5. r \in Nat /\ r <= Heap.size /\ StackSize <= r
  <2>1. /\ StackSize \in Nat /\ StackSize < Modulus
        /\ StackSize <= Modulus - Align
    BY PoolNumbers
  <2>2. r \in Nat /\ r < StackSize + Align /\ StackSize <= r
    BY <2>1, RoundUpFacts
  <2> QED BY <2>1, <2>2, PoolNumbers
<1> HIDE DEF r
<1>6. 1 \in 1 .. Len(e.allocated) + 1 /\ Candidate(e, 1) = Heap.start
  BY <1>4 DEF Candidate
<1>7. r <= Gap(e, 1)
  <2>1. Gap(e, 1) = Limit(e, 1) - Candidate(e, 1)
    BY <1>3, <1>6, GapFacts
  <2>2. Limit(e, 1) = Heap.start + Heap.size
    BY <1>4 DEF Limit, End
  <2> QED BY <1>5, <1>6, <2>1, <2>2, PoolNumbers
<1> DEFINE h == InsertBlock(e, 1, r)
<1>8. /\ Sound(h) /\ h.start = Heap.start /\ h.size = Heap.size
      /\ Len(h.allocated) = Len(e.allocated) + 1
      /\ \A j \in 1 .. Len(e.allocated) + 1 :
           h.allocated[j] = IF j < 1 THEN e.allocated[j]
                            ELSE IF j = 1 THEN [start |-> Candidate(e, 1), size |-> r]
                            ELSE e.allocated[j - 1]
  <2>1. ASSUME NEW k, k = 1
        PROVE  LET q == InsertBlock(e, k, r)
                   b == [start |-> Candidate(e, k), size |-> r]
               IN  /\ Sound(q)
                   /\ q.start = e.start /\ q.size = e.size
                   /\ Len(q.allocated) = Len(e.allocated) + 1
                   /\ \A j \in 1 .. Len(e.allocated) + 1 :
                        q.allocated[j] = IF j < k THEN e.allocated[j]
                                         ELSE IF j = k THEN b
                                         ELSE e.allocated[j - 1]
    BY <2>1, <1>3, <1>5, <1>6, <1>7, InsertFacts
  <2> QED BY <2>1, <1>4
<1> HIDE DEF h
<1>9. Len(h.allocated) = 1
  BY <1>4, <1>8
<1>10. h.allocated[1] = [start |-> Heap.start, size |-> r]
  BY <1>6, <1>8
<1> QED BY <1>3, <1>5, <1>8, <1>9, <1>10 DEF h, e, r, FirstHeap

\* The pools after VMStart.
LEMMA FirstPools ==
  ASSUME Init
  PROVE  /\ pools = [i \in Pool |-> IF i = HeapID THEN FirstHeap
                                    ELSE IF i = SharedID THEN FreshShared
                                    ELSE NULL]
         /\ FirstHeap # NULL /\ FreshShared # NULL
BY HeapFacts, PoolNumbers DEF Init, FirstHeap, FreshHeap, FreshShared, Sound

\* VMStart makes sound pools.
LEMMA InitKept == Init => Kept
<1> SUFFICES ASSUME Init PROVE Kept
  OBVIOUS
<1>1. pools \in [Pool -> PoolState \cup {NULL}]
  BY FirstPools, HeapFacts DEF Sound
<1>2. \A i \in Pool : Live(i) => Sound(pools[i])
  BY FirstPools, HeapFacts DEF Live
<1>3. idInc = 2 /\ \A i \in 2 .. MaxPools - 1 : pools[i] = NULL
  BY FirstPools, PoolNumbers DEF Init
<1>4. \A c \in claims : /\ c \in [pool : Pool, start : Nat, size : Nat,
                                  use : Pool \cup {Data, Stack}]
                        /\ c.size < Modulus
  BY PoolNumbers DEF Init
<1>5. TypeOK
  BY <1>1, <1>3, <1>4, PoolNumbers DEF TypeOK, PoolState
<1> QED BY <1>2, <1>4, <1>5 DEF Kept

\* Every pool function leaves every pool sound.
LEMMA StepKept == Kept /\ [Next]_vars => Kept'
<1> SUFFICES ASSUME Kept, [Next]_vars PROVE Kept'
  OBVIOUS
<1>1. \A c \in claims : /\ c \in [pool : Pool, start : Nat, size : Nat,
                                  use : Pool \cup {Data, Stack}]
                        /\ c.size < Modulus
  BY DEF Kept, TypeOK
<1>2. idInc \in 2 .. MaxPools
  BY DEF Kept, TypeOK
<1>3. ASSUME NEW i \in Pool, NEW size \in Request, Allocate(i, size) PROVE Kept'
  <2> DEFINE r == RoundUp(size)
             k == FirstFit(pools[i], r)
             q == InsertBlock(pools[i], k, r)
             c == [pool |-> i, start |-> Candidate(pools[i], k), size |-> size,
                   use |-> Data]
  <2>1. size \in Nat /\ size < Modulus
    BY PoolAssumption
  <2>2. r \in Nat
    BY <2>1, RoundUpFacts
  <2>3. /\ Live(i) /\ Fits(pools[i], r) # {} /\ idInc' = idInc
        /\ pools' = [pools EXCEPT ![i] = q] /\ claims' = claims \cup {c}
    BY <1>3 DEF Allocate
  <2> HIDE DEF r
  <2>4. Sound(q) /\ Candidate(pools[i], k) \in Nat
    BY <2>2, <2>3, Allocated
  <2>5. i < idInc
    BY <2>3, LivePool
  <2>6. c \in [pool : Pool, start : Nat, size : Nat, use : Pool \cup {Data, Stack}]
    <3> HIDE DEF k
    <3> QED BY <2>1, <2>4
  <2>7. c.size = size
    OBVIOUS
  <2> HIDE DEF q, c
  <2>8. \A d \in claims' : /\ d \in [pool : Pool, start : Nat, size : Nat,
                                     use : Pool \cup {Data, Stack}]
                           /\ d.size < Modulus
    BY <1>1, <2>1, <2>3, <2>6, <2>7
  <2>9. i < idInc' /\ idInc' \in idInc .. MaxPools
    BY <1>2, <2>3, <2>5
  <2> QED BY <2>3, <2>4, <2>8, <2>9, ReplaceKept
<1>4. ASSUME NEW c \in claims, Deallocate(c) PROVE Kept'
  <2> DEFINE i == c.pool
             k == Least(At(pools[i], c.start))
             q == EraseBlock(pools[i], k)
  <2>1. i \in Pool
    BY <1>1
  <2>2. /\ Live(i) /\ At(pools[i], c.start) # {} /\ idInc' = idInc
        /\ pools' = [pools EXCEPT ![i] = q] /\ claims' = claims \ {c}
    BY <1>4 DEF Deallocate
  <2>3. Sound(pools[i]) /\ i < idInc
    BY <2>1, <2>2, LivePool
  <2>4. At(pools[i], c.start) \in SUBSET Nat
    BY DEF At
  <2>5. k \in At(pools[i], c.start)
    BY <2>2, <2>4, LeastFacts
  <2>6. k \in 1 .. Len(pools[i].allocated)
    BY <2>5 DEF At
  <2>7. Sound(q)
    <3> HIDE DEF k, i
    <3> QED BY <2>3, <2>6, EraseFacts
  <2>8. i < idInc' /\ idInc' \in idInc .. MaxPools
    BY <1>2, <2>2, <2>3
  <2> HIDE DEF i, q
  <2> QED BY <1>1, <2>1, <2>2, <2>7, <2>8, ReplaceKept
<1>5. ASSUME NEW c \in claims, Create(c) PROVE Kept'
  <2> DEFINE q == [start |-> c.start, size |-> c.size, allocated |-> << >>]
             n == idInc
  <2>1. /\ n < MaxPools /\ pools' = [pools EXCEPT ![n] = q] /\ idInc' = n + 1
        /\ claims' = (claims \ {c}) \cup {[c EXCEPT !.use = n]}
    BY <1>5 DEF Create
  <2>2. n \in Pool /\ n < idInc' /\ idInc' \in idInc .. MaxPools
    BY <1>2, <2>1, PoolNumbers, SMTT(30)
  <2>3. << >> \in Seq(Block) /\ Len(<< >>) = 0
    BY EmptySeq
  <2>4. q \in PoolState /\ q.size < Modulus
    BY <1>1, <2>3 DEF PoolState
  <2>5. Sound(q)
    BY <2>3, <2>4 DEF Sound, InOrder
  <2>6. /\ [c EXCEPT !.use = n] \in [pool : Pool, start : Nat, size : Nat,
                                     use : Pool \cup {Data, Stack}]
        /\ [c EXCEPT !.use = n].size < Modulus
    BY <1>1, <2>2
  <2>7. \A d \in claims' : /\ d \in [pool : Pool, start : Nat, size : Nat,
                                     use : Pool \cup {Data, Stack}]
                           /\ d.size < Modulus
    BY <1>1, <2>1, <2>6
  <2> HIDE DEF q
  <2> QED BY <2>1, <2>2, <2>5, <2>7, ReplaceKept
<1>6. ASSUME NEW i \in Pool, Delete(i) PROVE Kept'
  <2>1. /\ pools' = [pools EXCEPT ![i] = NULL] /\ idInc' = idInc
        /\ claims' = {Reclaimed(i, c) : c \in claims}
    BY <1>6 DEF Delete
  <2>2. /\ pools \in [Pool -> PoolState \cup {NULL}]
        /\ \A j \in idInc .. MaxPools - 1 : pools[j] = NULL
    BY DEF Kept, TypeOK, PoolState
  <2>3. \A d \in claims' : /\ d \in [pool : Pool, start : Nat, size : Nat,
                                     use : Pool \cup {Data, Stack}]
                           /\ d.size < Modulus
    BY <1>1, <2>1 DEF Reclaimed
  <2>4. pools' \in [Pool -> PoolState \cup {NULL}]
    BY <2>1, <2>2
  <2>5. \A j \in idInc' .. MaxPools - 1 : pools'[j] = NULL
    BY <2>1, <2>2, <1>2, PoolNumbers
  <2>6. TypeOK'
    BY <1>2, <2>1, <2>3, <2>4, <2>5 DEF TypeOK, PoolState
  <2>7. \A j \in Pool : pools'[j] # NULL => Sound(pools'[j])
    BY <2>1, <2>2 DEF Kept, Live
  <2>8. \A j \in Pool : Live(j)' => Sound(pools[j])'
    BY <2>7 DEF Live
  <2> QED BY <2>3, <2>6, <2>8 DEF Kept
<1>7. CASE UNCHANGED vars
  BY <1>7 DEF vars, Kept, TypeOK, Live
<1> QED BY <1>3, <1>4, <1>5, <1>6, <1>7 DEF Next

-----------------------------------------------------------------------------
(* Ranges                                                                  *)

IsRange(r) == r.start \in Nat /\ r.size \in Nat

\* Ranges inside one another, and apart.
LEMMA RangeFacts ==
  ASSUME NEW r, NEW s, NEW t, IsRange(r), IsRange(s), IsRange(t)
  PROVE  /\ Inside(r, s) /\ Inside(s, t) => Inside(r, t)
         /\ Inside(r, s) /\ Apart(s, t) => Apart(r, t) /\ Apart(t, r)
         /\ Inside(r, s) /\ Apart(r, s) => r.size = 0
         /\ Apart(r, s) => Apart(s, r)
BY DEF IsRange, Inside, Apart, End

\* Ranges that start and end alike are the same to Inside and Apart.
LEMMA SameRange ==
  ASSUME NEW r, NEW s, NEW t, r.start = s.start, r.size = s.size
  PROVE  /\ Inside(r, t) <=> Inside(s, t)
         /\ Inside(t, r) <=> Inside(t, s)
         /\ Apart(r, t) <=> Apart(s, t)
         /\ Apart(t, r) <=> Apart(t, s)
BY DEF Inside, Apart, End

-----------------------------------------------------------------------------
(* Claims and their pools                                                  *)

\* What a claim is: a range in a live pool, with a block of its size or more.
LEMMA ClaimFacts ==
  ASSUME IInv, NEW c \in claims
  PROVE  /\ c.pool \in Pool /\ c.pool \in Nat /\ Live(c.pool)
         /\ Sound(pools[c.pool]) /\ c.pool < idInc
         /\ IsRange(c) /\ c.size > 0 /\ IsRange(pools[c.pool])
         /\ c.use \in Pool \cup {Data, Stack}
         /\ c.size <= RoundUp(c.size) /\ RoundUp(c.size) \in Nat
         /\ Inside(c, pools[c.pool])
         /\ c \in [pool : Pool, start : Nat, size : Nat, use : Pool \cup {Data, Stack}]
<1>1. /\ c \in [pool : Pool, start : Nat, size : Nat, use : Pool \cup {Data, Stack}]
      /\ c.size < Modulus
  BY DEF IInv, Kept, TypeOK
<1>2. Live(c.pool) /\ Placed(c) /\ c.size > 0 /\ c.size <= Modulus - Align
  BY DEF IInv, ClaimsPlaced
<1>3. Sound(pools[c.pool]) /\ c.pool < idInc
  BY <1>1, <1>2, LivePool DEF IInv
<1>4. c.size <= RoundUp(c.size) /\ RoundUp(c.size) \in Nat
  BY <1>1, <1>2, RoundUpFacts
<1>5. IsRange(pools[c.pool])
  BY <1>3, VectorType DEF Sound, IsRange
<1>6. Inside(c, pools[c.pool])
  <2> DEFINE p == pools[c.pool]
  <2>1. PICK k \in 1 .. Len(p.allocated) :
          p.allocated[k] = [start |-> c.start, size |-> RoundUp(c.size)]
    BY <1>2 DEF Placed
  <2>2. p.start <= p.allocated[k].start /\ End(p.allocated[k]) <= End(p)
    BY <1>3 DEF Sound, InOrder
  <2>3. p.start <= c.start /\ c.start + RoundUp(c.size) <= p.start + p.size
    BY <2>1, <2>2 DEF End
  <2> HIDE DEF p
  <2>4. p.start \in Nat /\ p.size \in Nat
    BY <1>5 DEF p, IsRange
  <2>5. p.start <= c.start /\ c.start + c.size <= p.start + p.size
    BY <1>1, <1>4, <2>3, <2>4
  <2> QED BY <2>5 DEF Inside, End, p
<1>7. c.pool \in Nat
  BY <1>1, PoolNumbers
<1> QED BY <1>1, <1>2, <1>3, <1>4, <1>5, <1>6, <1>7 DEF IsRange

\* Claims in one pool do not meet.
LEMMA SamePoolApart ==
  ASSUME IInv, NEW c \in claims, NEW d \in claims, c.pool = d.pool, c # d
  PROVE  Apart(c, d)
<1> DEFINE p == pools[c.pool]
<1>1. PICK k \in 1 .. Len(p.allocated) :
        p.allocated[k] = [start |-> c.start, size |-> RoundUp(c.size)]
  BY DEF IInv, ClaimsPlaced, Placed
<1>2. PICK j \in 1 .. Len(p.allocated) :
        p.allocated[j] = [start |-> d.start, size |-> RoundUp(d.size)]
  BY DEF IInv, ClaimsPlaced, Placed
<1>3. c.start # d.start
  BY DEF IInv, ClaimsPlaced
<1>4. k # j
  BY <1>1, <1>2, <1>3
<1>5. Sound(p) /\ Len(p.allocated) \in Nat
  BY ClaimFacts, VectorType DEF Sound
<1>6. \/ c.start + RoundUp(c.size) <= d.start
      \/ d.start + RoundUp(d.size) <= c.start
  <2>1. k < j \/ j < k
    BY <1>4, <1>5
  <2>2. k < j => End(p.allocated[k]) <= p.allocated[j].start
    BY <1>5 DEF Sound, InOrder
  <2>3. j < k => End(p.allocated[j]) <= p.allocated[k].start
    BY <1>5 DEF Sound, InOrder
  <2> QED BY <1>1, <1>2, <2>1, <2>2, <2>3 DEF End
<1>7. /\ c.start \in Nat /\ c.size \in Nat /\ d.start \in Nat /\ d.size \in Nat
      /\ c.size <= RoundUp(c.size) /\ RoundUp(c.size) \in Nat
      /\ d.size <= RoundUp(d.size) /\ RoundUp(d.size) \in Nat
  BY ClaimFacts DEF IsRange
<1>8. c.start + c.size <= d.start \/ d.start + d.size <= c.start
  BY <1>6, <1>7
<1> QED BY <1>8 DEF Apart, End

\* The claim a pool was made in.
LEMMA PoolClaim ==
  ASSUME IInv, NEW i \in Pool, Live(i), i > SharedID
  PROVE  \E e \in claims : /\ e.use = i /\ e.pool < i
                           /\ pools[i].start = e.start /\ pools[i].size = e.size
BY DEF IInv, PoolsClaimed

\* The two pools of the machine do not meet.
LEMMA MachineApart ==
  ASSUME IInv
  PROVE  Apart(pools[HeapID], pools[SharedID]) /\ Apart(pools[SharedID], pools[HeapID])
BY PoolNumbers DEF IInv, MachinePools, Apart, End

\* Memory used as data, or as a stack, is nobody else's.
LEMMA InvApart == IInv => ClaimsApart
<1> SUFFICES ASSUME IInv, NEW c \in claims, NEW d \in claims, c # d,
                    c.use \in {Data, Stack}, d.use \in {Data, Stack}
             PROVE  Apart(c, d)
  BY DEF ClaimsApart
<1>1. c.pool \in Pool /\ Live(c.pool) /\ Inside(c, pools[c.pool])
  BY ClaimFacts
<1>2. Lies(d, c.pool)
  BY <1>1 DEF IInv, Nested
<1>3. IsRange(c) /\ IsRange(d) /\ IsRange(pools[c.pool])
  BY ClaimFacts
<1>4. d.use \notin Pool
  BY PoolNumbers DEF Data, Stack
<1>5. CASE d.pool = c.pool
  BY <1>5, SamePoolApart
<1>6. CASE Beneath(d, c.pool)
  <2>1. PICK e \in claims : e.pool = c.pool /\ e.use \in Pool /\ Inside(d, e)
    BY <1>6 DEF Beneath
  <2>2. c # e
    BY <2>1, PoolNumbers DEF Data, Stack
  <2>3. Apart(e, c) /\ IsRange(e)
    BY <2>1, <2>2, SamePoolApart, ClaimFacts
  <2> QED BY <1>3, <2>1, <2>3, RangeFacts
<1>7. CASE Apart(d, pools[c.pool])
  <2>1. Apart(pools[c.pool], d)
    BY <1>3, <1>7, RangeFacts
  <2> QED BY <1>1, <1>3, <2>1, RangeFacts
<1>8. CASE Around(d, c.pool)
  BY <1>4, <1>8 DEF Around
<1> QED BY <1>2, <1>5, <1>6, <1>7, <1>8 DEF Lies

\* What is held is backed by its block.
LEMMA InvBacked == IInv => ClaimsBacked
<1> SUFFICES ASSUME IInv, NEW c \in claims
             PROVE  /\ Live(c.pool)
                    /\ \E k \in At(pools[c.pool], c.start) :
                         c.size <= pools[c.pool].allocated[k].size
  BY DEF ClaimsBacked
<1>1. PICK k \in 1 .. Len(pools[c.pool].allocated) :
        pools[c.pool].allocated[k] = [start |-> c.start, size |-> RoundUp(c.size)]
  BY DEF IInv, ClaimsPlaced, Placed
<1>2. k \in At(pools[c.pool], c.start)
  BY <1>1 DEF At
<1> QED BY <1>1, <1>2, ClaimFacts

-----------------------------------------------------------------------------
(* Nesting                                                                 *)

\* A new range in pool i, apart from the claims there, is apart from every
\* younger pool: such a pool is beneath one of those claims or outside of i.
LEMMA NewApartYounger ==
  ASSUME IInv, NEW i \in Pool, Live(i), NEW c, IsRange(c), Inside(c, pools[i]),
         \A d \in claims : d.pool = i => Apart(c, d),
         NEW j \in Pool, Live(j), j > SharedID, i < j
  PROVE  Apart(c, pools[j])
<1>1. PICK f \in claims : /\ f.use = j
                          /\ pools[j].start = f.start /\ pools[j].size = f.size
  BY PoolClaim
<1>2. IsRange(f) /\ IsRange(pools[i])
  BY ClaimFacts, LivePool, VectorType DEF IInv, IsRange, Sound
<1>3. Lies(f, i)
  BY DEF IInv, Nested
<1>4. Apart(c, f)
  <2>1. CASE f.pool = i
    BY <2>1
  <2>2. CASE Beneath(f, i)
    <3>1. PICK d \in claims : d.pool = i /\ Inside(f, d)
      BY <2>2 DEF Beneath
    <3>2. Apart(d, c) /\ IsRange(d)
      <4>1. Apart(c, d) /\ IsRange(d)
        BY <3>1, ClaimFacts
      <4> QED BY <4>1, RangeFacts
    <3> QED BY <1>2, <3>1, <3>2, RangeFacts
  <2>3. CASE Apart(f, pools[i])
    <3>1. Apart(pools[i], f)
      BY <2>3, <1>2, RangeFacts
    <3> QED BY <1>2, <3>1, RangeFacts
  <2>4. CASE Around(f, i)
    BY <2>4, <1>1, PoolNumbers DEF Around
  <2> QED BY <1>3, <2>1, <2>2, <2>3, <2>4 DEF Lies
<1> QED BY <1>1, <1>4, SameRange

\* So it lies as it should to every pool.
LEMMA NewLies ==
  ASSUME IInv, NEW i \in Pool, Live(i), NEW c, IsRange(c), c.pool = i,
         Inside(c, pools[i]), \A d \in claims : d.pool = i => Apart(c, d),
         NEW j \in Pool, Live(j)
  PROVE  Lies(c, j)
<1>1. i \in Nat /\ j \in Nat /\ HeapID = 0 /\ SharedID = 1
  BY PoolNumbers
<1>2. IsRange(pools[i]) /\ IsRange(pools[j])
  BY LivePool, VectorType DEF IInv, IsRange, Sound
<1>3. CASE i = j
  BY <1>3 DEF Lies
<1>4. CASE i < j /\ j > SharedID
  BY <1>4, NewApartYounger DEF Lies
<1>5. CASE i > SharedID /\ j < i
  <2>1. PICK e \in claims : /\ e.use = i /\ e.pool < i
                            /\ pools[i].start = e.start /\ pools[i].size = e.size
    BY <1>5, PoolClaim
  <2>2. Lies(e, j) /\ IsRange(e) /\ e.pool \in Nat
    BY ClaimFacts DEF IInv, Nested
  <2>3. Inside(c, e)
    BY <2>1, SameRange
  <2>4. CASE e.pool = j
    BY <2>1, <2>3, <2>4, <1>1 DEF Lies, Beneath
  <2>5. CASE Beneath(e, j)
    <3>1. PICK d \in claims : /\ d.pool = j /\ d.use \in Pool /\ d.use <= e.pool
                              /\ Inside(e, d)
      BY <2>5 DEF Beneath
    <3>2. Inside(c, d)
      BY <2>2, <2>3, <3>1, RangeFacts, ClaimFacts
    <3>3. d.use <= i
      BY <1>1, <2>1, <2>2, <3>1, PoolNumbers, SMTT(30)
    <3> QED BY <3>1, <3>2, <3>3 DEF Lies, Beneath
  <2>6. CASE Apart(e, pools[j])
    BY <1>2, <2>2, <2>3, <2>6, RangeFacts DEF Lies
  <2>7. CASE Around(e, j)
    BY <2>7, <2>1, <1>1, <1>5 DEF Around
  <2> QED BY <2>2, <2>4, <2>5, <2>6, <2>7 DEF Lies
<1>6. CASE i # j /\ i <= SharedID /\ j <= SharedID
  <2>1. Apart(pools[i], pools[j])
    <3>1. (i = HeapID /\ j = SharedID) \/ (i = SharedID /\ j = HeapID)
      BY <1>1, <1>6
    <3> QED BY <3>1, MachineApart
  <2> QED BY <1>2, <2>1, RangeFacts DEF Lies
<1> QED BY <1>1, <1>3, <1>4, <1>5, <1>6

-----------------------------------------------------------------------------
(* Steps                                                                   *)

\* The pools of a state are where those of the state before were.
SameExtents ==
  \A j \in Pool : /\ (pools'[j] # NULL) <=> (pools[j] # NULL)
                  /\ pools[j] # NULL => /\ pools'[j].start = pools[j].start
                                        /\ pools'[j].size = pools[j].size

\* How a claim lies is not disturbed by claims that come, or by data that goes.
LEMMA LiesKept ==
  ASSUME SameExtents,
         \A d \in claims : d.use \in Pool => d \in claims',
         NEW c, NEW j \in Pool, pools[j] # NULL, Lies(c, j)
  PROVE  Lies(c, j)'
<1>1. CASE c.pool = j
  BY <1>1 DEF Lies
<1>2. CASE Beneath(c, j)
  BY <1>2 DEF Lies, Beneath
<1>3. CASE Apart(c, pools[j])
  <2>1. pools'[j].start = pools[j].start /\ pools'[j].size = pools[j].size
    BY DEF SameExtents
  <2>2. Apart(c, pools'[j])
    BY <1>3, <2>1 DEF Apart, End
  <2> QED BY <2>2 DEF Lies
<1>4. CASE Around(c, j)
  <2>1. pools'[j].start = pools[j].start /\ pools'[j].size = pools[j].size
    BY DEF SameExtents
  <2>2. c.use \in Pool /\ c.use <= j /\ Inside(pools'[j], c)
    BY <1>4, <2>1 DEF Around, Inside, End
  <2> QED BY <2>2 DEF Lies, Around
<1> QED BY <1>1, <1>2, <1>3, <1>4 DEF Lies

\* The two invariants on extents, when no claim that is a pool changes.
LEMMA ExtentsKept ==
  ASSUME IInv, SameExtents,
         \A d \in claims : d.use # Data => d \in claims',
         \A d \in claims' : d.use # Data => d \in claims
  PROVE  PoolsClaimed' /\ MachinePools'
<1>1. \A i \in Pool : i # Data /\ i # Stack
  BY PoolNumbers DEF Data, Stack
<1>2. MachinePools'
  <2>1. \E c \in claims' : c.pool = HeapID /\ c.use = Stack
    BY DEF IInv, MachinePools, Data, Stack
  <2> QED BY <2>1, PoolNumbers DEF IInv, MachinePools, SameExtents, Live
<1>3. ASSUME NEW c \in claims', c.use \in Pool
      PROVE  /\ c.use > SharedID /\ c.pool < c.use /\ Live(c.use)'
             /\ pools'[c.use].start = c.start /\ pools'[c.use].size = c.size
  <2>1. c \in claims
    BY <1>1, <1>3
  <2> QED BY <2>1, <1>3 DEF IInv, PoolsClaimed, SameExtents, Live
<1>4. ASSUME NEW c \in claims', NEW d \in claims', c.use \in Pool, c.use = d.use
      PROVE  c = d
  <2>1. c \in claims /\ d \in claims
    BY <1>1, <1>4
  <2> QED BY <2>1, <1>4 DEF IInv, PoolsClaimed
<1>5. ASSUME NEW i \in Pool, Live(i)', i > SharedID
      PROVE  \E c \in claims' : c.use = i
  <2>1. Live(i)
    BY <1>5 DEF SameExtents, Live
  <2> QED BY <1>1, <1>5, <2>1 DEF IInv, PoolsClaimed
<1>6. PoolsClaimed'
  BY <1>3, <1>4, <1>5 DEF PoolsClaimed
<1> QED BY <1>2, <1>6

\* VMMemoryPoolAllocate.
LEMMA AllocateIInv ==
  ASSUME IInv, Kept', NoneWraps, NEW i \in Pool, NEW size \in Request,
         Allocate(i, size)
  PROVE  IInv'
<1> DEFINE p == pools[i]
           r == RoundUp(size)
           k == FirstFit(p, r)
           b == [start |-> Candidate(p, k), size |-> r]
           q == InsertBlock(p, k, r)
           c == [pool |-> i, start |-> Candidate(p, k), size |-> size, use |-> Data]
           n == Len(p.allocated)
<1>1. /\ size \in Nat /\ size > 0 /\ size < Modulus /\ size <= Modulus - Align
      /\ Live(i) /\ Fits(p, r) # {} /\ idInc' = idInc
      /\ pools' = [pools EXCEPT ![i] = q] /\ claims' = claims \cup {c}
  BY PoolAssumption DEF Allocate, NoneWraps
<1>2. r \in Nat /\ r > 0 /\ size <= r
  BY <1>1, RoundUpFacts
<1>3. Sound(p) /\ p \in PoolState /\ n \in Nat
      /\ \A j \in 1 .. n : p.allocated[j] \in Block
  BY <1>1, LivePool, VectorType DEF IInv, Sound
<1> HIDE DEF r
<1>4. k \in 1 .. n + 1 /\ r <= Gap(p, k) /\ k \in Fits(p, r)
  <2> HIDE DEF p
  <2>1. k \in 1 .. n + 1 /\ r <= Gap(p, k)
    BY <1>1, <1>2, <1>3, FirstFitFacts
  <2> QED BY <2>1 DEF Fits
<1> HIDE DEF k, p
<1>5. /\ Sound(q) /\ q.start = p.start /\ q.size = p.size
      /\ Len(q.allocated) = n + 1
      /\ \A j \in 1 .. n + 1 : q.allocated[j] = IF j < k THEN p.allocated[j]
                                                ELSE IF j = k THEN b
                                                ELSE p.allocated[j - 1]
  BY <1>2, <1>3, <1>4, InsertFacts
<1>6. Free(p, b.start, r) /\ b.start \in Nat
  <2>1. Candidate(p, k) \in Nat
    BY <1>3, <1>4, GapFacts
  <2> QED BY <1>2, <1>3, <1>4, <2>1, FitIsFree
<1>7. pools \in [Pool -> PoolState \cup {NULL}]
  BY DEF IInv, Kept, TypeOK, PoolState
<1>8. q # NULL /\ p # NULL /\ pools[i] = p
  BY <1>1, <1>5, PoolNumbers DEF Sound, Live, p
<1> HIDE DEF q
<1>9. pools'[i] = q /\ \A j \in Pool : j # i => pools'[j] = pools[j]
  BY <1>1, <1>7
<1>10. SameExtents
  BY <1>5, <1>8, <1>9 DEF SameExtents

\* The blocks of the pool are there still, and so is the new one.
<1>11. ASSUME NEW j \in 1 .. n
       PROVE  \E x \in 1 .. Len(q.allocated) : q.allocated[x] = p.allocated[j]
  <2>1. CASE j < k
    <3>1. j \in 1 .. n + 1 /\ q.allocated[j] = p.allocated[j]
      BY <2>1, <1>3, <1>5
    <3> QED BY <3>1, <1>5
  <2>2. CASE ~ (j < k)
    <3>1. j + 1 \in 1 .. n + 1 /\ ~ (j + 1 < k) /\ j + 1 # k /\ (j + 1) - 1 = j
      BY <2>2, <1>3, <1>4
    <3>2. q.allocated[j + 1] = p.allocated[(j + 1) - 1]
      BY <3>1, <1>5
    <3>3. q.allocated[j + 1] = p.allocated[j]
      BY <3>1, <3>2
    <3> QED BY <3>1, <3>3, <1>5
  <2> QED BY <2>1, <2>2
<1>12. k \in 1 .. Len(q.allocated) /\ q.allocated[k] = b
  BY <1>4, <1>5
<1>13. ASSUME NEW j \in 1 .. Len(q.allocated)
       PROVE  q.allocated[j].size > 0
  <2>0. /\ j \in 1 .. n + 1
        /\ \A x \in 1 .. n : p.allocated[x].size > 0
    BY <1>1, <1>5 DEF IInv, NoEmptyBlock, p
  <2>1. CASE j < k
    <3>1. j \in 1 .. n /\ q.allocated[j] = p.allocated[j]
      BY <2>0, <2>1, <1>3, <1>4, <1>5
    <3> QED BY <2>0, <3>1
  <2>2. CASE j = k
    BY <2>2, <1>2, <1>12
  <2>3. CASE j > k
    <3>1. j - 1 \in 1 .. n
      BY <2>0, <2>3, <1>3, <1>4
    <3>2. ~ (j < k) /\ j # k
      BY <2>0, <2>3, <1>3, <1>4
    <3>3. q.allocated[j] = p.allocated[j - 1]
      BY <2>0, <3>2, <1>5
    <3> QED BY <2>0, <3>1, <3>3
  <2> QED BY <2>0, <2>1, <2>2, <2>3, <1>4

\* The claims in the pool are apart from the new one.
<1>14. ASSUME NEW d \in claims, d.pool = i
       PROVE  d.start # c.start /\ Apart(c, d)
  <2>1. PICK j \in 1 .. n :
          p.allocated[j] = [start |-> d.start, size |-> RoundUp(d.size)]
    BY <1>14 DEF IInv, ClaimsPlaced, Placed, p
  <2>2. \/ b.start + r <= p.allocated[j].start
        \/ End(p.allocated[j]) <= b.start
    BY <1>6 DEF Free
  <2>3. \/ b.start + r <= d.start
        \/ d.start + RoundUp(d.size) <= b.start
    BY <2>1, <2>2 DEF End
  <2>4. /\ d.start \in Nat /\ d.size \in Nat /\ d.size > 0
        /\ RoundUp(d.size) \in Nat /\ d.size <= RoundUp(d.size)
    BY ClaimFacts DEF IsRange
  <2>5. b.start = c.start /\ c.start \in Nat
    BY <1>6
  <2>6. /\ d.start # c.start
        /\ c.start + size <= d.start \/ d.start + d.size <= c.start
    <3> HIDE DEF b, c
    <3> QED BY <1>1, <1>2, <2>3, <2>4, <2>5, SMTT(30)
  <2> QED BY <2>6 DEF Apart, End
<1>15. c.pool = i /\ c.start = b.start /\ c.size = size /\ c.use = Data
  OBVIOUS
<1>16. Inside(c, p)
  <2>1. p.start <= b.start /\ b.start + r <= p.start + p.size
    BY <1>6 DEF Free, End
  <2>2. p.start \in Nat /\ p.size \in Nat
    BY <1>3, VectorType
  <2>3. p.start <= b.start /\ b.start + size <= p.start + p.size
    <3> HIDE DEF b
    <3> QED BY <1>1, <1>2, <1>6, <2>1, <2>2
  <2> QED BY <2>3 DEF Inside, End
<1>17. b = [start |-> c.start, size |-> RoundUp(c.size)]
  BY DEF r
<1> HIDE DEF c
<1>18. ClaimsPlaced'
  <2>1. ASSUME NEW d \in claims'
        PROVE  (Live(d.pool) /\ Placed(d))' /\ d.size > 0 /\ d.size <= Modulus - Align
    <3>1. CASE d = c
      <4>1. \E x \in 1 .. Len(q.allocated) :
              q.allocated[x] = [start |-> d.start, size |-> RoundUp(d.size)]
        BY <3>1, <1>12, <1>17
      <4> QED BY <3>1, <4>1, <1>1, <1>8, <1>9, <1>15 DEF Live, Placed
    <3>2. CASE d \in claims /\ d.pool = i
      <4>1. PICK j \in 1 .. n :
              p.allocated[j] = [start |-> d.start, size |-> RoundUp(d.size)]
        BY <3>2 DEF IInv, ClaimsPlaced, Placed, p
      <4>2. \E x \in 1 .. Len(q.allocated) :
              q.allocated[x] = [start |-> d.start, size |-> RoundUp(d.size)]
        BY <4>1, <1>11
      <4>3. d.size > 0 /\ d.size <= Modulus - Align
        BY <3>2 DEF IInv, ClaimsPlaced
      <4> QED BY <3>2, <4>2, <4>3, <1>8, <1>9 DEF Live, Placed
    <3>3. CASE d \in claims /\ d.pool # i
      <4>1. d.pool \in Pool
        BY <3>3, ClaimFacts
      <4>2. pools'[d.pool] = pools[d.pool]
        BY <3>3, <4>1, <1>9
      <4> QED BY <3>3, <4>2 DEF IInv, ClaimsPlaced, Live, Placed
    <3> QED BY <3>1, <3>2, <3>3, <1>1
  <2>2. ASSUME NEW d \in claims', NEW e \in claims',
               d.pool = e.pool, d.start = e.start
        PROVE  d = e
    BY <2>2, <1>1, <1>14, <1>15 DEF IInv, ClaimsPlaced
  <2> QED BY <2>1, <2>2 DEF ClaimsPlaced
<1>19. NoEmptyBlock'
  BY <1>9, <1>13 DEF IInv, NoEmptyBlock, Live
<1>20. PoolsClaimed' /\ MachinePools'
  BY <1>1, <1>10, <1>15, ExtentsKept
<1>21. Nested'
  <2>1. ASSUME NEW d \in claims', NEW j \in Pool, Live(j)' PROVE Lies(d, j)'
    <3>1. Live(j)
      BY <2>1, <1>10 DEF SameExtents, Live
    <3>2. Lies(d, j)
      <4>1. CASE d \in claims
        BY <3>1, <4>1 DEF IInv, Nested
      <4>2. CASE d = c
        <5>1. IsRange(c)
          BY <1>1, <1>6, <1>15 DEF IsRange
        <5> QED BY <4>2, <5>1, <3>1, <1>1, <1>8, <1>14, <1>15, <1>16, NewLies
      <4> QED BY <4>1, <4>2, <1>1
    <3>3. \A e \in claims : e.use \in Pool => e \in claims'
      BY <1>1
    <3> QED BY <3>1, <3>2, <3>3, <1>10, LiesKept DEF Live
  <2> QED BY <2>1 DEF Nested
<1> QED BY <1>18, <1>19, <1>20, <1>21 DEF IInv

\* VMMemoryPoolDeallocate, of a range an application holds as data.
LEMMA DeallocateIInv ==
  ASSUME IInv, Kept', NEW c \in claims, Deallocate(c)
  PROVE  IInv'
<1> DEFINE i == c.pool
           p == pools[i]
           k == Least(At(p, c.start))
           q == EraseBlock(p, k)
           n == Len(p.allocated)
<1>1. /\ c.use = Data /\ Live(i) /\ At(p, c.start) # {} /\ i \in Pool
      /\ pools' = [pools EXCEPT ![i] = q] /\ claims' = claims \ {c}
  BY ClaimFacts DEF Deallocate
<1>2. Sound(p) /\ p \in PoolState /\ n \in Nat
  BY <1>1, LivePool, VectorType DEF IInv, Sound
<1> HIDE DEF p
<1>3. k \in 1 .. n /\ p.allocated[k].start = c.start
  <2>1. At(p, c.start) \in SUBSET Nat
    BY DEF At
  <2>2. k \in At(p, c.start)
    BY <1>1, <2>1, LeastFacts
  <2> QED BY <2>2 DEF At
<1> HIDE DEF k
<1>4. /\ Sound(q) /\ q.start = p.start /\ q.size = p.size
      /\ Len(q.allocated) = n - 1
      /\ \A j \in 1 .. n - 1 : q.allocated[j] = IF j < k THEN p.allocated[j]
                                                ELSE p.allocated[j + 1]
  BY <1>2, <1>3, EraseFacts
<1>5. pools \in [Pool -> PoolState \cup {NULL}]
  BY DEF IInv, Kept, TypeOK, PoolState
<1>6. q # NULL /\ p # NULL /\ pools[i] = p
  BY <1>1, <1>4, PoolNumbers DEF Sound, Live, p
<1> HIDE DEF q
<1>7. pools'[i] = q /\ \A j \in Pool : j # i => pools'[j] = pools[j]
  BY <1>1, <1>5
<1> HIDE DEF i
<1>8. SameExtents
  BY <1>4, <1>6, <1>7 DEF SameExtents

\* Every block but the k-th is there still.
<1>9. ASSUME NEW j \in 1 .. n, j # k
      PROVE  \E x \in 1 .. Len(q.allocated) : q.allocated[x] = p.allocated[j]
  <2>1. CASE j < k
    <3>1. j \in 1 .. n - 1
      BY <2>1, <1>2, <1>3
    <3>2. q.allocated[j] = p.allocated[j]
      BY <3>1, <2>1, <1>4
    <3> QED BY <3>1, <3>2, <1>4
  <2>2. CASE ~ (j < k)
    <3>1. j - 1 \in 1 .. n - 1 /\ ~ (j - 1 < k) /\ (j - 1) + 1 = j
      BY <1>9, <2>2, <1>2, <1>3
    <3>2. q.allocated[j - 1] = p.allocated[(j - 1) + 1]
      BY <3>1, <1>4
    <3>3. q.allocated[j - 1] = p.allocated[j]
      BY <3>1, <3>2
    <3> QED BY <3>1, <3>3, <1>4
  <2> QED BY <2>1, <2>2
<1>10. ASSUME NEW j \in 1 .. Len(q.allocated)
       PROVE  q.allocated[j].size > 0
  <2>1. /\ j \in 1 .. n - 1
        /\ \A x \in 1 .. n : p.allocated[x].size > 0
    BY <1>1, <1>4 DEF IInv, NoEmptyBlock, p
  <2>2. j \in 1 .. n /\ j + 1 \in 1 .. n
    BY <2>1, <1>2
  <2>3. q.allocated[j] = p.allocated[j] \/ q.allocated[j] = p.allocated[j + 1]
    BY <2>1, <1>4
  <2> QED BY <2>1, <2>2, <2>3
<1>11. ClaimsPlaced'
  <2>1. ASSUME NEW d \in claims'
        PROVE  (Live(d.pool) /\ Placed(d))' /\ d.size > 0 /\ d.size <= Modulus - Align
    <3>1. d \in claims /\ d # c /\ d.pool \in Pool
      BY <1>1, ClaimFacts
    <3>2. d.size > 0 /\ d.size <= Modulus - Align
      BY <3>1 DEF IInv, ClaimsPlaced
    <3>3. CASE d.pool = i
      <4>1. PICK j \in 1 .. n :
              p.allocated[j] = [start |-> d.start, size |-> RoundUp(d.size)]
        BY <3>1, <3>3 DEF IInv, ClaimsPlaced, Placed, p
      <4>2. d.start # c.start
        BY <3>1, <3>3 DEF IInv, ClaimsPlaced, i
      <4>3. j # k
        BY <4>1, <4>2, <1>3
      <4>4. \E x \in 1 .. Len(q.allocated) :
              q.allocated[x] = [start |-> d.start, size |-> RoundUp(d.size)]
        BY <4>1, <4>3, <1>9
      <4> QED BY <3>2, <3>3, <4>4, <1>6, <1>7 DEF Live, Placed
    <3>4. CASE d.pool # i
      <4>1. pools'[d.pool] = pools[d.pool]
        BY <3>1, <3>4, <1>7
      <4> QED BY <3>1, <3>2, <4>1 DEF IInv, ClaimsPlaced, Live, Placed
    <3> QED BY <3>3, <3>4
  <2>2. ASSUME NEW d \in claims', NEW e \in claims',
               d.pool = e.pool, d.start = e.start
        PROVE  d = e
    BY <2>2, <1>1 DEF IInv, ClaimsPlaced
  <2> QED BY <2>1, <2>2 DEF ClaimsPlaced
<1>12. NoEmptyBlock'
  BY <1>7, <1>10 DEF IInv, NoEmptyBlock, Live
<1>13. PoolsClaimed' /\ MachinePools'
  BY <1>1, <1>8, ExtentsKept
<1>14. Nested'
  <2>1. ASSUME NEW d \in claims', NEW j \in Pool, Live(j)' PROVE Lies(d, j)'
    <3>1. Live(j)
      BY <2>1, <1>8 DEF SameExtents, Live
    <3>2. Lies(d, j)
      BY <3>1, <1>1 DEF IInv, Nested
    <3>3. \A e \in claims : e.use \in Pool => e \in claims'
      BY <1>1, PoolNumbers DEF Data
    <3> QED BY <3>1, <3>2, <3>3, <1>8, LiesKept DEF Live
  <2> QED BY <2>1 DEF Nested
<1> QED BY <1>11, <1>12, <1>13, <1>14 DEF IInv

\* VMMemoryPoolCreate, in a range an application holds as data.
LEMMA CreateIInv ==
  ASSUME IInv, Kept', NEW c \in claims, Create(c)
  PROVE  IInv'
<1>0. PICK n : n = idInc
  OBVIOUS
<1> DEFINE q == [start |-> c.start, size |-> c.size, allocated |-> << >>]
           e == [c EXCEPT !.use = n]
<1>1. /\ c.use = Data /\ n < MaxPools
      /\ pools' = [pools EXCEPT ![n] = q] /\ idInc' = n + 1
      /\ claims' = (claims \ {c}) \cup {e}
  BY <1>0 DEF Create
<1>2. /\ pools \in [Pool -> PoolState \cup {NULL}]
      /\ n \in 2 .. MaxPools /\ n \in Pool /\ n > SharedID /\ n # SharedID
      /\ n # HeapID /\ n \in Nat
      /\ \A j \in n .. MaxPools - 1 : pools[j] = NULL
  <2>1. /\ pools \in [Pool -> PoolState \cup {NULL}]
        /\ n \in 2 .. MaxPools
        /\ \A j \in n .. MaxPools - 1 : pools[j] = NULL
    BY <1>0 DEF IInv, Kept, TypeOK, PoolState
  <2>2. n \in Nat /\ n \in Pool /\ n > SharedID /\ n # SharedID /\ n # HeapID
    BY <1>1, <2>1, PoolNumbers, SMTT(30)
  <2> QED BY <2>1, <2>2
<1>3. pools[n] = NULL /\ \A j \in Pool : Live(j) => j < n
  BY <1>0, <1>1, <1>2, LivePool, PoolNumbers DEF IInv
<1>4. c.pool \in Pool /\ Live(c.pool) /\ c.pool < n /\ IsRange(c) /\ c.size > 0
  BY <1>0, ClaimFacts
<1>5. q.start = c.start /\ q.size = c.size /\ q.allocated = << >>
  OBVIOUS
<1>6. /\ e.pool = c.pool /\ e.start = c.start /\ e.size = c.size /\ e.use = n
  BY ClaimFacts
<1>7. /\ pools'[n] = q /\ \A j \in Pool : j # n => pools'[j] = pools[j]
  BY <1>1, <1>2
<1>8. q # NULL
  <2>1. << >> \in Seq(Block)
    BY EmptySeq
  <2>2. q \in PoolState
    BY <2>1, <1>4 DEF PoolState, IsRange
  <2> QED BY <2>2, PoolNumbers
<1>9. \A d \in claims : d.use # n /\ d.pool # n /\ d.pool < n /\ d.pool \in Pool
  <2>1. ASSUME NEW d \in claims
        PROVE  d.use # n /\ d.pool # n /\ d.pool < n /\ d.pool \in Pool
    <3>1. d.pool \in Pool /\ Live(d.pool)
      BY ClaimFacts
    <3>2. d.use \in Pool => Live(d.use)
      BY DEF IInv, PoolsClaimed
    <3>3. ~ Live(n)
      BY <1>3 DEF Live
    <3> QED BY <3>1, <3>2, <3>3, <1>2, <1>3
  <2> QED BY <2>1
<1>10. \A j \in Pool : Live(j)' <=> (Live(j) \/ j = n)
  BY <1>3, <1>7, <1>8 DEF Live
<1>11. \A d \in claims' : d = e \/ (d \in claims /\ d # c)
  BY <1>1
<1>12. e \in claims' /\ \A d \in claims : d # c => d \in claims'
  BY <1>1
<1>13. \A j \in Pool : j # Data /\ j # Stack
  BY PoolNumbers DEF Data, Stack
<1> HIDE DEF q, e
<1>14. ClaimsPlaced'
  <2>1. ASSUME NEW d \in claims'
        PROVE  (Live(d.pool) /\ Placed(d))' /\ d.size > 0 /\ d.size <= Modulus - Align
    <3>1. PICK f \in claims : /\ f.pool = d.pool /\ f.start = d.start
                              /\ f.size = d.size
      BY <1>6, <1>11
    <3>2. /\ pools'[d.pool] = pools[d.pool] /\ Live(f.pool) /\ Placed(f)
          /\ f.size > 0 /\ f.size <= Modulus - Align
      BY <3>1, <1>7, <1>9 DEF IInv, ClaimsPlaced
    <3> QED BY <3>1, <3>2 DEF Live, Placed
  <2>2. ASSUME NEW d \in claims', NEW f \in claims',
               d.pool = f.pool, d.start = f.start
        PROVE  d = f
    BY <2>2, <1>6, <1>11 DEF IInv, ClaimsPlaced
  <2> QED BY <2>1, <2>2 DEF ClaimsPlaced
<1>15. NoEmptyBlock'
  <2>1. Len(<< >>) = 0
    BY EmptySeq
  <2>2. ASSUME NEW j \in Pool, Live(j)', NEW k \in 1 .. Len(pools'[j].allocated)
        PROVE  pools'[j].allocated[k].size > 0
    <3>1. CASE j = n
      BY <3>1, <2>1, <1>5, <1>7
    <3>2. CASE j # n
      BY <2>2, <3>2, <1>7, <1>10 DEF IInv, NoEmptyBlock
    <3> QED BY <3>1, <3>2
  <2> QED BY <2>2 DEF NoEmptyBlock
<1>16. PoolsClaimed'
  <2>1. ASSUME NEW d \in claims', d.use \in Pool
        PROVE  /\ d.use > SharedID /\ d.pool < d.use /\ Live(d.use)'
               /\ pools'[d.use].start = d.start /\ pools'[d.use].size = d.size
    <3>1. CASE d = e
      BY <3>1, <1>2, <1>4, <1>5, <1>6, <1>7, <1>10
    <3>2. CASE d \in claims
      <4>1. d.use # n
        BY <3>2, <1>9
      <4> QED BY <2>1, <3>2, <4>1, <1>7, <1>10 DEF IInv, PoolsClaimed
    <3> QED BY <3>1, <3>2, <1>11
  <2>2. ASSUME NEW d \in claims', NEW f \in claims', d.use \in Pool, d.use = f.use
        PROVE  d = f
    BY <2>2, <1>6, <1>9, <1>11 DEF IInv, PoolsClaimed
  <2>3. ASSUME NEW j \in Pool, Live(j)', j > SharedID
        PROVE  \E d \in claims' : d.use = j
    <3>1. CASE j = n
      BY <3>1, <1>6, <1>12
    <3>2. CASE j # n
      <4>1. PICK d \in claims : d.use = j
        BY <2>3, <3>2, <1>10 DEF IInv, PoolsClaimed
      <4>2. d # c
        BY <4>1, <1>1, <1>13
      <4> QED BY <4>1, <4>2, <1>12
    <3> QED BY <3>1, <3>2
  <2> QED BY <2>1, <2>2, <2>3 DEF PoolsClaimed
<1>17. MachinePools'
  <2>1. PICK s \in claims : s.pool = HeapID /\ s.use = Stack
    BY DEF IInv, MachinePools
  <2>2. s \in claims'
    BY <2>1, <1>1, <1>12 DEF Data, Stack
  <2> QED BY <2>1, <2>2, <1>2, <1>7, <1>10, PoolNumbers DEF IInv, MachinePools

\* Every claim but c lies to the new pool as it lay to the pool of c, with the
\* range of c between them when it was in the same one.
<1>18. ASSUME NEW d \in claims, d # c PROVE Lies(d, n)'
  <2>1. Lies(d, c.pool) /\ IsRange(d)
    BY <1>4, ClaimFacts DEF IInv, Nested
  <2>2. Apart(d, c) => Lies(d, n)'
    <3>1. Apart(d, c) => Apart(d, pools'[n])
      BY <1>5, <1>7, SameRange
    <3> QED BY <3>1 DEF Lies
  <2>3. CASE d.pool = c.pool
    BY <2>3, <2>2, <1>18, SamePoolApart
  <2>4. CASE Beneath(d, c.pool)
    <3>1. PICK f \in claims : f.pool = c.pool /\ f.use \in Pool /\ Inside(d, f)
      BY <2>4 DEF Beneath
    <3>2. f # c
      BY <3>1, <1>1, <1>13
    <3>3. Apart(f, c) /\ IsRange(f)
      BY <3>1, <3>2, SamePoolApart, ClaimFacts
    <3> QED BY <2>1, <2>2, <3>1, <3>3, <1>4, RangeFacts
  <2>5. CASE Apart(d, pools[c.pool])
    <3>1. Inside(c, pools[c.pool]) /\ IsRange(pools[c.pool])
      BY ClaimFacts
    <3>2. Apart(pools[c.pool], d)
      BY <3>1, <2>1, <2>5, RangeFacts
    <3>3. Apart(c, d)
      BY <3>1, <3>2, <2>1, <1>4, RangeFacts
    <3>4. Apart(d, c)
      BY <3>3, <2>1, <1>4, RangeFacts
    <3> QED BY <3>4, <2>2
  <2>6. CASE Around(d, c.pool)
    <3>1. d.use \in Pool /\ d.use <= c.pool /\ Inside(pools[c.pool], d)
      BY <2>6 DEF Around
    <3>2. Inside(c, d)
      BY <3>1, <2>1, ClaimFacts, RangeFacts
    <3>3. Inside(pools'[n], d)
      BY <3>2, <1>5, <1>7, SameRange
    <3>4. d.use <= n
      BY <3>1, <1>2, <1>4, PoolNumbers
    <3> QED BY <3>1, <3>3, <3>4 DEF Lies, Around
  <2> QED BY <2>1, <2>3, <2>4, <2>5, <2>6 DEF Lies

\* How a claim lies to another pool is as before: what is beneath a pool made
\* of it keeps its range and its pool.
<1>19. ASSUME NEW d \in claims, NEW f, NEW j \in Pool, j # n, Live(j),
              f.pool = d.pool, f.start = d.start, f.size = d.size,
              f.use = d.use \/ d.use = Data
       PROVE  Lies(f, j)'
  <2>1. Lies(d, j)
    BY <1>19 DEF IInv, Nested
  <2>2. pools'[j] = pools[j]
    BY <1>7, <1>19
  <2>3. CASE d.pool = j
    BY <2>3, <1>19 DEF Lies
  <2>4. CASE Beneath(d, j)
    <3>1. PICK g \in claims : /\ g.pool = j /\ g.use \in Pool /\ g.use <= d.pool
                              /\ Inside(d, g)
      BY <2>4 DEF Beneath
    <3>2. g \in claims'
      BY <3>1, <1>1, <1>12, <1>13
    <3>3. Inside(f, g)
      BY <3>1, <1>19, SameRange
    <3> QED BY <3>1, <3>2, <3>3, <1>19 DEF Lies, Beneath
  <2>5. CASE Apart(d, pools[j])
    <3>1. Apart(f, pools[j])
      BY <2>5, <1>19, SameRange
    <3> QED BY <3>1, <2>2 DEF Lies
  <2>6. CASE Around(d, j)
    <3>1. Inside(pools[j], f) /\ f.use = d.use
      BY <2>6, <1>13, <1>19, SameRange DEF Around
    <3> QED BY <2>2, <2>6, <3>1 DEF Lies, Around
  <2> QED BY <2>1, <2>3, <2>4, <2>5, <2>6 DEF Lies
<1>20. Nested'
  <2>1. ASSUME NEW d \in claims', NEW j \in Pool, Live(j)' PROVE Lies(d, j)'
    <3>1. CASE d = e /\ j = n
      <4>1. Inside(e, e)
        BY <1>4, <1>6 DEF IsRange, Inside, End
      <4>2. Inside(q, e)
        BY <4>1, <1>5, <1>6, SameRange
      <4>3. Inside(pools'[n], e)
        BY <4>2, <1>7
      <4>4. e.use \in Pool /\ e.use <= n
        BY <1>2, <1>6
      <4> QED BY <3>1, <4>3, <4>4 DEF Lies, Around
    <3>2. CASE d = e /\ j # n
      BY <2>1, <3>2, <1>1, <1>6, <1>10, <1>19
    <3>3. CASE d \in claims /\ d # c /\ j = n
      BY <3>3, <1>18
    <3>4. CASE d \in claims /\ d # c /\ j # n
      BY <2>1, <3>4, <1>10, <1>19
    <3> QED BY <3>1, <3>2, <3>3, <3>4, <1>11
  <2> QED BY <2>1 DEF Nested
<1> QED BY <1>14, <1>15, <1>16, <1>17, <1>20 DEF IInv

\* VMMemoryPoolDelete, of a pool without blocks.
LEMMA DeleteIInv ==
  ASSUME IInv, Kept', NEW i \in Pool, Delete(i)
  PROVE  IInv'
<1>1. /\ i # SharedID /\ Live(i) /\ pools[i].allocated = << >>
      /\ pools' = [pools EXCEPT ![i] = NULL]
      /\ claims' = {Reclaimed(i, c) : c \in claims}
  BY DEF Delete, FullyFree
<1>2. pools \in [Pool -> PoolState \cup {NULL}]
  BY DEF IInv, Kept, TypeOK, PoolState
<1>3. \A j \in Pool : j # i => pools'[j] = pools[j]
  BY <1>1, <1>2
<1>4. \A j \in Pool : Live(j)' <=> (Live(j) /\ j # i)
  BY <1>1, <1>2, <1>3 DEF Live

\* Nothing is left in the pool.
<1>5. \A c \in claims : c.pool # i
  <2>1. SUFFICES ASSUME NEW c \in claims, c.pool = i PROVE FALSE
    OBVIOUS
  <2>2. \E k \in 1 .. Len(pools[i].allocated) : TRUE
    BY <2>1 DEF IInv, ClaimsPlaced, Placed
  <2>3. Len(<< >>) = 0
    BY EmptySeq
  <2> QED BY <1>1, <2>2, <2>3
<1>6. i > SharedID /\ i \in Nat
  <2>1. i # HeapID
    BY <1>5 DEF IInv, MachinePools
  <2> QED BY <1>1, <2>1, PoolNumbers
<1>7. \A j \in Pool : j # Data /\ j # Stack
  BY PoolNumbers DEF Data, Stack
<1>8. Data # Stack
  BY DEF Data, Stack
<1>9. ASSUME NEW c \in claims
      PROVE  /\ Reclaimed(i, c) \in claims'
             /\ Reclaimed(i, c).pool = c.pool /\ Reclaimed(i, c).start = c.start
             /\ Reclaimed(i, c).size = c.size
             /\ c.use # i => Reclaimed(i, c) = c
             /\ c.use = i => Reclaimed(i, c).use = Data
  BY <1>1, ClaimFacts DEF Reclaimed
<1>10. \A d \in claims' : \E c \in claims : d = Reclaimed(i, c)
  BY <1>1
<1>11. ClaimsPlaced'
  <2>1. ASSUME NEW d \in claims'
        PROVE  (Live(d.pool) /\ Placed(d))' /\ d.size > 0 /\ d.size <= Modulus - Align
    <3>1. PICK c \in claims : d = Reclaimed(i, c)
      BY <1>10
    <3>2. d.pool = c.pool /\ d.start = c.start /\ d.size = c.size
      BY <3>1, <1>9
    <3>3. /\ c.pool \in Pool /\ Live(c.pool) /\ Placed(c)
          /\ c.size > 0 /\ c.size <= Modulus - Align
      BY ClaimFacts DEF IInv, ClaimsPlaced
    <3>4. pools'[d.pool] = pools[c.pool]
      BY <3>2, <3>3, <1>3, <1>5
    <3> QED BY <3>2, <3>3, <3>4 DEF Live, Placed
  <2>2. ASSUME NEW d \in claims', NEW f \in claims',
               d.pool = f.pool, d.start = f.start
        PROVE  d = f
    <3>1. PICK c \in claims : d = Reclaimed(i, c)
      BY <1>10
    <3>2. PICK g \in claims : f = Reclaimed(i, g)
      BY <1>10
    <3>3. c.pool = g.pool /\ c.start = g.start
      BY <2>2, <3>1, <3>2, <1>9
    <3> QED BY <3>1, <3>2, <3>3 DEF IInv, ClaimsPlaced
  <2> QED BY <2>1, <2>2 DEF ClaimsPlaced
<1>12. NoEmptyBlock'
  <2>1. ASSUME NEW j \in Pool, Live(j)', NEW k \in 1 .. Len(pools'[j].allocated)
        PROVE  pools'[j].allocated[k].size > 0
    BY <2>1, <1>3, <1>4 DEF IInv, NoEmptyBlock
  <2> QED BY <2>1 DEF NoEmptyBlock
<1>13. \A d \in claims' : d.use \in Pool => d \in claims /\ d.use # i
  <2>1. ASSUME NEW d \in claims', d.use \in Pool
        PROVE  d \in claims /\ d.use # i
    <3>1. PICK c \in claims : d = Reclaimed(i, c)
      BY <1>10
    <3>2. c.use # i
      BY <2>1, <3>1, <1>7, <1>9
    <3> QED BY <3>1, <3>2, <1>9
  <2> QED BY <2>1
<1>14. PoolsClaimed'
  <2>1. ASSUME NEW d \in claims', d.use \in Pool
        PROVE  /\ d.use > SharedID /\ d.pool < d.use /\ Live(d.use)'
               /\ pools'[d.use].start = d.start /\ pools'[d.use].size = d.size
    BY <2>1, <1>3, <1>4, <1>13 DEF IInv, PoolsClaimed
  <2>2. ASSUME NEW d \in claims', NEW f \in claims', d.use \in Pool, d.use = f.use
        PROVE  d = f
    BY <2>2, <1>13 DEF IInv, PoolsClaimed
  <2>3. ASSUME NEW j \in Pool, Live(j)', j > SharedID
        PROVE  \E d \in claims' : d.use = j
    <3>1. Live(j) /\ j # i
      BY <2>3, <1>4
    <3>2. PICK c \in claims : c.use = j
      BY <2>3, <3>1 DEF IInv, PoolsClaimed
    <3>3. Reclaimed(i, c) = c /\ Reclaimed(i, c) \in claims'
      BY <3>1, <3>2, <1>9
    <3> QED BY <3>2, <3>3
  <2> QED BY <2>1, <2>2, <2>3 DEF PoolsClaimed
<1>15. MachinePools'
  <2>1. PICK s \in claims : s.pool = HeapID /\ s.use = Stack
    BY DEF IInv, MachinePools
  <2>2. s \in claims'
    <3>1. Reclaimed(i, s) = s
      BY <2>1, <1>7, <1>9
    <3> QED BY <3>1, <1>9
  <2>3. HeapID # i /\ SharedID # i
    BY <1>6, PoolNumbers
  <2> QED BY <2>1, <2>2, <2>3, <1>3, <1>4, PoolNumbers DEF IInv, MachinePools

\* No other claim meets the range of the deleted pool but those around it.
<1>16. ASSUME NEW c \in claims, NEW d \in claims, d.use = i, Inside(c, d)
       PROVE  c.use \in Pool /\ c.use <= i
  <2>1. Lies(c, i) /\ IsRange(c) /\ c.size > 0 /\ IsRange(d)
    BY <1>1, ClaimFacts DEF IInv, Nested
  <2>2. ~ Beneath(c, i) /\ c.pool # i
    BY <1>5 DEF Beneath
  <2>3. pools[i].start = d.start /\ pools[i].size = d.size
    BY <1>16 DEF IInv, PoolsClaimed
  <2>4. ~ Apart(c, d)
    BY <1>16, <2>1, RangeFacts
  <2>5. ~ Apart(c, pools[i])
    BY <2>3, <2>4, SameRange
  <2> QED BY <2>1, <2>2, <2>5 DEF Lies, Around
<1>17. ASSUME NEW c \in claims, NEW j \in Pool, Live(j), j # i
       PROVE  Lies(Reclaimed(i, c), j)'
  <2> DEFINE r == Reclaimed(i, c)
  <2>1. /\ r.pool = c.pool /\ r.start = c.start /\ r.size = c.size
        /\ c.use # i => r = c
    BY <1>9
  <2> HIDE DEF r
  <2>2. Lies(c, j)
    BY <1>17 DEF IInv, Nested
  <2>3. pools'[j] = pools[j]
    BY <1>3, <1>17
  <2>4. CASE c.pool = j
    BY <2>1, <2>4 DEF Lies, r
  <2>5. CASE Beneath(c, j)
    <3>1. PICK g \in claims : /\ g.pool = j /\ g.use \in Pool /\ g.use <= c.pool
                              /\ Inside(c, g)
      BY <2>5 DEF Beneath
    <3>2. g.use # i
      <4>1. SUFFICES ASSUME g.use = i PROVE FALSE
        OBVIOUS
      <4>2. c.use \in Pool /\ c.use <= i
        BY <3>1, <4>1, <1>16
      <4>3. c.pool < c.use /\ c.pool \in Nat
        BY <4>2, ClaimFacts DEF IInv, PoolsClaimed
      <4> QED BY <3>1, <4>1, <4>2, <4>3, <1>6, PoolNumbers
    <3>3. g \in claims'
      BY <3>2, <1>9
    <3>4. Inside(r, g)
      BY <3>1, <2>1, SameRange
    <3>5. Beneath(r, j)'
      BY <3>1, <3>3, <3>4, <2>1 DEF Beneath
    <3> QED BY <3>5 DEF Lies, r
  <2>6. CASE Apart(c, pools[j])
    <3>1. Apart(r, pools'[j])
      BY <2>1, <2>3, <2>6, SameRange
    <3> QED BY <3>1 DEF Lies, r
  <2>7. CASE Around(c, j)
    <3>1. c.use \in Pool /\ c.use <= j /\ Inside(pools[j], c)
      BY <2>7 DEF Around
    <3>2. c.use # i
      <4>1. SUFFICES ASSUME c.use = i PROVE FALSE
        OBVIOUS
      <4>2. j > i /\ j > SharedID
        BY <4>1, <3>1, <1>6, <1>17, PoolNumbers
      <4>3. PICK f \in claims : /\ f.use = j
                                /\ pools[j].start = f.start /\ pools[j].size = f.size
        BY <4>2, <1>17, PoolClaim
      <4>4. Inside(f, c)
        BY <3>1, <4>3, SameRange
      <4>5. f.use <= i
        BY <4>1, <4>4, <1>16
      <4> QED BY <4>2, <4>3, <4>5, <1>6, PoolNumbers
    <3>3. r = c
      BY <3>2, <2>1
    <3>4. Around(c, j)'
      BY <3>1, <2>3 DEF Around
    <3> QED BY <3>3, <3>4 DEF Lies, r
  <2> QED BY <2>2, <2>4, <2>5, <2>6, <2>7 DEF Lies
<1>18. Nested'
  <2>1. ASSUME NEW d \in claims', NEW j \in Pool, Live(j)' PROVE Lies(d, j)'
    <3>1. PICK c \in claims : d = Reclaimed(i, c)
      BY <1>10
    <3>2. Lies(Reclaimed(i, c), j)'
      BY <2>1, <1>4, <1>17
    <3> QED BY <3>1, <3>2
  <2> QED BY <2>1 DEF Nested
<1> QED BY <1>11, <1>12, <1>14, <1>15, <1>18 DEF IInv

\* The heap with the stack of idle, and the shared memory.
LEMMA InitIInv == Init => IInv
<1> SUFFICES ASSUME Init PROVE IInv
  OBVIOUS
<1> DEFINE c == [pool |-> HeapID, start |-> Heap.start, size |-> StackSize,
                 use |-> Stack]
<1>1. Kept
  BY InitKept
<1>2. claims = {c}
  BY DEF Init
<1>3. /\ c.pool = HeapID /\ c.start = Heap.start /\ c.size = StackSize
      /\ c.use = Stack
  OBVIOUS
<1> HIDE DEF c
<1>4. /\ pools[HeapID] = FirstHeap /\ pools[SharedID] = FreshShared
      /\ \A i \in Pool : Live(i) <=> i = HeapID \/ i = SharedID
  BY FirstPools, PoolNumbers DEF Live
<1>5. ClaimsPlaced
  <2>1. Placed(c)
    BY <1>3, <1>4, HeapFacts DEF Placed
  <2>2. Live(c.pool) /\ c.size > 0 /\ c.size <= Modulus - Align
    BY <1>3, <1>4, PoolNumbers
  <2> QED BY <2>1, <2>2, <1>2 DEF ClaimsPlaced
<1>6. NoEmptyBlock
  <2>1. RoundUp(StackSize) > 0
    BY HeapFacts, PoolNumbers
  <2>2. \A k \in 1 .. Len(FirstHeap.allocated) : FirstHeap.allocated[k].size > 0
    BY <2>1, HeapFacts
  <2>3. Len(FreshShared.allocated) = 0
    BY EmptySeq DEF FreshShared
  <2>4. \A k \in 1 .. Len(FreshShared.allocated) : FALSE
    BY <2>3
  <2> QED BY <2>2, <2>4, <1>4 DEF NoEmptyBlock
<1>7. Stack \notin Pool
  BY PoolNumbers DEF Stack
<1>8. PoolsClaimed
  BY <1>2, <1>3, <1>4, <1>7, PoolNumbers DEF PoolsClaimed
<1>9. MachinePools
  BY <1>2, <1>3, <1>4, HeapFacts, PoolNumbers DEF MachinePools, FreshShared
<1>10. Nested
  <2>1. Lies(c, HeapID)
    BY <1>3 DEF Lies
  <2>2. Apart(c, pools[SharedID])
    <3>1. FreshShared.start = Shared.start
      BY DEF FreshShared
    <3>2. Heap.start + StackSize <= Shared.start
      BY PoolNumbers
    <3> QED BY <3>1, <3>2, <1>3, <1>4 DEF Apart, End
  <2>3. Lies(c, SharedID)
    BY <2>2 DEF Lies
  <2> QED BY <2>1, <2>3, <1>2, <1>4 DEF Nested
<1> QED BY <1>1, <1>5, <1>6, <1>8, <1>9, <1>10 DEF IInv

\* Every pool function keeps what was granted, if no size wraps.
LEMMA StepIInv ==
  ASSUME NoneWraps, IInv, [Next]_vars
  PROVE  IInv'
<1>1. Kept'
  BY StepKept DEF IInv
<1>2. ASSUME NEW i \in Pool, NEW size \in Request, Allocate(i, size) PROVE IInv'
  BY <1>1, <1>2, AllocateIInv
<1>3. ASSUME NEW c \in claims, Deallocate(c) PROVE IInv'
  BY <1>1, <1>3, DeallocateIInv
<1>4. ASSUME NEW c \in claims, Create(c) PROVE IInv'
  BY <1>1, <1>4, CreateIInv
<1>5. ASSUME NEW i \in Pool, Delete(i) PROVE IInv'
  BY <1>1, <1>5, DeleteIInv
<1>6. CASE UNCHANGED vars
  <2>1. pools' = pools /\ claims' = claims
    BY <1>6 DEF vars
  <2> QED BY <1>1, <2>1 DEF IInv, ClaimsPlaced, Placed, NoEmptyBlock, PoolsClaimed,
             MachinePools, Nested, Lies, Beneath, Around, Live
<1> QED BY <1>2, <1>3, <1>4, <1>5, <1>6 DEF Next

-----------------------------------------------------------------------------
(* The methods that search and count                                       *)

\* A sound pool has its blocks in order.
LEMMA KeptOrder == Kept => BlocksInOrder
BY DEF Kept, BlocksInOrder, Sound

\* The loops agree with their references on sound pools.
LEMMA KeptReference == Kept => MatchesReference
<1> SUFFICES ASSUME Kept PROVE MatchesReference
  OBVIOUS
<1>1. \A n \in Request : RoundUp(n) \in Nat
  BY PoolAssumption, RoundUpFacts
<1>2. ASSUME NEW i \in Pool, NEW size \in {RoundUp(n) : n \in Request \ {0}}, Live(i)
      PROVE  LET p     == pools[i]
                 Spots == {a \in Addresses(p) : Free(p, a, size)}
             IN  IF Fits(p, size) = {} THEN Spots = {}
                 ELSE /\ Spots # {}
                      /\ Candidate(p, FirstFit(p, size)) = Least(Spots)
  <2>1. Sound(pools[i]) /\ size \in Nat
    BY <1>1, <1>2 DEF Kept
  <2> QED BY <2>1, FitsReference
<1>3. AllocatesFirstFit
  BY <1>2 DEF AllocatesFirstFit
<1>4. CountsFreeBytes
  <2>1. ASSUME NEW i \in Pool, Live(i)
        PROVE  LET p == pools[i] IN
               CountFree(p) =
                 Cardinality({a \in p.start .. End(p) - 1 : Free(p, a, 1)})
    <3>1. Sound(pools[i])
      BY <2>1 DEF Kept
    <3> QED BY <3>1, CountReference
  <2> QED BY <2>1 DEF CountsFreeBytes
<1> QED BY <1>3, <1>4 DEF MatchesReference

-----------------------------------------------------------------------------
(* Theorems                                                                *)

\* Type correctness, for every size an application asks for.
THEOREM TypeCorrect == Spec => []TypeOK
<1>1. Init => Kept
  BY InitKept
<1>2. Kept /\ [Next]_vars => Kept'
  BY StepKept
<1>3. Kept => TypeOK
  BY DEF Kept
<1> QED BY <1>1, <1>2, <1>3, PTL DEF Spec

\* The vectors stay in the order of the addresses, for every size an
\* application asks for: even one that rounds to zero.
THEOREM VectorsInOrder == Spec => []BlocksInOrder
<1>1. Init => Kept
  BY InitKept
<1>2. Kept /\ [Next]_vars => Kept'
  BY StepKept
<1> QED BY <1>1, <1>2, KeptOrder, PTL DEF Spec

\* allocate() finds the lowest range that fits, or none when none does, and
\* the query counts the bytes outside of the blocks: for every size.
THEOREM SearchesAsReference == Spec => []MatchesReference
<1>1. Init => Kept
  BY InitKept
<1>2. Kept /\ [Next]_vars => Kept'
  BY StepKept
<1> QED BY <1>1, <1>2, KeptReference, PTL DEF Spec

\* What an application holds stays allocated in its pool and is nobody else's,
\* however pools are nested and deleted, unless it asks for one of the sizes
\* whose rounding wraps.
THEOREM MemoryIsHeld == NoneWraps => (Spec => []ClaimsHold)
<1> SUFFICES ASSUME NoneWraps PROVE Spec => []ClaimsHold
  OBVIOUS
<1>1. Init => IInv
  BY InitIInv
<1>2. IInv /\ [Next]_vars => IInv'
  BY StepIInv
<1>3. IInv => ClaimsHold
  BY InvApart, InvBacked DEF ClaimsHold
<1> QED BY <1>1, <1>2, <1>3, PTL DEF Spec

-----------------------------------------------------------------------------
(* The pools implement an arena each                                       *)

\* What the arena sees of a live pool.
LEMMA ArenaView ==
  ASSUME NEW p, Sound(p)
  PROVE  /\ p # NULL /\ p.start \in Nat /\ p.size \in Nat
         /\ Extent(p) = [start |-> p.start, size |-> p.size]
         /\ Extent(p) \in Block /\ Extent(p) # NULL
         /\ Used(p) = {p.allocated[k] : k \in 1 .. Len(p.allocated)}
         /\ Used(p) \in SUBSET Block
<1>1. /\ p # NULL /\ p.start \in Nat /\ p.size \in Nat
      /\ DOMAIN p.allocated = 1 .. Len(p.allocated)
      /\ \A k \in 1 .. Len(p.allocated) : p.allocated[k] \in Block
  BY VectorType, PoolNumbers DEF Sound
<1>2. /\ Extent(p) = [start |-> p.start, size |-> p.size]
      /\ Used(p) = {p.allocated[k] : k \in 1 .. Len(p.allocated)}
  BY <1>1 DEF Extent, Used
<1>3. Extent(p) \in Block
  BY <1>1, <1>2 DEF Block
<1> QED BY <1>1, <1>2, <1>3, PoolNumbers

\* Blocks in order are in their pool and do not meet.
LEMMA SafeView ==
  ASSUME NEW p, Sound(p)
  PROVE  /\ \A r \in Used(p) : Arenas!Within(r, Extent(p))
         /\ \A r, q \in Used(p) : r # q => Arenas!Apart(r, q)
<1>1. /\ Used(p) = {p.allocated[k] : k \in 1 .. Len(p.allocated)}
      /\ Extent(p).start = p.start /\ Extent(p).size = p.size
      /\ Len(p.allocated) \in Nat
  BY ArenaView, VectorType DEF Sound
<1>2. ASSUME NEW r \in Used(p) PROVE Arenas!Within(r, Extent(p))
  <2>1. PICK k \in 1 .. Len(p.allocated) : r = p.allocated[k]
    BY <1>1
  <2>2. p.start <= r.start /\ r.start + r.size <= p.start + p.size
    BY <2>1 DEF Sound, InOrder, End
  <2> QED BY <1>1, <2>2 DEF Arenas!Within
<1>3. ASSUME NEW r \in Used(p), NEW q \in Used(p), r # q PROVE Arenas!Apart(r, q)
  <2>1. PICK j \in 1 .. Len(p.allocated) : r = p.allocated[j]
    BY <1>1
  <2>2. PICK k \in 1 .. Len(p.allocated) : q = p.allocated[k]
    BY <1>1
  <2>3. j < k \/ k < j
    BY <1>1, <1>3, <2>1, <2>2
  <2>4. r.start + r.size <= q.start \/ q.start + q.size <= r.start
    BY <2>1, <2>2, <2>3 DEF Sound, InOrder, End
  <2> QED BY <2>4 DEF Arenas!Apart
<1> QED BY <1>2, <1>3

\* The initial state is one of the arena's.
LEMMA InitRefines == Init => Arenas!Init
<1> SUFFICES ASSUME Init PROVE Arenas!Init
  OBVIOUS
<1> DEFINE X == [j \in Pool |-> Extent(pools[j])]
           U == [j \in Pool |-> Used(pools[j])]
<1>1. Kept
  BY InitKept
<1>2. ASSUME NEW j \in Pool
      PROVE  /\ Live(j) => Sound(pools[j])
             /\ ~ Live(j) => Extent(pools[j]) = NULL /\ Used(pools[j]) = {}
  BY <1>1 DEF Kept, Live, Extent, Used
<1>3. X \in [Pool -> Block \cup {NULL}] /\ U \in [Pool -> SUBSET Block]
  BY <1>2, ArenaView
<1>4. ASSUME NEW j \in Pool PROVE Arenas!SafelyUsed(j)
  <2>1. CASE Live(j)
    <3>1. Sound(pools[j])
      BY <1>2, <2>1
    <3>2. X[j] = Extent(pools[j]) /\ U[j] = Used(pools[j])
      OBVIOUS
    <3>3. X[j] # NULL
      BY <3>1, <3>2, ArenaView
    <3> QED BY <3>1, <3>2, <3>3, SafeView DEF Arenas!SafelyUsed
  <2>2. CASE ~ Live(j)
    <3>1. U[j] = {}
      BY <1>2, <2>2
    <3> QED BY <3>1 DEF Arenas!SafelyUsed
  <2> QED BY <2>1, <2>2
<1> QED BY <1>3, <1>4 DEF Arenas!Init, Arenas!Block, Block

\* A step that replaces one pool replaces what the arena sees of it.
LEMMA ReplaceView ==
  ASSUME pools \in [Pool -> PoolState \cup {NULL}], NEW i \in Pool, NEW q,
         pools' = [pools EXCEPT ![i] = q]
  PROVE  LET X == [j \in Pool |-> Extent(pools[j])]
             U == [j \in Pool |-> Used(pools[j])]
         IN  /\ X' = [X EXCEPT ![i] = Extent(q)]
             /\ U' = [U EXCEPT ![i] = Used(q)]
             /\ X[i] = Extent(pools[i]) /\ U[i] = Used(pools[i])
             /\ X'[i] = Extent(q) /\ U'[i] = Used(q)
             /\ Extent(q) = Extent(pools[i]) => X' = X
             /\ Used(q) = Used(pools[i]) => U' = U
<1> DEFINE X == [j \in Pool |-> Extent(pools[j])]
           U == [j \in Pool |-> Used(pools[j])]
<1>1. \A j \in Pool : pools'[j] = IF j = i THEN q ELSE pools[j]
  OBVIOUS
<1>2. /\ X' = [j \in Pool |-> Extent(pools'[j])]
      /\ U' = [j \in Pool |-> Used(pools'[j])]
  BY DEF Extent, Used
<1>3. X' = [X EXCEPT ![i] = Extent(q)]
  BY <1>1, <1>2
<1>4. U' = [U EXCEPT ![i] = Used(q)]
  BY <1>1, <1>2
<1>5. X[i] = Extent(pools[i]) /\ U[i] = Used(pools[i])
  OBVIOUS
<1>6. X = [X EXCEPT ![i] = X[i]] /\ U = [U EXCEPT ![i] = U[i]]
  OBVIOUS
<1>7. X'[i] = Extent(q) /\ U'[i] = Used(q)
  BY <1>3, <1>4
<1> HIDE DEF X, U
<1> QED BY <1>3, <1>4, <1>5, <1>6, <1>7 DEF X, U

\* What allocate grants was free in the arena of the pool.
LEMMA AllocateRefines ==
  ASSUME IInv, NoneWraps, NEW i \in Pool, NEW size \in Request, Allocate(i, size)
  PROVE  Arenas!Allocate(i)
<1> DEFINE X == [j \in Pool |-> Extent(pools[j])]
           U == [j \in Pool |-> Used(pools[j])]
           p == pools[i]
           r == RoundUp(size)
           k == FirstFit(p, r)
           b == [start |-> Candidate(p, k), size |-> r]
           q == InsertBlock(p, k, r)
<1>1. /\ size \in Nat /\ size > 0 /\ size < Modulus /\ size <= Modulus - Align
      /\ Live(i) /\ Fits(p, r) # {} /\ pools' = [pools EXCEPT ![i] = q]
  BY PoolAssumption DEF Allocate, NoneWraps
<1>2. r \in Nat /\ r > 0
  BY <1>1, RoundUpFacts
<1>3. Sound(p) /\ pools \in [Pool -> PoolState \cup {NULL}]
  BY <1>1, LivePool DEF IInv, Kept, TypeOK, PoolState
<1> HIDE DEF r
<1>4. k \in 1 .. Len(p.allocated) + 1 /\ r <= Gap(p, k)
  <2> HIDE DEF p
  <2> QED BY <1>1, <1>2, <1>3, FirstFitFacts
<1> HIDE DEF k, p
<1>5. /\ Sound(q) /\ q.start = p.start /\ q.size = p.size
      /\ Len(q.allocated) = Len(p.allocated) + 1
      /\ \A j \in 1 .. Len(p.allocated) + 1 :
           q.allocated[j] = IF j < k THEN p.allocated[j]
                            ELSE IF j = k THEN b ELSE p.allocated[j - 1]
  BY <1>2, <1>3, <1>4, InsertFacts
<1>6. Used(q) = Used(p) \cup {b}
  BY <1>2, <1>3, <1>4, <1>5, InsertUsed, ArenaView
<1>7. Candidate(p, k) \in Nat /\ Free(p, Candidate(p, k), r)
  <2>1. Candidate(p, k) \in Nat
    BY <1>3, <1>4, GapFacts
  <2>2. k \in Fits(p, r)
    BY <1>4 DEF Fits
  <2> QED BY <1>2, <1>3, <2>1, <2>2, FitIsFree
<1>8. b \in Block /\ b.start \in Nat /\ b.size = r /\ b.start = Candidate(p, k)
  BY <1>2, <1>7 DEF Block
<1> HIDE DEF b, q
<1>9. ASSUME NEW x \in Used(p) PROVE Arenas!Apart(b, x) /\ x # b
  <2>1. PICK j \in 1 .. Len(p.allocated) : x = p.allocated[j]
    BY <1>3, ArenaView
  <2>2. b.start + b.size <= x.start \/ x.start + x.size <= b.start
    BY <2>1, <1>7, <1>8 DEF Free, End
  <2>3. b.start + b.size > b.start
    BY <1>2, <1>8
  <2> QED BY <1>2, <1>8, <2>2, <2>3 DEF Arenas!Apart
<1>10. Extent(q) = Extent(p) /\ Extent(p) # NULL
       /\ Extent(p).start = p.start /\ Extent(p).size = p.size
  BY <1>3, <1>5, ArenaView
<1>11. Arenas!Within(b, Extent(p))
  BY <1>7, <1>8, <1>10 DEF Free, End, Arenas!Within
<1>12. /\ X' = X /\ U' = [U EXCEPT ![i] = Used(q)]
       /\ X[i] = Extent(p) /\ U[i] = Used(p) /\ U'[i] = Used(q)
  BY <1>1, <1>3, <1>10, ReplaceView DEF p
<1>13. b \in U'[i] \ U[i]
  <2> HIDE DEF U
  <2> QED BY <1>6, <1>9, <1>12
<1>14. U' = [U EXCEPT ![i] = @ \cup {b}]
  <2> HIDE DEF U
  <2> QED BY <1>6, <1>12
<1>15. /\ X[i] # NULL /\ b \in Arenas!Block /\ b.size > 0
       /\ Arenas!Within(b, X[i])
       /\ \A x \in U[i] : Arenas!Apart(b, x)
  <2> HIDE DEF U, X
  <2> QED BY <1>2, <1>8, <1>9, <1>10, <1>11, <1>12 DEF Arenas!Block, Block
<1> QED BY <1>12, <1>13, <1>14, <1>15 DEF Arenas!Allocate

\* What deallocate takes back was given out by that arena.
LEMMA DeallocateRefines ==
  ASSUME IInv, NEW c \in claims, Deallocate(c)
  PROVE  Arenas!Deallocate(c.pool)
<1> DEFINE X == [j \in Pool |-> Extent(pools[j])]
           U == [j \in Pool |-> Used(pools[j])]
           i == c.pool
           p == pools[i]
           k == Least(At(p, c.start))
           q == EraseBlock(p, k)
           a == p.allocated
<1>1. /\ Live(i) /\ At(p, c.start) # {} /\ i \in Pool
      /\ pools' = [pools EXCEPT ![i] = q]
  BY ClaimFacts DEF Deallocate
<1>2. Sound(p) /\ pools \in [Pool -> PoolState \cup {NULL}]
  BY <1>1, LivePool DEF IInv, Kept, TypeOK, PoolState
<1>3. \A j \in 1 .. Len(a) : a[j].size > 0
  BY <1>1 DEF IInv, NoEmptyBlock
<1> HIDE DEF p
<1>4. k \in 1 .. Len(a)
  <2>1. At(p, c.start) \in SUBSET Nat
    BY DEF At
  <2>2. k \in At(p, c.start)
    BY <1>1, <2>1, LeastFacts
  <2> QED BY <2>2 DEF At
<1> HIDE DEF k
<1>5. Sound(q) /\ q.start = p.start /\ q.size = p.size
  BY <1>2, <1>4, EraseFacts

\* No two blocks are alike: none is empty, and they do not meet.
<1>6. ASSUME NEW j \in 1 .. Len(a), a[j] = a[k] PROVE j = k
  <2>1. /\ Len(a) \in Nat /\ a[j].start \in Nat /\ a[j].size \in Nat
        /\ a[k].start = a[j].start /\ a[k].size = a[j].size /\ a[j].size > 0
    BY <1>2, <1>3, <1>4, <1>6, VectorType DEF Sound
  <2>2. j < k => a[j].start + a[j].size <= a[k].start
    BY <1>2, <1>4 DEF Sound, InOrder, End
  <2>3. k < j => a[k].start + a[k].size <= a[j].start
    BY <1>2, <1>4 DEF Sound, InOrder, End
  <2>4. ~ (j < k) /\ ~ (k < j)
    <3> HIDE DEF a
    <3> QED BY <2>1, <2>2, <2>3
  <2> QED BY <1>4, <2>1, <2>4
<1>7. Used(q) = Used(p) \ {a[k]}
  <2>1. q # NULL /\ p # NULL
    BY <1>2, <1>5, ArenaView
  <2> QED BY <1>2, <1>4, <1>6, <2>1, EraseUsed
<1>8. a[k] \in Used(p)
  BY <1>2, <1>4, ArenaView
<1>9. Extent(q) = Extent(p)
  BY <1>2, <1>5, ArenaView
<1> HIDE DEF q, i, a
<1>10. /\ X' = X /\ U' = [U EXCEPT ![i] = Used(q)] /\ U[i] = Used(p)
  BY <1>1, <1>2, <1>9, ReplaceView DEF p
<1>11. U' = [U EXCEPT ![i] = @ \ {a[k]}] /\ a[k] \in U[i]
  <2> HIDE DEF U
  <2> QED BY <1>7, <1>8, <1>10
<1>12. Arenas!Deallocate(i)
  BY <1>10, <1>11 DEF Arenas!Deallocate
<1> QED BY <1>12 DEF i

\* A pool made in a granted block is a new arena, all of it free.
LEMMA CreateRefines ==
  ASSUME IInv, NEW c \in claims, Create(c)
  PROVE  idInc \in Pool /\ Arenas!Create(idInc)
<1> DEFINE X == [j \in Pool |-> Extent(pools[j])]
           U == [j \in Pool |-> Used(pools[j])]
<1>0. PICK n : n = idInc
  OBVIOUS
<1> DEFINE q == [start |-> c.start, size |-> c.size, allocated |-> << >>]
<1>1. n < MaxPools /\ pools' = [pools EXCEPT ![n] = q]
  BY <1>0 DEF Create
<1>2. /\ pools \in [Pool -> PoolState \cup {NULL}] /\ n \in 2 .. MaxPools
      /\ \A j \in n .. MaxPools - 1 : pools[j] = NULL
  BY <1>0 DEF IInv, Kept, TypeOK, PoolState
<1>3. n \in Pool /\ pools[n] = NULL
  BY <1>1, <1>2, PoolNumbers
<1>4. << >> \in Seq(Block) /\ DOMAIN << >> = {}
  BY EmptySeq
<1>5. q \in PoolState
  BY <1>4, ClaimFacts DEF PoolState, IsRange
<1>6. q # NULL /\ q.allocated = << >> /\ q.start \in Nat /\ q.size \in Nat
  BY <1>5, PoolNumbers DEF PoolState
<1> HIDE DEF q
<1>7. Used(q) = {} /\ Used(pools[n]) = {} /\ Extent(pools[n]) = NULL
  BY <1>3, <1>4, <1>6 DEF Used, Extent
<1>8. Extent(q) \in Block
  BY <1>6 DEF Extent, Block
<1>9. /\ X' = [X EXCEPT ![n] = Extent(q)] /\ U' = U
      /\ X[n] = NULL /\ X'[n] = Extent(q)
  BY <1>1, <1>2, <1>3, <1>7, ReplaceView
<1>10. /\ X[n] = NULL /\ X'[n] \in Arenas!Block
       /\ X' = [X EXCEPT ![n] = X'[n]] /\ U' = U
  <2> HIDE DEF X, U
  <2> QED BY <1>8, <1>9 DEF Arenas!Block, Block
<1>11. Arenas!Create(n)
  BY <1>10 DEF Arenas!Create
<1> QED BY <1>0, <1>3, <1>11

\* Only an arena with nothing given out is deleted.
LEMMA DeleteRefines ==
  ASSUME IInv, NEW i \in Pool, Delete(i)
  PROVE  Arenas!Delete(i)
<1> DEFINE X == [j \in Pool |-> Extent(pools[j])]
           U == [j \in Pool |-> Used(pools[j])]
<1>1. /\ Live(i) /\ pools[i].allocated = << >>
      /\ pools' = [pools EXCEPT ![i] = NULL]
  BY DEF Delete, FullyFree
<1>2. pools \in [Pool -> PoolState \cup {NULL}] /\ Sound(pools[i])
  BY <1>1, LivePool DEF IInv, Kept, TypeOK, PoolState
<1>3. Extent(pools[i]) # NULL
  BY <1>2, ArenaView
<1>4. Used(pools[i]) = {} /\ Used(NULL) = {} /\ Extent(NULL) = NULL
  <2>1. DOMAIN << >> = {}
    BY EmptySeq
  <2> QED BY <1>1, <2>1 DEF Used, Extent
<1>5. /\ X' = [X EXCEPT ![i] = NULL] /\ U' = U /\ X[i] # NULL /\ U[i] = {}
  BY <1>1, <1>2, <1>3, <1>4, ReplaceView
<1> QED BY <1>5 DEF Arenas!Delete

\* Every step is one of an arena, or the arenas do not notice.
LEMMA StepRefines ==
  ASSUME IInv, NoneWraps, [Next]_vars
  PROVE  [Arenas!Next]_(Arenas!vars)
<1>1. ASSUME NEW i \in Pool, NEW size \in Request, Allocate(i, size)
      PROVE  Arenas!Next
  BY <1>1, AllocateRefines DEF Arenas!Next
<1>2. ASSUME NEW c \in claims, Deallocate(c) PROVE Arenas!Next
  BY <1>2, DeallocateRefines, ClaimFacts DEF Arenas!Next
<1>3. ASSUME NEW c \in claims, Create(c) PROVE Arenas!Next
  BY <1>3, CreateRefines DEF Arenas!Next
<1>4. ASSUME NEW i \in Pool, Delete(i) PROVE Arenas!Next
  BY <1>4, DeleteRefines DEF Arenas!Next
<1>5. CASE UNCHANGED vars
  BY <1>5 DEF vars, Arenas!vars, Extent, Used
<1> QED BY <1>1, <1>2, <1>3, <1>4, <1>5 DEF Next

\* The pools implement the arenas: a pool gives out ranges of its own memory
\* that do not meet and takes each back once, and it comes and goes empty.
THEOREM PoolsAreArenas == NoneWraps => (Spec => ImplementsArena)
<1> SUFFICES ASSUME NoneWraps PROVE Spec => ImplementsArena
  OBVIOUS
<1>1. Init => IInv
  BY InitIInv
<1>2. IInv /\ [Next]_vars => IInv'
  BY StepIInv
<1>3. IInv /\ [Next]_vars => [Arenas!Next]_(Arenas!vars)
  BY StepRefines
<1>4. Init => Arenas!Init
  BY InitRefines
<1> QED BY <1>1, <1>2, <1>3, <1>4, PTL DEF Spec, ImplementsArena, Arenas!Spec
=============================================================================
