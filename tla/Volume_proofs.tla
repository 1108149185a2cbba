---------------------------- MODULE Volume_proofs ----------------------------
(***************************************************************************)
(* Theorems about Volume, for every image and every choice of calls.       *)
(***************************************************************************)
EXTENDS Volume, Loops, SequenceTheorems, FiniteSetTheorems, TLAPS

-----------------------------------------------------------------------------
(* Least and greatest indices                                              *)

\* A set of indices has a least one.
LEMMA LeastIndex ==
  ASSUME NEW S \in SUBSET Nat, S # {}
  PROVE  Min(S) \in S /\ \A i \in S : Min(S) <= i
<1>1. PICK x \in S : \A y \in S : x <= y
  BY LeastNatural
<1> QED BY <1>1 DEF Min

\* A finite set of indices has a greatest one.
LEMMA GreatestIndex ==
  ASSUME NEW n \in Nat, NEW S \in SUBSET (0 .. n), S # {}
  PROVE  Max(S) \in S /\ \A i \in S : i <= Max(S)
<1> DEFINE U == {k \in 0 .. n : \A i \in S : i <= k}
<1>1. n \in U /\ U \in SUBSET Nat
  OBVIOUS
<1>2. PICK m \in U : \A k \in U : m <= k
  <2> HIDE DEF U
  <2> QED BY <1>1, LeastNatural
<1>3. m \in S
  <2> SUFFICES ASSUME m \notin S PROVE FALSE
    OBVIOUS
  <2>1. \A i \in S : i <= m /\ i # m /\ i \in Nat
    BY <1>2
  <2>2. m # 0
    <3>1. PICK i : i \in S
      OBVIOUS
    <3> QED BY <2>1, <3>1, <1>2
  <2>3. m - 1 \in U
    BY <1>2, <2>1, <2>2
  <2> QED BY <1>2, <2>3
<1>4. \A i \in S : i <= m
  BY <1>2
<1> QED BY <1>3, <1>4 DEF Max

\* The first place in a sequence with a property.
LEMMA findDirFirst ==
  ASSUME NEW d, Len(dirs) \in Nat
  PROVE  \/ /\ findDir(d) \in 1 .. Len(dirs)
            /\ dirs[findDir(d)].desc = d
            /\ \A i \in 1 .. Len(dirs) : dirs[i].desc = d => findDir(d) <= i
         \/ /\ findDir(d) = 0
            /\ \A i \in 1 .. Len(dirs) : dirs[i].desc # d
<1> DEFINE I == {i \in 1 .. Len(dirs) : dirs[i].desc = d}
<1>1. findDir(d) = IF I # {} THEN Min(I) ELSE 0
  BY DEF findDir, SelectInSeq
<1>2. I \in SUBSET Nat
  OBVIOUS
<1>3. CASE I # {}
  <2>1. Min(I) \in I /\ \A i \in I : Min(I) <= i
    <3> HIDE DEF I
    <3> QED BY <1>2, <1>3, LeastIndex
  <2> QED BY <2>1, <1>1, <1>3
<1>4. CASE I = {}
  BY <1>1, <1>4
<1> QED BY <1>3, <1>4

-----------------------------------------------------------------------------
(* Listings                                                                *)

\* One more entry has been read.
LEMMA NextPrefix ==
  ASSUME NEW T, NEW q \in Seq(T), NEW n \in 0 .. Len(q) - 1
  PROVE  SubSeq(q, 1, n + 1) = Append(SubSeq(q, 1, n), q[n + 1])
<1>1. Len(q) \in Nat /\ \A i \in 1 .. Len(q) : q[i] \in T
  BY SeqFacts
<1>2. n + 1 \in 1 .. Len(q) /\ 1 \in 1 .. Len(q) /\ (n + 1) - 1 = n
  BY <1>1
<1>3. SubSeq(q, 1, n) \in Seq(T)
  <2>1. 1 \in Int /\ n \in Int /\ \A i \in 1 .. n : q[i] \in T
    BY <1>1
  <2> QED BY <2>1, SubSeqProperties
<1>4. SubSeq(q, 1, n + 1) = SubSeq(q, 1, (n + 1) - 1) \o << q[n + 1] >>
  BY <1>2, SubSeqRecursiveSecond
<1>5. Append(SubSeq(q, 1, n), q[n + 1]) = SubSeq(q, 1, n) \o << q[n + 1] >>
  BY <1>1, <1>2, <1>3, AppendIsConcat
<1> QED BY <1>2, <1>4, <1>5

\* What is read of a sequence is a sequence of its elements.
LEMMA PrefixOf ==
  ASSUME NEW T, NEW q \in Seq(T), NEW n \in 0 .. Len(q)
  PROVE  /\ SubSeq(q, 1, n) \in Seq(T) /\ Len(SubSeq(q, 1, n)) = n
         /\ \A i \in 1 .. n : SubSeq(q, 1, n)[i] = q[i]
<1>1. Len(q) \in Nat /\ \A i \in 1 .. Len(q) : q[i] \in T
  BY SeqFacts
<1>2. 1 \in Int /\ n \in Int /\ \A i \in 1 .. n : q[i] \in T
  BY <1>1
<1>3. /\ SubSeq(q, 1, n) \in Seq(T)
      /\ Len(SubSeq(q, 1, n)) = IF 1 <= n THEN n - 1 + 1 ELSE 0
      /\ \A i \in 1 .. n - 1 + 1 : SubSeq(q, 1, n)[i] = q[1 + i - 1]
  BY <1>2, SubSeqProperties
<1> QED BY <1>1, <1>3

Begins(s, t) == Len(s) <= Len(t) /\ \A i \in 1 .. Len(s) : s[i] = t[i]

\* IsPrefix, element by element.
LEMMA BeginsPrefix ==
  ASSUME NEW T, NEW s \in Seq(T), NEW t \in Seq(T), Begins(s, t)
  PROVE  IsPrefix(s, t)
<1>1. Len(s) \in Nat /\ Len(t) \in Nat /\ Len(s) \in 0 .. Len(s) /\ Len(s) \in 0 .. Len(t)
  BY SeqFacts DEF Begins
<1>2. /\ SubSeq(s, 1, Len(s)) \in Seq(T) /\ Len(SubSeq(s, 1, Len(s))) = Len(s)
      /\ \A i \in 1 .. Len(s) : SubSeq(s, 1, Len(s))[i] = s[i]
  BY <1>1, PrefixOf
<1>3. /\ SubSeq(t, 1, Len(s)) \in Seq(T) /\ Len(SubSeq(t, 1, Len(s))) = Len(s)
      /\ \A i \in 1 .. Len(s) : SubSeq(t, 1, Len(s))[i] = t[i]
  BY <1>1, PrefixOf
<1>4. SubSeq(s, 1, Len(s)) = SubSeq(t, 1, Len(s))
  BY <1>2, <1>3, SeqEqual DEF Begins
<1> QED BY <1>4 DEF IsPrefix, Begins

\* The loop of Only keeps what it has.
LEMMA RoundsBegin ==
  ASSUME NEW T, NEW q \in Seq(T), NEW K, NEW P, Rounded(P, q, K),
         NEW n \in 0 .. Len(q)
  PROVE  Begins(P[n], P[Len(q)])
<1>1. Len(q) \in Nat /\ \A i \in 1 .. Len(q) : q[i] \in T
  BY SeqFacts
<1>2. \A i \in 0 .. Len(q) : P[i] \in Seq(T)
  BY RoundSeq
<1>3. \A i \in 0 .. Len(q) : Len(P[i]) \in Nat
  BY <1>2, SeqFacts
<1> DEFINE m == Len(q) - n
           Inv == {i \in 0 .. m : Begins(P[n], P[n + i])}
<1>4. 0 \in Inv
  BY <1>1, <1>3 DEF Begins
<1>5. ASSUME NEW i \in 0 .. m - 1, i \in Inv PROVE i + 1 \in Inv
  <2> DEFINE j == n + i
  <2>1. j \in 0 .. Len(q) /\ j + 1 \in 1 .. Len(q) /\ (j + 1) - 1 = j
        /\ i + 1 \in 0 .. m /\ n + (i + 1) = j + 1
    BY <1>1
  <2>2. P[j + 1] = IF q[j + 1] \in K THEN Append(P[(j + 1) - 1], q[j + 1])
                   ELSE P[(j + 1) - 1]
    BY <2>1 DEF Rounded
  <2>3. Begins(P[n], P[j])
    BY <1>5
  <2> HIDE DEF j
  <2>4. CASE q[j + 1] \in K
    <3>1. /\ Len(Append(P[j], q[j + 1])) = Len(P[j]) + 1
          /\ \A k \in 1 .. Len(P[j]) : Append(P[j], q[j + 1])[k] = P[j][k]
      BY <1>1, <1>2, <2>1, AppendProperties
    <3>2. Len(P[n]) \in Nat /\ Len(P[j]) \in Nat
      BY <1>3, <2>1
    <3>3. P[j + 1] = Append(P[j], q[j + 1])
      BY <2>1, <2>2, <2>4
    <3>4. Begins(P[n], P[j + 1])
      BY <2>3, <3>1, <3>2, <3>3 DEF Begins
    <3> QED BY <2>1, <3>4
  <2>5. CASE q[j + 1] \notin K
    BY <2>1, <2>2, <2>3, <2>5
  <2> QED BY <2>4, <2>5
<1>6. m \in Inv
  <2>1. m \in Nat
    BY <1>1
  <2> HIDE DEF Inv, m
  <2> QED BY <1>4, <1>5, <2>1, Rounds
<1> QED BY <1>1, <1>6

\* What is selected from the first elements begins what is selected from all.
LEMMA OnlyPrefix ==
  ASSUME NEW T, NEW q \in Seq(T), NEW K, NEW n \in 0 .. Len(q)
  PROVE  IsPrefix(Only(SubSeq(q, 1, n), K), Only(q, K))
<1>1. /\ SubSeq(q, 1, n) \in Seq(T) /\ Len(SubSeq(q, 1, n)) = n
      /\ \A i \in 1 .. n : SubSeq(q, 1, n)[i] = q[i]
  BY PrefixOf
<1>2. Len(q) \in Nat /\ n \in Nat /\ n <= Len(q) /\ n <= n
  BY SeqFacts
<1>3. PICK P : Rounded(P, q, K) /\ Only(q, K) = P[Len(q)]
  BY OnlyRounds
<1>4. PICK Q : Rounded(Q, SubSeq(q, 1, n), K) /\ Only(SubSeq(q, 1, n), K) = Q[n]
  BY <1>1, OnlyRounds
<1>5. Q[n] = P[n]
  <2>1. PICK t : t = SubSeq(q, 1, n)
    OBVIOUS
  <2>2. /\ Rounded(Q, t, K) /\ Len(t) = n /\ Len(t) \in Nat /\ n <= Len(t)
        /\ \A i \in 1 .. n : t[i] = q[i]
    BY <1>1, <1>2, <1>4, <2>1
  <2> QED BY <1>2, <1>3, <2>2, RoundsAgree
<1>6. Begins(P[n], P[Len(q)])
  BY <1>3, RoundsBegin
<1>7. P[n] \in Seq(T) /\ P[Len(q)] \in Seq(T)
  BY <1>2, <1>3, RoundSeq
<1> QED BY <1>3, <1>4, <1>5, <1>6, <1>7, BeginsPrefix

\* Selecting twice.
LEMMA OnlyOnly ==
  ASSUME NEW T, NEW q \in Seq(T), NEW K, NEW L, \A e \in T : e \in K => e \in L
  PROVE  Only(Only(q, L), K) = Only(q, K)
<1>1. Len(q) \in Nat /\ \A i \in 1 .. Len(q) : q[i] \in T
  BY SeqFacts
<1>2. PICK P : Rounded(P, q, L) /\ Only(q, L) = P[Len(q)]
  BY OnlyRounds
<1>3. PICK Q : Rounded(Q, q, K) /\ Only(q, K) = Q[Len(q)]
  BY OnlyRounds
<1>4. \A i \in 0 .. Len(q) : P[i] \in Seq(T)
  BY <1>2, RoundSeq
<1> DEFINE Inv == {i \in 0 .. Len(q) : Only(P[i], K) = Q[i]}
<1>5. 0 \in Inv
  <2>1. P[0] = << >> /\ Q[0] = << >>
    BY <1>2, <1>3 DEF Rounded
  <2>2. Only(P[0], K) = Q[0]
    BY <2>1, OnlyEmpty
  <2> QED BY <1>1, <2>2
<1>6. ASSUME NEW i \in 0 .. Len(q) - 1, i \in Inv PROVE i + 1 \in Inv
  <2>1. i + 1 \in 1 .. Len(q) /\ (i + 1) - 1 = i /\ i + 1 \in 0 .. Len(q)
        /\ i \in 0 .. Len(q)
    BY <1>1
  <2>2. /\ P[i + 1] = IF q[i + 1] \in L THEN Append(P[(i + 1) - 1], q[i + 1])
                       ELSE P[(i + 1) - 1]
        /\ Q[i + 1] = IF q[i + 1] \in K THEN Append(Q[(i + 1) - 1], q[i + 1])
                       ELSE Q[(i + 1) - 1]
    BY <1>2, <1>3, <2>1 DEF Rounded
  <2>3. q[i + 1] \in T /\ P[i] \in Seq(T) /\ Only(P[i], K) = Q[i]
    BY <1>1, <1>4, <1>6, <2>1
  <2>4. Only(Append(P[i], q[i + 1]), K) =
          IF q[i + 1] \in K THEN Append(Only(P[i], K), q[i + 1]) ELSE Only(P[i], K)
    <3>1. PICK p, e : p = P[i] /\ e = q[i + 1]
      OBVIOUS
    <3>2. p \in Seq(T) /\ e \in T
      BY <2>3, <3>1
    <3>3. Only(Append(p, e), K) = IF e \in K THEN Append(Only(p, K), e) ELSE Only(p, K)
      BY <3>2, OnlyAppend
    <3> QED BY <3>1, <3>3
  <2>5. Only(P[i + 1], K) = Q[i + 1]
    BY <2>1, <2>2, <2>3, <2>4
  <2> QED BY <2>1, <2>5
<1>7. Len(q) \in Inv
  <2> HIDE DEF Inv
  <2> QED BY <1>1, <1>5, <1>6, Rounds
<1> QED BY <1>2, <1>3, <1>7

\* What is kept is from the set.
LEMMA OnlyIn ==
  ASSUME NEW T, NEW q \in Seq(T), NEW K
  PROVE  Only(q, K) \in Seq(K)
<1> DEFINE Inv == {s \in Seq(T) : Only(s, K) \in Seq(K)}
<1>1. << >> \in Inv
  <2>1. Only(<< >>, K) = << >>
    BY OnlyEmpty
  <2>2. << >> \in Seq(T) /\ << >> \in Seq(K)
    BY EmptySeq
  <2> QED BY <2>1, <2>2
<1>2. ASSUME NEW s \in Seq(T), NEW e \in T, s \in Inv PROVE Append(s, e) \in Inv
  <2>1. Append(s, e) \in Seq(T)
    BY AppendProperties
  <2>2. PICK kept \in Seq(K) : kept = Only(s, K)
    BY <1>2
  <2>3. Only(Append(s, e), K) = IF e \in K THEN Append(kept, e) ELSE kept
    BY <2>2, OnlyAppend
  <2>4. e \in K => Append(kept, e) \in Seq(K)
    BY AppendProperties
  <2>5. Only(Append(s, e), K) \in Seq(K)
    BY <2>3, <2>4
  <2> QED BY <2>1, <2>5
<1>3. Seq(T) \subseteq Inv
  <2> HIDE DEF Inv
  <2> QED BY <1>1, <1>2, Appends
<1> QED BY <1>3

-----------------------------------------------------------------------------
(* Directories                                                             *)

\* What has been read of a directory are the entries of the root up to its
\* position.
SeenUpTo == \A k \in DOMAIN dirs :
  /\ dirs[k].pos \in 0 .. Len(RootEnts(image))
  /\ dirs[k].seen = SubSeq(RootEnts(image), 1, dirs[k].pos)

DirInv ==
  /\ image \in Images
  /\ dirs \in Seq(DirType) /\ Len(dirs) <= MaxDirs
  /\ SeenUpTo
  /\ YoungerDirsWait

\* The root directory and what is listed of it.
LEMMA RootOf ==
  ASSUME image \in Images
  PROVE  /\ image.root \in Seq(ToSet(image.root))
         /\ RootEnts(image) \in Seq(ToSet(image.root))
         /\ Len(RootEnts(image)) \in Nat
         /\ 1 \in DOMAIN image.root
         /\ ToSet(image.root) = {image.root[i] : i \in DOMAIN image.root}
<1>1. image.root \in Seq(ToSet(image.root)) /\ image.root # << >>
  BY VolumeAssumption
<1>2. RootEnts(image) \in Seq(ToSet(image.root))
  <2> DEFINE L == {e \in ToSet(image.root) : Listed(e)}
  <2>1. PICK R : Rounded(R, image.root, L) /\ Only(image.root, L) = R[Len(image.root)]
    <3> HIDE DEF L
    <3> QED BY <1>1, OnlyRounds
  <2>2. Len(image.root) \in 0 .. Len(image.root)
    BY <1>1, SeqFacts
  <2> HIDE DEF L
  <2>3. R[Len(image.root)] \in Seq(ToSet(image.root))
    BY <1>1, <2>1, <2>2, RoundSeq
  <2> QED BY <2>1, <2>3 DEF RootEnts, L
<1>3. Len(RootEnts(image)) \in Nat
  BY <1>2, SeqFacts
<1>4. 1 \in DOMAIN image.root
  BY <1>1, SeqFacts
<1> QED BY <1>1, <1>2, <1>3, <1>4 DEF ToSet

\* What is known of a directory in the vector.
LEMMA DirOf ==
  ASSUME DirInv
  PROVE  /\ Len(dirs) \in Nat /\ DOMAIN dirs = 1 .. Len(dirs)
         /\ \A k \in 1 .. Len(dirs) : dirs[k] \in DirType
<1>1. dirs \in Seq(DirType)
  BY DEF DirInv
<1> QED BY <1>1, SeqFacts

\* The new vector is as it should be when each directory is.
LEMMA DirsHold ==
  ASSUME DirInv, image' = image, dirs' \in Seq(DirType), Len(dirs') <= MaxDirs,
         \A k \in 1 .. Len(dirs') :
           /\ dirs'[k].pos \in 0 .. Len(RootEnts(image))
           /\ dirs'[k].seen = SubSeq(RootEnts(image), 1, dirs'[k].pos),
         \A j, k \in 1 .. Len(dirs') :
           j < k /\ dirs'[j].desc = dirs'[k].desc => dirs'[k].pos = 0
  PROVE  DirInv'
<1>1. DOMAIN dirs' = 1 .. Len(dirs')
  BY SeqFacts
<1>2. DirType' = DirType
  BY DEF DirType
<1>3. image' \in Images /\ RootEnts(image)' = RootEnts(image)
  BY DEF DirInv
<1>4. SeenUpTo'
  BY <1>1, <1>3 DEF SeenUpTo
<1>5. YoungerDirsWait'
  BY <1>1 DEF YoungerDirsWait
<1> QED BY <1>2, <1>3, <1>4, <1>5 DEF DirInv

\* A new directory has read nothing.
LEMMA OpenStep ==
  ASSUME DirInv, VMDirectoryOpen PROVE DirInv'
<1>1. PICK dir \in {RootDir} \cup OtherDirs : dirs' = Append(dirs, dir)
  BY DEF VMDirectoryOpen
<1>2. image \in Images /\ image' = image
  BY DEF DirInv, VMDirectoryOpen
<1>3. dir \in DirType /\ dir.pos = 0 /\ dir.seen = << >>
  <2>1. << >> \in Seq({image.root[i] : i \in DOMAIN image.root})
    BY EmptySeq
  <2>2. CASE dir \in OtherDirs
    <3>1. PICK none : none = << >>
      OBVIOUS
    <3>2. dir \in [desc : Junk, pos : {0}, ent : JunkNames, seen : {none}]
      BY <2>2, <3>1 DEF OtherDirs
    <3>3. none \in Seq({image.root[i] : i \in DOMAIN image.root})
      BY <2>1, <3>1
    <3>4. Junk \subseteq Int
      BY VolumeAssumption
    <3>5. dir \in DirType
      <4> DEFINE E == {image.root[i] : i \in DOMAIN image.root}
                 N == JunkNames \cup {image.root[i].name : i \in DOMAIN image.root}
      <4>1. /\ dir = [desc |-> dir.desc, pos |-> dir.pos, ent |-> dir.ent,
                      seen |-> dir.seen]
            /\ dir.desc \in Junk /\ dir.pos \in Nat /\ dir.ent \in JunkNames
            /\ dir.seen = none
        BY <3>2
      <4>2. dir.desc \in Int /\ dir.ent \in N /\ dir.seen \in Seq(E)
        BY <3>3, <3>4, <4>1
      <4>3. DirType = [desc : Int, pos : Nat, ent : N, seen : Seq(E)]
        BY DEF DirType
      <4> HIDE DEF E, N
      <4> QED BY <4>1, <4>2, <4>3
    <3>6. dir.pos = 0 /\ dir.seen = none
      BY <3>2
    <3> QED BY <3>1, <3>5, <3>6
  <2>3. CASE dir = RootDir
    <3>1. 1 \in DOMAIN image.root
      BY <1>2, RootOf
    <3> QED BY <2>1, <2>3, <3>1 DEF RootDir, DirType, RootIndex
  <2> QED BY <1>1, <2>2, <2>3
<1>4. /\ dirs \in Seq(DirType) /\ Len(dirs) \in Nat /\ MaxDirs \in Nat
      /\ DOMAIN dirs = 1 .. Len(dirs)
  BY DirOf, VolumeAssumption DEF DirInv
<1>5. /\ dirs' \in Seq(DirType) /\ Len(dirs') = Len(dirs) + 1
      /\ \A k \in 1 .. Len(dirs) + 1 : dirs'[k] = IF k = Len(dirs) + 1 THEN dir ELSE dirs[k]
  BY <1>1, <1>3, <1>4, AppendFacts
<1>6. Len(dirs') <= MaxDirs
  BY <1>4, <1>5 DEF VMDirectoryOpen
<1>7. << >> = SubSeq(RootEnts(image), 1, 0)
  BY SubSeqEmpty
<1>8. ASSUME NEW k \in 1 .. Len(dirs')
      PROVE  /\ dirs'[k].pos \in 0 .. Len(RootEnts(image))
             /\ dirs'[k].seen = SubSeq(RootEnts(image), 1, dirs'[k].pos)
  <2>1. CASE k = Len(dirs) + 1
    <3>1. dirs'[k] = dir
      BY <1>5, <2>1
    <3>2. 0 \in 0 .. Len(RootEnts(image))
      BY <1>2, RootOf
    <3> QED BY <1>3, <1>7, <3>1, <3>2
  <2>2. CASE k # Len(dirs) + 1
    <3>1. k \in DOMAIN dirs /\ dirs'[k] = dirs[k]
      BY <1>4, <1>5, <2>2
    <3> QED BY <3>1 DEF DirInv, SeenUpTo
  <2> QED BY <2>1, <2>2
<1>9. ASSUME NEW j \in 1 .. Len(dirs'), NEW k \in 1 .. Len(dirs'),
             j < k, dirs'[j].desc = dirs'[k].desc
      PROVE  dirs'[k].pos = 0
  <2>1. CASE k = Len(dirs) + 1
    BY <1>3, <1>5, <2>1
  <2>2. CASE k # Len(dirs) + 1
    <3>1. /\ k \in DOMAIN dirs /\ dirs'[k] = dirs[k]
          /\ j \in DOMAIN dirs /\ dirs'[j] = dirs[j]
      BY <1>4, <1>5, <1>9, <2>2
    <3> QED BY <1>9, <3>1 DEF DirInv, YoungerDirsWait
  <2> QED BY <2>1, <2>2
<1> QED BY <1>2, <1>5, <1>6, <1>8, <1>9, DirsHold

\* Those that come after one that is closed keep their order.
LEMMA CloseStep ==
  ASSUME DirInv, NEW d, VMDirectoryClose(d) PROVE DirInv'
<1>1. PICK k : k = findDir(d)
  OBVIOUS
<1>2. dirs \in Seq(DirType) /\ Len(dirs) \in Nat /\ DOMAIN dirs = 1 .. Len(dirs)
      /\ image' = image /\ image \in Images /\ MaxDirs \in Nat /\ Len(dirs) <= MaxDirs
  BY DirOf, VolumeAssumption DEF DirInv, VMDirectoryClose
<1>3. k \in 1 .. Len(dirs)
  BY <1>1, <1>2, findDirFirst DEF VMDirectoryClose
<1>4. dirs' \in Seq(DirType) /\ Dropped(dirs, k, dirs')
  BY <1>1, <1>2, <1>3, CutDrops DEF VMDirectoryClose, RemoveAt
<1>5. /\ Len(dirs') = Len(dirs) - 1
      /\ \A j \in 1 .. Len(dirs') : dirs'[j] = IF j < k THEN dirs[j] ELSE dirs[j + 1]
  BY <1>4 DEF Dropped
<1> DEFINE was(j) == IF j < k THEN j ELSE j + 1
<1>6. ASSUME NEW j \in 1 .. Len(dirs')
      PROVE  was(j) \in DOMAIN dirs /\ dirs'[j] = dirs[was(j)]
  BY <1>2, <1>3, <1>5
<1>7. \A i, j \in 1 .. Len(dirs') : i < j => was(i) < was(j)
  BY <1>2, <1>3, <1>5
<1> HIDE DEF was
<1>8. \A j \in 1 .. Len(dirs') :
         /\ dirs'[j].pos \in 0 .. Len(RootEnts(image))
         /\ dirs'[j].seen = SubSeq(RootEnts(image), 1, dirs'[j].pos)
  BY <1>6 DEF DirInv, SeenUpTo
<1>9. \A i, j \in 1 .. Len(dirs') :
         i < j /\ dirs'[i].desc = dirs'[j].desc => dirs'[j].pos = 0
  BY <1>6, <1>7 DEF DirInv, YoungerDirsWait
<1>10. Len(dirs') <= MaxDirs
  BY <1>2, <1>5
<1> QED BY <1>2, <1>4, <1>8, <1>9, <1>10, DirsHold

\* The first directory of a descriptor is changed to another of its type.
LEMMA ChangeStep ==
  ASSUME DirInv, NEW d, NEW dir \in DirType, findDir(d) # 0, image' = image,
         dirs' = [dirs EXCEPT ![findDir(d)] = dir], dir.desc = dirs[findDir(d)].desc,
         dir.pos \in 0 .. Len(RootEnts(image)),
         dir.seen = SubSeq(RootEnts(image), 1, dir.pos)
  PROVE  DirInv'
<1>1. PICK k : k = findDir(d)
  OBVIOUS
<1>2. dirs \in Seq(DirType) /\ Len(dirs) \in Nat /\ DOMAIN dirs = 1 .. Len(dirs)
      /\ Len(dirs) <= MaxDirs
  BY DirOf DEF DirInv
<1>3. k \in 1 .. Len(dirs) /\ dirs[k].desc = d
      /\ \A i \in 1 .. Len(dirs) : dirs[i].desc = d => k <= i
  BY <1>1, <1>2, findDirFirst
<1>4. /\ dirs' \in Seq(DirType) /\ Len(dirs') = Len(dirs)
      /\ \A j \in 1 .. Len(dirs) : dirs'[j] = IF j = k THEN dir ELSE dirs[j]
  BY <1>1, <1>2, <1>3, ExceptSeq
<1>5. \A j \in 1 .. Len(dirs') :
         /\ dirs'[j].pos \in 0 .. Len(RootEnts(image))
         /\ dirs'[j].seen = SubSeq(RootEnts(image), 1, dirs'[j].pos)
  BY <1>2, <1>4 DEF DirInv, SeenUpTo
<1>6. ASSUME NEW i \in 1 .. Len(dirs'), NEW j \in 1 .. Len(dirs'),
             i < j, dirs'[i].desc = dirs'[j].desc
      PROVE  dirs'[j].pos = 0
  <2>1. dirs'[i].desc = dirs[i].desc /\ dirs'[j].desc = dirs[j].desc
    BY <1>1, <1>4
  <2>2. CASE j = k
    BY <1>2, <1>3, <1>4, <1>6, <2>1, <2>2
  <2>3. CASE j # k
    BY <1>2, <1>4, <1>6, <2>1, <2>3 DEF DirInv, YoungerDirsWait
  <2> QED BY <2>2, <2>3
<1> QED BY <1>2, <1>4, <1>5, <1>6, DirsHold

\* Only the oldest directory of the descriptor goes on, by one entry.
LEMMA ReadStep ==
  ASSUME DirInv, NEW d, VMDirectoryRead(d) PROVE DirInv'
<1> DEFINE k == findDir(d)
           R == RootEnts(image)
           pos == dirs[k].pos
           dir == Advance(dirs[k], R[pos + 1])
           E == {image.root[i] : i \in DOMAIN image.root}
<1>1. /\ k # 0 /\ pos < Len(R) /\ image' = image /\ image \in Images
      /\ dirs' = [dirs EXCEPT ![k] = dir]
  BY DEF VMDirectoryRead, DirInv
<1>2. /\ k \in DOMAIN dirs /\ dirs[k] \in DirType
  BY <1>1, findDirFirst, DirOf
<1>3. R \in Seq(E) /\ Len(R) \in Nat
  BY <1>1, RootOf
<1>4. pos \in 0 .. Len(R) - 1 /\ dirs[k].seen = SubSeq(R, 1, pos)
  BY <1>1, <1>2, <1>3 DEF DirInv, SeenUpTo
<1>5. R[pos + 1] \in E /\ pos + 1 \in 0 .. Len(R) /\ pos + 1 \in Nat
  <2>1. pos + 1 \in 1 .. Len(R)
    BY <1>3, <1>4
  <2> HIDE DEF pos, R, E
  <2> QED BY <1>3, <2>1, SeqFacts
<1>6. /\ dir.desc = dirs[k].desc /\ dir.pos = pos + 1
      /\ dir.seen = Append(dirs[k].seen, R[pos + 1])
      /\ dir = [desc |-> dirs[k].desc, pos |-> pos + 1, ent |-> dirs[k].ent,
                seen |-> Append(dirs[k].seen, R[pos + 1])]
  <2>1. PICK now : now = Append(dirs[k].seen, R[pos + 1])
    OBVIOUS
  <2>2. PICK was : was = dirs[k]
    OBVIOUS
  <2>3. dir = [[was EXCEPT !.pos = was.pos + 1] EXCEPT !.seen = now]
    BY <2>1, <2>2 DEF Advance
  <2>4. was \in [desc : Int, pos : Nat, ent : JunkNames \cup E, seen : Seq(E)]
        \/ was \in DirType
    BY <1>2, <2>2
  <2>5. dir = [desc |-> was.desc, pos |-> was.pos + 1, ent |-> was.ent, seen |-> now]
    <3> HIDE DEF dir, E
    <3> QED BY <2>3, <2>4 DEF DirType
  <2> HIDE DEF dir
  <2> QED BY <2>1, <2>2, <2>5
<1>7. dir.seen = SubSeq(R, 1, pos + 1)
  <2> HIDE DEF pos, R, E
  <2> QED BY <1>3, <1>4, <1>6, NextPrefix
<1>8. SubSeq(R, 1, pos + 1) \in Seq(E)
  <2> HIDE DEF pos, R, E
  <2> QED BY <1>3, <1>5, PrefixOf
<1>9. dir \in DirType
  <2>1. dirs[k].desc \in Int /\ dir.seen \in Seq(E)
        /\ dirs[k].ent \in JunkNames \cup {image.root[i].name : i \in DOMAIN image.root}
    BY <1>2, <1>7, <1>8 DEF DirType
  <2> QED BY <1>5, <1>6, <2>1 DEF DirType
<1>10. dir.pos \in 0 .. Len(R) /\ dir.seen = SubSeq(R, 1, dir.pos)
  BY <1>5, <1>6, <1>7
<1> HIDE DEF dir
<1> QED BY <1>1, <1>6, <1>9, <1>10, ChangeStep

\* Rewinding forgets what was read.
LEMMA RewindStep ==
  ASSUME DirInv, NEW d, VMDirectoryRewind(d) PROVE DirInv'
<1> DEFINE k == findDir(d)
           dir == [dirs[k] EXCEPT !.pos = 0, !.seen = << >>]
<1>1. image' = image /\ image \in Images
  BY DEF VMDirectoryRewind, DirInv
<1>2. CASE k = 0
  <2>1. dirs' = dirs
    BY <1>2 DEF VMDirectoryRewind
  <2> QED BY <1>1, <2>1 DEF DirInv, SeenUpTo, YoungerDirsWait, DirType
<1>3. CASE k # 0
  <2>1. k \in DOMAIN dirs /\ dirs[k] \in DirType
    BY <1>3, findDirFirst, DirOf
  <2>2. dirs' = [dirs EXCEPT ![k] = dir]
    BY <1>3, <2>1 DEF VMDirectoryRewind
  <2>3. << >> \in Seq({image.root[i] : i \in DOMAIN image.root})
    BY EmptySeq
  <2>4. dir \in DirType /\ dir.desc = dirs[k].desc /\ dir.pos = 0 /\ dir.seen = << >>
    BY <2>1, <2>3 DEF DirType
  <2>5. SubSeq(RootEnts(image), 1, 0) = << >> /\ 0 \in 0 .. Len(RootEnts(image))
    BY <1>1, RootOf, SubSeqEmpty
  <2>6. dir.pos \in 0 .. Len(RootEnts(image)) /\ dir.seen = SubSeq(RootEnts(image), 1, dir.pos)
    BY <2>4, <2>5
  <2> HIDE DEF dir
  <2> QED BY <1>1, <1>3, <2>2, <2>4, <2>6, ChangeStep
<1> QED BY <1>2, <1>3

\* The directories are in order from the start and after every step.
LEMMA DirInvInvariant == Spec => []DirInv
<1>1. Init => DirInv
  <2> SUFFICES ASSUME Init PROVE DirInv
    OBVIOUS
  <2>1. << >> \in Seq(DirType) /\ Len(<< >>) = 0 /\ DOMAIN << >> = {}
    BY EmptySeq
  <2>2. image \in Images /\ dirs = << >> /\ 0 <= MaxDirs
    BY VolumeAssumption DEF Init
  <2> QED BY <2>1, <2>2 DEF DirInv, SeenUpTo, YoungerDirsWait
<1>2. DirInv /\ [Next]_vars => DirInv'
  <2> SUFFICES ASSUME DirInv, [Next]_vars PROVE DirInv'
    OBVIOUS
  <2>1. ASSUME image' = image, dirs' = dirs PROVE DirInv'
    BY <2>1 DEF DirInv, SeenUpTo, YoungerDirsWait, DirType
  <2>2. CASE UNCHANGED vars
    BY <2>1, <2>2 DEF vars
  <2>3. CASE VMDirectoryOpen
    BY <2>3, OpenStep
  <2>4. ASSUME NEW d \in Descs, VMDirectoryClose(d) PROVE DirInv'
    BY <2>4, CloseStep
  <2>5. ASSUME NEW d \in Descs, VMDirectoryRead(d) PROVE DirInv'
    BY <2>5, ReadStep
  <2>6. ASSUME NEW d \in Descs, VMDirectoryRewind(d) PROVE DirInv'
    BY <2>6, RewindStep
  <2>7. ASSUME NEW d \in Descs, NEW length \in Lengths, VMFileReadFind(d, length)
        PROVE  DirInv'
    BY <2>1, <2>7 DEF VMFileReadFind
  <2>9. CASE VMFileRead
    BY <2>1, <2>9 DEF VMFileRead
  <2>8. ASSUME NEW arg \in Steps, VMDirectoryChange(arg) \/ Follow(arg) PROVE DirInv'
    BY <2>1, <2>8 DEF VMDirectoryChange, Follow
  <2> QED BY <2>2, <2>3, <2>4, <2>5, <2>6, <2>7, <2>8, <2>9 DEF Next
<1> QED BY <1>1, <1>2, PTL DEF Spec

\* Open directories list the root, each file in use once and in order, and the
\* younger of two with one descriptor waits at its start (findDir,
\* VMDirectoryRead, Dir::incPos).
THEOREM ListsTheRoot == Spec => []DirectoriesList
<1>1. DirInv => DirectoriesList
  <2> SUFFICES ASSUME DirInv PROVE ListsInOrder
    BY DEF DirectoriesList, DirInv
  <2> DEFINE F == {e \in ToSet(image.root) : e.kind = "used" /\ ~e.long}
             L == {e \in ToSet(image.root) : Listed(e)}
             R == RootEnts(image)
             T == ToSet(image.root)
  <2>1. image \in Images /\ R \in Seq(T) /\ image.root \in Seq(T) /\ Len(R) \in Nat
    BY RootOf DEF DirInv
  <2>2. \A q : InUse(q) = Only(q, F)
    BY DEF InUse
  <2>3. Only(R, F) = Only(image.root, F)
    <3>1. \A e \in T : e \in F => e \in L
      BY DEF Listed
    <3>2. R = Only(image.root, L)
      BY DEF RootEnts
    <3> HIDE DEF F, L, R, T
    <3> QED BY <2>1, <3>1, <3>2, OnlyOnly
  <2> SUFFICES ASSUME NEW k \in DOMAIN dirs
               PROVE  /\ IsPrefix(Only(dirs[k].seen, F), Only(image.root, F))
                      /\ dirs[k].pos = Len(R) => Only(dirs[k].seen, F) = Only(image.root, F)
    BY <2>2 DEF ListsInOrder
  <2>4. dirs[k].pos \in 0 .. Len(R) /\ dirs[k].seen = SubSeq(R, 1, dirs[k].pos)
    BY DEF DirInv, SeenUpTo
  <2> HIDE DEF F, L, R, T
  <2>5. IsPrefix(Only(dirs[k].seen, F), Only(R, F))
    BY <2>1, <2>4, OnlyPrefix
  <2>6. ASSUME dirs[k].pos = Len(R) PROVE dirs[k].seen = R
    BY <2>1, <2>4, <2>6, SubSeqFull
  <2> QED BY <2>3, <2>5, <2>6
<1> QED BY <1>1, DirInvInvariant, PTL

-----------------------------------------------------------------------------
(* Texts                                                                   *)

\* The last element and those before it.
LEMMA LastOfAppend ==
  ASSUME NEW T, NEW s \in Seq(T), NEW e \in T
  PROVE  Front(Append(s, e)) = s /\ Last(Append(s, e)) = e
<1>1. PICK t \in Seq(T) : t = Append(s, e)
  BY AppendProperties
<1>2. /\ Len(s) \in Nat /\ Len(t) = Len(s) + 1 /\ t[Len(s) + 1] = e
      /\ \A i \in 1 .. Len(s) : t[i] = s[i]
  BY <1>1, SeqFacts, AppendProperties
<1>3. Last(t) = e
  BY <1>2 DEF Last
<1>4. Front(t) = s
  <2>1. Len(t) - 1 = Len(s) /\ Len(s) \in 0 .. Len(t)
    BY <1>2
  <2>2. /\ SubSeq(t, 1, Len(s)) \in Seq(T) /\ Len(SubSeq(t, 1, Len(s))) = Len(s)
        /\ \A i \in 1 .. Len(s) : SubSeq(t, 1, Len(s))[i] = t[i]
    BY <2>1, PrefixOf
  <2>3. SubSeq(t, 1, Len(s)) = s
    BY <1>2, <2>2, SeqEqual
  <2> QED BY <2>1, <2>3 DEF Front
<1> QED BY <1>1, <1>3, <1>4

\* A sequence is empty, or it is its last element after those before.
LEMMA FrontAndLast ==
  ASSUME NEW T, NEW s \in Seq(T), s # << >>
  PROVE  Front(s) \in Seq(T) /\ Last(s) \in T /\ s = Append(Front(s), Last(s))
<1>1. PICK v \in Seq(T), e \in T : s = Append(v, e)
  BY SequenceEmptyOrAppend
<1> QED BY <1>1, LastOfAppend

Text == Seq(Characters)

\* What is known of a text.
LEMMA TextOf ==
  ASSUME NEW w \in Text
  PROVE  /\ Len(w) \in Nat /\ DOMAIN w = 1 .. Len(w)
         /\ \A i \in 1 .. Len(w) : w[i] \in Characters
         /\ w = << >> <=> Len(w) = 0
BY SeqFacts DEF Text

\* One character more, and the delimiter.
LEMMA TextAppend ==
  ASSUME NEW w \in Text, NEW c \in Characters
  PROVE  /\ Append(w, c) \in Text /\ Len(Append(w, c)) = Len(w) + 1
         /\ Append(w, c) # << >> /\ Last(Append(w, c)) = c
         /\ Append(w, c)[Len(w) + 1] = c
         /\ \A i \in 1 .. Len(w) : Append(w, c)[i] = w[i]
         /\ Append(w, c) = w \o << c >>
         /\ EndsInDelimiter(Append(w, c)) <=> c = Slash
         /\ Front(Append(w, c)) = w
         /\ << c >> \in Text
<1>1. /\ Append(w, c) \in Text /\ Len(Append(w, c)) = Len(w) + 1
      /\ Append(w, c) # << >> /\ Append(w, c)[Len(w) + 1] = c
      /\ \A i \in 1 .. Len(w) : Append(w, c)[i] = w[i]
      /\ Append(w, c) = w \o << c >>
  <2>1. w \in Seq(Characters)
    BY DEF Text
  <2>2. /\ Append(w, c) \in Seq(Characters) /\ Len(Append(w, c)) = Len(w) + 1
        /\ Append(w, c)[Len(w) + 1] = c
        /\ \A i \in 1 .. Len(w) : Append(w, c)[i] = w[i]
    BY <2>1, AppendProperties
  <2>3. Append(w, c) # << >>
    BY <2>1, AppendProperties
  <2>4. Append(w, c) = w \o << c >>
    BY <2>1, AppendIsConcat
  <2> QED BY <2>2, <2>3, <2>4 DEF Text
<1>2. << c >> \in Text
  <2>1. << >> \in Seq(Characters)
    BY EmptySeq
  <2>2. Append(<< >>, c) \in Seq(Characters)
    BY <2>1, AppendProperties
  <2>3. Append(<< >>, c) = << c >>
    OBVIOUS
  <2> QED BY <2>2, <2>3 DEF Text
<1>3. Last(Append(w, c)) = c /\ Front(Append(w, c)) = w
  BY LastOfAppend DEF Text
<1>4. EndsInDelimiter(Append(w, c)) <=> c = Slash
  BY <1>1, <1>3 DEF EndsInDelimiter
<1> QED BY <1>1, <1>2, <1>3, <1>4

\* A text is empty or another with one character more.
LEMMA TextCases ==
  ASSUME NEW w \in Text, w # << >>
  PROVE  \E v \in Text, c \in Characters : w = Append(v, c)
BY SequenceEmptyOrAppend DEF Text

\* The delimiter is a character.
LEMMA SlashChar == Slash \in Characters /\ << Slash >> \in Text /\ << >> \in Text
<1>1. Slash \in Characters
  BY PathAssumption
<1>2. << >> \in Text
  BY EmptySeq DEF Text
<1>3. << Slash >> \in Text
  BY <1>1, <1>2, TextAppend
<1> QED BY <1>1, <1>2, <1>3

\* The first character of a text begins all that begin with the text.
LEMMA HeadOf ==
  ASSUME NEW w \in Text
  PROVE  IsAbsolutePath(w) <=> Len(w) > 0 /\ w[1] = Slash
<1>1. Len(w) \in Nat /\ (w = << >> <=> Len(w) = 0)
  BY TextOf
<1>2. Head(w) = w[1]
  OBVIOUS
<1> QED BY <1>1, <1>2 DEF IsAbsolutePath

\* The last delimiter is one, and none comes after it.
LEMMA LastDelimiterOf ==
  ASSUME NEW w \in Text
  PROVE  /\ Delimiters(w) \in SUBSET (1 .. Len(w))
         /\ LastDelimiter(w) \in 0 .. Len(w)
         /\ \A i \in Delimiters(w) : i <= LastDelimiter(w)
         /\ LastDelimiter(w) \in Delimiters(w) \cup {0}
<1> DEFINE S == Delimiters(w) \cup {0}
<1>1. Len(w) \in Nat /\ DOMAIN w = 1 .. Len(w)
  BY TextOf
<1>2. Delimiters(w) \in SUBSET (1 .. Len(w))
  BY <1>1 DEF Delimiters
<1>3. S \in SUBSET (0 .. Len(w)) /\ S # {}
  BY <1>1, <1>2
<1>4. Max(S) \in S /\ \A i \in S : i <= Max(S)
  <2> HIDE DEF S
  <2> QED BY <1>1, <1>3, GreatestIndex
<1>5. LastDelimiter(w) = Max(S)
  BY DEF LastDelimiter
<1> QED BY <1>2, <1>3, <1>4, <1>5

\* The arguments are texts, and so is the working directory.
LEMMA StepText == \A arg \in Steps : arg \in Text /\ Len(arg) <= MaxPath
BY VolumeAssumption DEF Text

\* The next working directory: what was there with the argument after it, or
\* what was before its last delimiter.
LEMMA ChangeText ==
  ASSUME curPath \in Text, NEW arg \in Steps, VMDirectoryChange(arg)
  PROVE  /\ curPath' \in Text
         /\ IsAbsolutePath(curPath) /\ ~IsAbsolutePath(curPath') =>
              /\ curPath' = << >>
              /\ Len(curPath) > 1 /\ Delimiters(curPath) = {1}
<1>1. /\ Len(curPath) \in Nat /\ \A i \in 1 .. Len(curPath) : curPath[i] \in Characters
      /\ DOMAIN curPath = 1 .. Len(curPath)
  BY TextOf
<1>2. CASE curPath' = curPath
  BY <1>2
<1>3. CASE curPath' = curPath \o arg
  <2>1. /\ curPath \o arg \in Text /\ Len(curPath \o arg) = Len(curPath) + Len(arg)
        /\ \A i \in 1 .. Len(curPath) + Len(arg) :
             (curPath \o arg)[i] = IF i <= Len(curPath) THEN curPath[i]
                                   ELSE arg[i - Len(curPath)]
    BY StepText, ConcatProperties DEF Text
  <2>2. arg \in Text /\ Len(arg) \in Nat
    BY StepText, TextOf
  <2>3. ASSUME IsAbsolutePath(curPath) PROVE IsAbsolutePath(curPath')
    <3>1. Len(curPath) > 0 /\ curPath[1] = Slash
      BY <2>3, HeadOf
    <3>2. PICK t \in Text : t = curPath \o arg
      BY <2>1
    <3>3. Len(t) > 0 /\ t[1] = Slash
      BY <1>1, <2>1, <2>2, <3>1, <3>2
    <3> QED BY <1>3, <3>2, <3>3, HeadOf
  <2> QED BY <1>3, <2>1, <2>3
<1>4. CASE /\ ~AtRoot /\ Delimiters(curPath) # {}
           /\ curPath' = SubSeq(curPath, 1, LastDelimiter(curPath) - 1)
  <2> DEFINE d == LastDelimiter(curPath)
  <2>1. /\ Delimiters(curPath) \in SUBSET (1 .. Len(curPath)) /\ d \in 0 .. Len(curPath)
        /\ \A i \in Delimiters(curPath) : i <= d
        /\ d \in Delimiters(curPath) \cup {0}
    BY LastDelimiterOf
  <2>2. d \in 1 .. Len(curPath) /\ d \in Delimiters(curPath)
    BY <1>4, <2>1, <1>1
  <2> HIDE DEF d
  <2>3. PICK t : t = SubSeq(curPath, 1, d - 1)
    OBVIOUS
  <2>4. d - 1 \in 0 .. Len(curPath)
    BY <2>2, <1>1
  <2>5. t \in Text /\ Len(t) = d - 1 /\ \A i \in 1 .. d - 1 : t[i] = curPath[i]
    BY <2>3, <2>4, PrefixOf DEF Text
  <2>6. curPath' = t
    BY <1>4, <2>3 DEF d
  <2>7. ASSUME IsAbsolutePath(curPath), ~IsAbsolutePath(t)
        PROVE  t = << >> /\ Len(curPath) > 1 /\ Delimiters(curPath) = {1}
    <3>1. Len(curPath) > 0 /\ curPath[1] = Slash
      BY <2>7, HeadOf
    <3>2. d = 1
      <4>1. ~ (Len(t) > 0 /\ t[1] = Slash)
        BY <2>5, <2>7, HeadOf
      <4> QED BY <1>1, <2>2, <2>5, <3>1, <4>1
    <3>3. t = << >>
      BY <2>5, <3>2, TextOf
    <3>4. Delimiters(curPath) = {1}
      <4>1. \A i \in Delimiters(curPath) : i \in 1 .. Len(curPath) /\ i <= 1
        BY <2>1, <3>2
      <4>2. \A i \in Delimiters(curPath) : i = 1
        BY <4>1
      <4> QED BY <4>2, <2>2, <3>2
    <3>5. Len(curPath) # 1
      <4> SUFFICES ASSUME Len(curPath) = 1 PROVE FALSE
        OBVIOUS
      <4>1. Len(<< Slash >>) = 1 /\ << Slash >>[1] = Slash /\ << Slash >> \in Text
        BY SlashChar
      <4>2. curPath = << Slash >>
        BY <3>1, <4>1, SeqEqual DEF Text
      <4> QED BY <1>4, <4>2 DEF AtRoot
    <3> QED BY <1>1, <3>1, <3>3, <3>4, <3>5
  <2> QED BY <2>5, <2>6, <2>7
<1> QED BY <1>2, <1>3, <1>4 DEF VMDirectoryChange

\* Only a change of the working directory changes it.
LEMMA CurrentChanges ==
  ASSUME [Next]_vars, curPath' # curPath
  PROVE  \E arg \in Steps : VMDirectoryChange(arg)
BY DEF Next, vars, VMDirectoryOpen, VMDirectoryClose, VMDirectoryRead,
       VMDirectoryRewind, VMFileReadFind, VMFileRead, Follow

CurrentInv == curPath \in Text

\* The working directory is made of characters.
LEMMA CurrentText == Spec => []CurrentInv
<1>1. Init => CurrentInv
  BY SlashChar DEF Init, CurrentInv
<1>2. CurrentInv /\ [Next]_vars => CurrentInv'
  BY ChangeText, CurrentChanges DEF CurrentInv
<1> QED BY <1>1, <1>2, PTL DEF Spec

\* The working directory stops being absolute only by a step to the parent of
\* a directory just under the root, and is empty then (VMDirectoryChange).
THEOREM RootLeftByParent == Spec => LeavesRootByParent
<1> DEFINE Leaves == IsAbsolutePath(curPath) /\ ~IsAbsolutePath(curPath') =>
                       /\ curPath' = << >>
                       /\ Len(curPath) > 1 /\ Delimiters(curPath) = {1}
<1>1. CurrentInv /\ [Next]_vars => Leaves
  BY ChangeText, CurrentChanges DEF CurrentInv
<1>2. Spec => [][Leaves]_vars
  BY <1>1, CurrentText, PTL DEF Spec
<1> QED BY <1>2, PTL DEF LeavesRootByParent

-----------------------------------------------------------------------------
(* The path functions                                                      *)

\* The entries of a relative path are texts.
LEMMA AddCharacterType ==
  ASSUME NEW entries \in Seq(Text), NEW c \in Characters
  PROVE  AddCharacter(entries, c) \in Seq(Text)
<1>1. CASE entries = << >> \/ EndsInDelimiter(Last(entries))
  <2>1. << c >> \in Text
    BY SlashChar, TextAppend
  <2>2. Append(entries, << c >>) \in Seq(Text)
    <3>1. PICK e \in Text : e = << c >>
      BY <2>1
    <3> QED BY <3>1, AppendProperties
  <2> QED BY <1>1, <2>2 DEF AddCharacter
<1>2. CASE ~(entries = << >> \/ EndsInDelimiter(Last(entries)))
  <2>1. Front(entries) \in Seq(Text) /\ Last(entries) \in Text
    BY <1>2, FrontAndLast
  <2>2. Append(Last(entries), c) \in Text
    BY <2>1, TextAppend
  <2>3. Append(Front(entries), Append(Last(entries), c)) \in Seq(Text)
    <3>1. PICK f \in Seq(Text), e \in Text :
            f = Front(entries) /\ e = Append(Last(entries), c)
      BY <2>1, <2>2
    <3> QED BY <3>1, AppendProperties
  <2> QED BY <1>2, <2>3 DEF AddCharacter
<1> QED BY <1>1, <1>2

EntryRound == [p \in Seq(Text) \X Characters |-> AddCharacter(p[1], p[2])]

\* The rounds of the loop over the characters of a relative path.
LEMMA EntryTurns == Turns(EntryRound, Seq(Text), Characters)
<1>1. ASSUME NEW a \in Seq(Text), NEW c \in Characters
      PROVE  EntryRound[<< a, c >>] = AddCharacter(a, c)
  BY DEF EntryRound
<1> QED BY <1>1, AddCharacterType DEF Turns

\* The loop.
LEMMA EntriesFolded ==
  ASSUME NEW rel \in Text
  PROVE  Entries(rel) = Folded(rel, << >>, EntryRound) /\ Entries(rel) \in Seq(Text)
<1> DEFINE Round(f) == [n \in 0 .. Len(rel) |->
                          IF n = 0 THEN << >> ELSE AddCharacter(f[n - 1], rel[n])]
           F == CHOOSE f : f = Round(f)
           A == Seq(Text)
<1>1. Len(rel) \in Nat /\ Len(rel) \in 0 .. Len(rel) /\ 0 \in 0 .. Len(rel)
      /\ \A i \in 1 .. Len(rel) : rel[i] \in Characters
  BY TextOf
<1>2. rel \in Seq(Characters) /\ << >> \in A /\ Turns(EntryRound, A, Characters)
  BY EmptySeq, EntryTurns DEF Text
<1>3. ASSUME NEW a \in A, NEW c \in Characters
      PROVE  EntryRound[<< a, c >>] = AddCharacter(a, c)
  BY DEF EntryRound
<1> HIDE DEF A
<1>4. PICK none : none = << >>
  OBVIOUS
<1>5. PICK g : g \in [0 .. Len(rel) -> A] /\ Follows(g, rel, none, EntryRound)
  BY <1>2, <1>4, FoldedRounds
<1>6. g = Round(g)
  <2>1. ASSUME NEW i \in 0 .. Len(rel)
        PROVE  g[i] = IF i = 0 THEN none ELSE AddCharacter(g[i - 1], rel[i])
    <3>1. CASE i # 0
      <4>1. i \in 1 .. Len(rel) /\ i - 1 \in 0 .. Len(rel)
        BY <3>1, <1>1
      <4>2. g[i] = EntryRound[<< g[i - 1], rel[i] >>] /\ g[i - 1] \in A
        BY <4>1, <1>5 DEF Follows
      <4> QED BY <1>1, <1>3, <3>1, <4>1, <4>2
    <3> QED BY <1>5, <3>1 DEF Follows
  <2> QED BY <1>4, <1>5, <2>1
<1>7. F = Round(F)
  <2> HIDE DEF Round
  <2> QED BY <1>6
<1>8. Entries(rel) = F[Len(rel)]
  BY DEF Entries
<1> HIDE DEF F
<1>9. \A i \in 0 .. Len(rel) :
        F[i] = IF i = 0 THEN none ELSE AddCharacter(F[i - 1], rel[i])
  <2>1. \A i \in 0 .. Len(rel) :
          Round(F)[i] = IF i = 0 THEN none ELSE AddCharacter(F[i - 1], rel[i])
    BY <1>4
  <2> HIDE DEF Round
  <2> QED BY <1>7, <2>1
<1>10. F[0] = none
  BY <1>1, <1>9
<1>11. \A i \in 1 .. Len(rel) : F[i - 1] \in A => F[i] = EntryRound[<< F[i - 1], rel[i] >>]
  <2>1. \A i \in 1 .. Len(rel) : i \in 0 .. Len(rel) /\ i # 0
    BY <1>1
  <2> QED BY <1>1, <1>3, <1>9, <2>1
<1>12. F[Len(rel)] = Folded(rel, none, EntryRound) /\ Folded(rel, none, EntryRound) \in A
  <2> HIDE DEF Round
  <2> QED BY <1>2, <1>4, <1>10, <1>11, FoldedIs
<1> QED BY <1>4, <1>8, <1>12 DEF A

\* An absolute path that fits the buffers.
Places == {w \in Text : IsAbsolutePath(w) /\ Len(w) <= MaxPath}

\* What SimplifyPath may have made of the path: while it succeeds it has one
\* that fits.
Sims == {Success(w) : w \in Places} \cup {Failure(w) : w \in Text}
          \cup {Invalid(w) : w \in Text}

\* A text that begins with what another begins with.
LEMMA BeginningIsPlace ==
  ASSUME NEW w \in Text, NEW m \in 1 .. Len(w), IsAbsolutePath(w)
  PROVE  /\ SubSeq(w, 1, m) \in Text /\ IsAbsolutePath(SubSeq(w, 1, m))
         /\ Len(SubSeq(w, 1, m)) = m
<1>1. Len(w) \in Nat /\ m \in 0 .. Len(w)
  BY TextOf
<1>2. PICK t : t = SubSeq(w, 1, m)
  OBVIOUS
<1>3. t \in Text /\ Len(t) = m /\ \A i \in 1 .. m : t[i] = w[i]
  BY <1>1, <1>2, PrefixOf DEF Text
<1>4. w[1] = Slash
  BY HeadOf
<1>5. Len(t) > 0 /\ t[1] = Slash
  BY <1>1, <1>3, <1>4
<1> QED BY <1>2, <1>3, <1>5, HeadOf

\* A text with another after it.
LEMMA Glue ==
  ASSUME NEW v \in Text, NEW w \in Text
  PROVE  /\ v \o w \in Text /\ Len(v \o w) = Len(v) + Len(w)
         /\ \A i \in 1 .. Len(v) : (v \o w)[i] = v[i]
         /\ \A i \in 1 .. Len(w) : (v \o w)[Len(v) + i] = w[i]
         /\ IsAbsolutePath(v) => IsAbsolutePath(v \o w)
<1>1. Len(v) \in Nat /\ Len(w) \in Nat
  BY TextOf
<1>2. /\ v \o w \in Text /\ Len(v \o w) = Len(v) + Len(w)
      /\ \A i \in 1 .. Len(v) + Len(w) :
           (v \o w)[i] = IF i <= Len(v) THEN v[i] ELSE w[i - Len(v)]
  BY ConcatProperties DEF Text
<1>3. PICK t : t = v \o w
  OBVIOUS
<1>4. \A i \in 1 .. Len(v) : t[i] = v[i]
  BY <1>1, <1>2, <1>3
<1>5. ASSUME NEW i \in 1 .. Len(w) PROVE t[Len(v) + i] = w[i]
  <2>1. /\ Len(v) + i \in 1 .. Len(v) + Len(w) /\ ~ (Len(v) + i <= Len(v))
        /\ (Len(v) + i) - Len(v) = i
    BY <1>1
  <2> QED BY <1>2, <1>3, <2>1
<1>6. ASSUME IsAbsolutePath(v) PROVE IsAbsolutePath(t)
  <2>1. Len(v) > 0 /\ v[1] = Slash
    BY <1>6, HeadOf
  <2>2. Len(t) > 0 /\ t[1] = Slash
    BY <1>1, <1>2, <1>3, <1>4, <2>1
  <2> QED BY <1>2, <1>3, <2>2, HeadOf
<1> QED BY <1>2, <1>3, <1>4, <1>5, <1>6

\* The path above is shorter, and absolute.
LEMMA ParentType ==
  ASSUME NEW w \in Places
  PROVE  Parent(w) \in Sims
<1> DEFINE last == IF EndsInDelimiter(w) THEN Len(w) - 1 ELSE Len(w)
           above == {i \in 1 .. last : w[i] = Slash}
<1>1. w \in Text /\ IsAbsolutePath(w) /\ Len(w) <= MaxPath /\ Len(w) \in Nat /\ Len(w) > 0
  BY TextOf, HeadOf DEF Places
<1>2. last \in Nat /\ last <= Len(w)
  BY <1>1
<1>3. Parent(w) = IF above = {} THEN Failure(w) ELSE Success(SubSeq(w, 1, Max(above)))
  BY DEF Parent
<1>4. above \in SUBSET (0 .. last) /\ \A i \in above : i \in 1 .. Len(w)
  BY <1>1, <1>2
<1> HIDE DEF last, above
<1>5. CASE above = {}
  BY <1>1, <1>3, <1>5 DEF Sims
<1>6. CASE above # {}
  <2>1. Max(above) \in above
    BY <1>2, <1>4, <1>6, GreatestIndex
  <2>2. PICK m \in 1 .. Len(w) : m = Max(above)
    BY <1>4, <2>1
  <2>3. /\ SubSeq(w, 1, m) \in Text /\ IsAbsolutePath(SubSeq(w, 1, m))
        /\ Len(SubSeq(w, 1, m)) = m
    BY <1>1, BeginningIsPlace
  <2>4. SubSeq(w, 1, m) \in Places
    BY <1>1, <2>3, PathAssumption DEF Places
  <2> QED BY <1>3, <1>6, <2>2, <2>4 DEF Sims
<1> QED BY <1>5, <1>6

\* A text with a delimiter at its end.
LEMMA WithDelimiterType ==
  ASSUME NEW w \in Text
  PROVE  /\ WithDelimiter(w) \in Text
         /\ IsAbsolutePath(w) => IsAbsolutePath(WithDelimiter(w))
<1>1. CASE EndsInDelimiter(w)
  BY <1>1 DEF WithDelimiter
<1>2. CASE ~EndsInDelimiter(w)
  <2>1. /\ Append(w, Slash) \in Text /\ Append(w, Slash) = w \o << Slash >>
        /\ << Slash >> \in Text
    BY SlashChar, TextAppend
  <2>2. IsAbsolutePath(w) => IsAbsolutePath(w \o << Slash >>)
    BY <2>1, Glue
  <2> QED BY <1>2, <2>1, <2>2 DEF WithDelimiter
<1> QED BY <1>1, <1>2

\* One round of the loop of SimplifyPath.
LEMMA AddEntryType ==
  ASSUME NEW sim \in Sims, NEW entry \in Text
  PROVE  AddEntry(sim, entry) \in Sims
<1>1. CASE sim.status # "success"
  BY <1>1 DEF AddEntry
<1>2. CASE sim.status = "success"
  <2>1. sim.path \in Places
    BY <1>2 DEF Sims, Success, Failure, Invalid
  <2>2. PICK w \in Places : w = sim.path
    BY <2>1
  <2>3. w \in Text /\ IsAbsolutePath(w)
    BY DEF Places
  <2>4. PICK dir \in Text : dir = WithDelimiter(w) /\ IsAbsolutePath(dir)
    BY <2>3, WithDelimiterType
  <2>5. /\ dir \o entry \in Text /\ Len(dir \o entry) = Len(dir) + Len(entry)
        /\ IsAbsolutePath(dir \o entry)
    BY <2>4, Glue
  <2>6. Fits(dir, entry) => Success(dir \o entry) \in Sims
    BY <2>5 DEF Fits, Sims, Places
  <2>7. Invalid(dir) \in Sims
    BY DEF Sims
  <2>8. Parent(w) \in Sims
    BY ParentType
  <2>9. \/ AddEntry(sim, entry) = sim
        \/ AddEntry(sim, entry) = Parent(w)
        \/ Fits(dir, entry) /\ AddEntry(sim, entry) = Success(dir \o entry)
        \/ AddEntry(sim, entry) = Invalid(dir)
    <3>1. PICK dots1, dots2 : dots1 = {<<".">>, <<".", Slash>>}
                              /\ dots2 = {<<".", ".">>, <<".", ".", Slash>>}
      OBVIOUS
    <3> QED BY <1>2, <2>2, <2>4 DEF AddEntry
  <2> QED BY <2>6, <2>7, <2>8, <2>9
<1> QED BY <1>1, <1>2

SimRound == [p \in Sims \X Text |-> AddEntry(p[1], p[2])]

\* The rounds of the loop over the entries of a relative path.
LEMMA SimTurns ==
  /\ Turns(SimRound, Sims, Text)
  /\ \A a \in Sims, e \in Text : SimRound[<< a, e >>] = AddEntry(a, e)
<1>1. ASSUME NEW a \in Sims, NEW e \in Text
      PROVE  SimRound[<< a, e >>] = AddEntry(a, e)
  BY DEF SimRound
<1> QED BY <1>1, AddEntryType DEF Turns

\* The loop.
LEMMA AddEntriesFolded ==
  ASSUME NEW abs \in Places, NEW entries \in Seq(Text)
  PROVE  /\ AddEntries(abs, entries) = Folded(entries, Success(abs), SimRound)
         /\ AddEntries(abs, entries) \in Sims
<1> DEFINE Round(f) == [n \in 0 .. Len(entries) |->
                          IF n = 0 THEN Success(abs) ELSE AddEntry(f[n - 1], entries[n])]
           F == CHOOSE f : f = Round(f)
<1>1. Len(entries) \in Nat /\ Len(entries) \in 0 .. Len(entries) /\ 0 \in 0 .. Len(entries)
      /\ \A i \in 1 .. Len(entries) : entries[i] \in Text
  BY SeqFacts
<1>2. Success(abs) \in Sims
  BY DEF Sims
<1>3. PICK g : g \in [0 .. Len(entries) -> Sims]
               /\ Follows(g, entries, Success(abs), SimRound)
  BY <1>2, SimTurns, FoldedRounds
<1>4. g = Round(g)
  <2>1. ASSUME NEW i \in 0 .. Len(entries)
        PROVE  g[i] = IF i = 0 THEN Success(abs) ELSE AddEntry(g[i - 1], entries[i])
    <3>1. CASE i # 0
      <4>1. i \in 1 .. Len(entries) /\ i - 1 \in 0 .. Len(entries)
        BY <3>1, <1>1
      <4>2. g[i] = SimRound[<< g[i - 1], entries[i] >>] /\ g[i - 1] \in Sims
        BY <4>1, <1>3 DEF Follows
      <4> QED BY <1>1, SimTurns, <3>1, <4>1, <4>2
    <3> QED BY <1>3, <3>1 DEF Follows
  <2> QED BY <1>3, <2>1
<1>5. F = Round(F)
  <2> HIDE DEF Round
  <2> QED BY <1>4
<1>6. AddEntries(abs, entries) = F[Len(entries)]
  BY DEF AddEntries
<1> HIDE DEF F
<1>7. \A i \in 0 .. Len(entries) :
        F[i] = IF i = 0 THEN Success(abs) ELSE AddEntry(F[i - 1], entries[i])
  <2>1. \A i \in 0 .. Len(entries) :
          Round(F)[i] = IF i = 0 THEN Success(abs) ELSE AddEntry(F[i - 1], entries[i])
    OBVIOUS
  <2> HIDE DEF Round
  <2> QED BY <1>5, <2>1
<1>8. F[0] = Success(abs)
  BY <1>1, <1>7
<1>9. \A i \in 1 .. Len(entries) :
        F[i - 1] \in Sims => F[i] = SimRound[<< F[i - 1], entries[i] >>]
  <2>1. \A i \in 1 .. Len(entries) : i \in 0 .. Len(entries) /\ i # 0
    BY <1>1
  <2> QED BY <1>1, SimTurns, <1>7, <2>1
<1>10. /\ F[Len(entries)] = Folded(entries, Success(abs), SimRound)
       /\ Folded(entries, Success(abs), SimRound) \in Sims
  <2> HIDE DEF Round
  <2> QED BY <1>2, SimTurns, <1>8, <1>9, FoldedIs
<1> QED BY <1>6, <1>10

\* Without the delimiter at its end a path is still absolute.
LEMMA TrimmedType ==
  ASSUME NEW sim \in Sims
  PROVE  Trimmed(sim) \in Sims
<1>1. CASE /\ sim.status = "success" /\ Len(sim.path) > 1
           /\ EndsInDelimiter(sim.path)
  <2>1. PICK w \in Places : w = sim.path
    BY <1>1 DEF Sims, Success, Failure, Invalid
  <2>2. w \in Text /\ IsAbsolutePath(w) /\ Len(w) <= MaxPath /\ Len(w) \in Nat
    BY TextOf DEF Places
  <2>3. Len(w) - 1 \in 1 .. Len(w)
    BY <1>1, <2>1, <2>2
  <2>4. /\ Front(w) \in Text /\ IsAbsolutePath(Front(w)) /\ Len(Front(w)) = Len(w) - 1
    BY <2>2, <2>3, BeginningIsPlace DEF Front
  <2>5. Front(w) \in Places
    BY <2>2, <2>4, PathAssumption DEF Places
  <2>6. Trimmed(sim) = Success(Front(w))
    BY <1>1, <2>1 DEF Trimmed
  <2> QED BY <2>5, <2>6 DEF Sims
<1>2. CASE ~(/\ sim.status = "success" /\ Len(sim.path) > 1
             /\ EndsInDelimiter(sim.path))
  BY <1>2 DEF Trimmed
<1> QED BY <1>1, <1>2

\* A path that SimplifyPath and GetAbsolutePath succeed with is absolute and
\* fits the buffers.
LEMMA SimplifiedType ==
  ASSUME NEW abs \in Places, NEW rel \in Text
  PROVE  /\ SimplifyPath(abs, rel) \in Sims
         /\ Len(rel) <= MaxPath => GetAbsolutePath(abs, rel) \in Sims
<1>1. SimplifyPath(abs, rel) \in Sims
  <2>1. Trimmed(AddEntries(abs, Entries(rel))) \in Sims
    BY EntriesFolded, AddEntriesFolded, TrimmedType
  <2>2. Invalid(<< >>) \in Sims
    BY SlashChar DEF Sims
  <2> QED BY <2>1, <2>2 DEF SimplifyPath
<1>2. ASSUME Len(rel) <= MaxPath, IsAbsolutePath(rel) PROVE Success(rel) \in Sims
  BY <1>2 DEF Sims, Places
<1> QED BY <1>1, <1>2 DEF GetAbsolutePath

PathInv == path \in Places /\ halt \in {"no", "undefined", "abort"}

\* The application stays at absolute paths that fit.
LEMMA PathInvInvariant == Spec => []PathInv
<1>1. Init => PathInv
  <2>1. /\ << Slash >> \in Text /\ Len(<< Slash >>) = 1 /\ << Slash >>[1] = Slash
    BY SlashChar
  <2>2. << Slash >> \in Places
    BY <2>1, HeadOf, PathAssumption DEF Places
  <2> QED BY <2>2 DEF Init, PathInv
<1>2. PathInv /\ [Next]_vars => PathInv'
  <2> SUFFICES ASSUME PathInv, [Next]_vars PROVE PathInv'
    OBVIOUS
  <2>1. ASSUME NEW arg \in Steps, Follow(arg) PROVE PathInv'
    <3>1. arg \in Text /\ Len(arg) <= MaxPath /\ path \in Places
      BY StepText DEF PathInv
    <3>2. GetAbsolutePath(path, arg) \in Sims
      BY <3>1, SimplifiedType
    <3>3. GetAbsolutePath(path, arg).path \in Places
      BY <2>1, <3>2 DEF Follow, Sims, Success, Failure, Invalid
    <3> QED BY <2>1, <3>3 DEF Follow, PathInv
  <2>2. ASSUME path' = path, halt' \in {halt, "undefined", "abort"} PROVE PathInv'
    BY <2>2 DEF PathInv
  <2>3. \/ \E arg \in Steps : Follow(arg)
        \/ path' = path /\ halt' \in {halt, "undefined", "abort"}
    BY DEF Next, vars, VMDirectoryOpen, VMDirectoryClose, VMDirectoryRead,
           VMDirectoryRewind, VMFileReadFind, VMFileRead, VMDirectoryChange
  <2> QED BY <2>1, <2>2, <2>3
<1> QED BY <1>1, <1>2, PTL DEF Spec

\* The thread inside a read has found an open directory or none.
ReaderInv == reader = NULL \/ reader \in [dir : 0 .. Len(dirs), length : Lengths]

\* Closing a directory moves the place of a reader along.
LEMMA ReaderKept ==
  ASSUME DirInv, ReaderInv, [Next]_vars PROVE ReaderInv'
<1>1. Len(dirs) \in Nat /\ dirs \in Seq(DirType)
  BY DirOf DEF DirInv
<1>2. ASSUME reader' = NULL PROVE ReaderInv'
  BY <1>2 DEF ReaderInv
<1>3. ASSUME reader' = reader, Len(dirs') \in Nat, Len(dirs') >= Len(dirs)
      PROVE  ReaderInv'
  BY <1>1, <1>3 DEF ReaderInv
<1>4. CASE VMDirectoryOpen
  <2>1. PICK dir \in {RootDir} \cup OtherDirs : dirs' = Append(dirs, dir)
    BY <1>4 DEF VMDirectoryOpen
  <2>2. Len(dirs') = Len(dirs) + 1
    BY <1>1, <2>1
  <2> QED BY <1>1, <1>3, <1>4, <2>2 DEF VMDirectoryOpen
<1>5. ASSUME NEW d \in Descs, VMDirectoryClose(d) PROVE ReaderInv'
  <2>1. PICK k : k = findDir(d)
    OBVIOUS
  <2>2. k \in 1 .. Len(dirs)
    BY <1>1, <1>5, <2>1, findDirFirst, DirOf DEF VMDirectoryClose
  <2>3. Dropped(dirs, k, dirs')
    BY <1>1, <1>5, <2>1, <2>2, CutDrops DEF VMDirectoryClose, RemoveAt
  <2>4. Len(dirs') = Len(dirs) - 1
    BY <2>3 DEF Dropped
  <2>5. CASE reader = NULL
    BY <1>2, <1>5, <2>5 DEF VMDirectoryClose
  <2>6. CASE reader # NULL
    <3>1. reader.dir \in 0 .. Len(dirs) /\ reader.length \in Lengths
      BY <2>6 DEF ReaderInv
    <3>2. PICK j : j = IF reader.dir = k THEN 0
                       ELSE IF reader.dir > k THEN reader.dir - 1 ELSE reader.dir
      OBVIOUS
    <3>3. reader' = [dir |-> j, length |-> reader.length]
      BY <1>5, <2>1, <2>6, <3>2 DEF VMDirectoryClose
    <3>4. j \in 0 .. Len(dirs')
      BY <1>1, <2>2, <2>4, <3>1, <3>2
    <3> QED BY <3>1, <3>3, <3>4 DEF ReaderInv
  <2> QED BY <2>5, <2>6
<1>6. ASSUME NEW d \in Descs, NEW length \in Lengths, VMFileReadFind(d, length)
      PROVE  ReaderInv'
  <2>1. findDir(d) \in 0 .. Len(dirs) /\ dirs' = dirs
    BY <1>1, <1>6, findDirFirst, DirOf DEF VMFileReadFind
  <2> QED BY <1>6, <2>1 DEF VMFileReadFind, ReaderInv
<1>7. CASE VMFileRead
  BY <1>2, <1>7 DEF VMFileRead
<1>8. ASSUME NEW k, NEW dir, dirs' = [dirs EXCEPT ![k] = dir], reader' = reader
      PROVE  ReaderInv'
  <2>1. Len(dirs') = Len(dirs)
    BY <1>1, <1>8
  <2> QED BY <1>1, <1>3, <1>8, <2>1
<1>9. ASSUME dirs' = dirs, reader' = reader PROVE ReaderInv'
  BY <1>1, <1>3, <1>9
<1>10. ASSUME NEW d \in Descs, VMDirectoryRead(d) PROVE ReaderInv'
  BY <1>8, <1>10 DEF VMDirectoryRead
<1>11. ASSUME NEW d \in Descs, VMDirectoryRewind(d) PROVE ReaderInv'
  <2>1. CASE findDir(d) = 0
    BY <1>9, <1>11, <2>1 DEF VMDirectoryRewind
  <2>2. CASE findDir(d) # 0
    <3>1. PICK dir : dir = [dirs[findDir(d)] EXCEPT !.pos = 0, !.seen = << >>]
      OBVIOUS
    <3>2. findDir(d) \in DOMAIN dirs
      BY <1>1, <2>2, findDirFirst, DirOf
    <3>3. dirs' = [dirs EXCEPT ![findDir(d)] = dir] /\ reader' = reader
      BY <1>11, <2>2, <3>1, <3>2 DEF VMDirectoryRewind
    <3> QED BY <1>8, <3>3
  <2> QED BY <2>1, <2>2
<1>12. ASSUME NEW arg \in Steps, VMDirectoryChange(arg) \/ Follow(arg)
       PROVE  ReaderInv'
  BY <1>9, <1>12 DEF VMDirectoryChange, Follow
<1>13. CASE UNCHANGED vars
  BY <1>9, <1>13 DEF vars
<1> QED BY <1>4, <1>5, <1>6, <1>7, <1>10, <1>11, <1>12, <1>13 DEF Next

\* The reader holds an open directory or none from the start.
LEMMA ReaderInvInvariant == Spec => []ReaderInv
<1>1. Init => ReaderInv
  BY DEF Init, ReaderInv
<1>2. DirInv /\ ReaderInv /\ [Next]_vars => ReaderInv'
  BY ReaderKept
<1> QED BY <1>1, <1>2, DirInvInvariant, PTL DEF Spec

\* Every open directory is at an entry of the root or at its end, a read holds
\* an open directory or none, and the path of the application, whatever it
\* follows, is absolute and has at most MaxPath characters, its terminator
\* not counted (Dir, VMFileSystemSimplifyPath, VMFileSystemGetAbsolutePath).
THEOREM VolumeTypeCorrect == Spec => []VolumeTypeOK
<1>1. DirInv /\ ReaderInv /\ PathInv => VolumeTypeOK
  <2> SUFFICES ASSUME DirInv, ReaderInv, PathInv PROVE VolumeTypeOK
    OBVIOUS
  <2>1. image \in Images /\ dirs \in Seq(DirType) /\ Len(dirs) <= MaxDirs
    BY DEF DirInv
  <2>2. \A k \in DOMAIN dirs : dirs[k].pos <= Len(RootEnts(image))
    <3>1. Len(RootEnts(image)) \in Nat
      BY <2>1, RootOf
    <3> QED BY <3>1 DEF DirInv, SeenUpTo
  <2>3. Len(path) <= MaxPath /\ IsAbsolutePath(path) /\ halt \in {"no", "undefined", "abort"}
    BY DEF PathInv, Places
  <2> QED BY <2>1, <2>2, <2>3 DEF VolumeTypeOK, ReaderInv
<1> QED BY <1>1, DirInvInvariant, ReaderInvInvariant, PathInvInvariant, PTL

-----------------------------------------------------------------------------
(* Clusters                                                                *)

\* Multiples of the size of a cluster.
LEMMA Multiples ==
  ASSUME NEW a \in Nat, NEW b \in Nat, NEW C \in Nat, a < b
  PROVE  a * C + C <= b * C
<1>1. PICK d \in Nat : b = a + 1 + d
  <2>1. b = a + 1 + (b - a - 1) /\ b - a - 1 \in Nat
    OBVIOUS
  <2> QED BY <2>1
<1>2. b * C = a * C + C + d * C
  BY <1>1
<1>3. d * C >= 0
  OBVIOUS
<1>4. a * C \in Nat /\ b * C \in Nat /\ d * C \in Nat
  OBVIOUS
<1> QED BY <1>2, <1>3, <1>4

\* Division with a remainder.
LEMMA Division ==
  ASSUME NEW x \in Nat, NEW C \in Nat \ {0}
  PROVE  /\ x \div C \in Nat /\ x % C \in 0 .. C - 1
         /\ x = (x \div C) * C + (x % C)
OBVIOUS

\* There is one quotient and one remainder.
LEMMA DivisionUnique ==
  ASSUME NEW x \in Nat, NEW C \in Nat \ {0}, NEW n \in Nat, NEW i \in 0 .. C - 1,
         x = n * C + i
  PROVE  x \div C = n /\ x % C = i
<1>1. PICK q \in Nat, r \in 0 .. C - 1 : q = x \div C /\ r = x % C
  BY Division
<1>2. x = q * C + r
  BY <1>1, Division
<1>3. ~(q < n)
  <2>1. q < n => q * C + C <= n * C
    BY Multiples
  <2>2. q * C \in Nat /\ n * C \in Nat
    OBVIOUS
  <2> QED BY <1>2, <2>1, <2>2
<1>4. ~(n < q)
  <2>1. n < q => n * C + C <= q * C
    BY Multiples
  <2>2. q * C \in Nat /\ n * C \in Nat
    OBVIOUS
  <2> QED BY <1>2, <2>1, <2>2
<1>5. q = n
  BY <1>3, <1>4
<1>6. r = i
  <2>1. n * C \in Nat
    OBVIOUS
  <2> QED BY <1>2, <1>5, <2>1
<1> QED BY <1>1, <1>5, <1>6

\* A larger number has no smaller quotient.
LEMMA DivisionGrows ==
  ASSUME NEW x \in Nat, NEW y \in Nat, x <= y
  PROVE  /\ x \div ClusterSize \in Nat /\ y \div ClusterSize \in Nat
         /\ x \div ClusterSize <= y \div ClusterSize
<1>1. PICK C \in Nat \ {0} : C = ClusterSize
  BY FATAssumption
<1>2. PICK a \in Nat, i \in 0 .. C - 1 : a = x \div C /\ i = x % C
  BY Division
<1>3. PICK b \in Nat, j \in 0 .. C - 1 : b = y \div C /\ j = y % C
  BY Division
<1>4. x = a * C + i /\ y = b * C + j
  BY <1>2, <1>3, Division
<1>5. b < a => b * C + C <= a * C
  BY Multiples
<1>6. a * C \in Nat /\ b * C \in Nat
  OBVIOUS
<1>7. a <= b
  BY <1>4, <1>5, <1>6
<1> QED BY <1>1, <1>2, <1>3, <1>7

\* A product is no smaller than a factor.
LEMMA AtLeast ==
  ASSUME NEW x \in Nat, NEW C \in Nat \ {0}
  PROVE  x <= x * C
<1>1. CASE x = 0
  BY <1>1
<1>2. CASE x # 0
  <2>1. 0 * C + C <= x * C
    BY <1>2, Multiples
  <2>2. PICK d \in Nat : C = 1 + d
    <3>1. C = 1 + (C - 1) /\ C - 1 \in Nat
      OBVIOUS
    <3> QED BY <3>1
  <2>3. x * C = x + x * d /\ x * d \in Nat
    BY <2>2
  <2> QED BY <2>3
<1> QED BY <1>1, <1>2

\* The clusters of a chain, and what comes after them.
InChain(im) == DOMAIN im.fat \cup {NoCluster}

\* What follows in a chain is in the table, or nothing.
LEMMA FollowingType ==
  ASSUME NEW im, WellFormed(im), NEW c \in InChain(im)
  PROVE  Following(im.fat, c) \in InChain(im)
<1>1. CASE c = NoCluster
  BY <1>1 DEF Following, InChain
<1>2. CASE c \in DOMAIN im.fat /\ c # NoCluster
  BY <1>2 DEF WellFormed, Following, InChain
<1> QED BY <1>1, <1>2 DEF InChain

\* The rounds of the function of Chain.
LEMMA ChainRounds ==
  ASSUME NEW im, WellFormed(im), NEW s \in DOMAIN im.fat, NEW n \in Nat
  PROVE  \E f : /\ Chain(im.fat, s, n + 1) = f[n] /\ f[0] = s
                /\ \A i \in 1 .. n : f[i] = Following(im.fat, f[i - 1])
<1> DEFINE A == InChain(im)
           G == [p \in (1 .. n) \X A |-> Following(im.fat, p[2])]
           Round(f) == [i \in 0 .. n |-> IF i = 0 THEN s ELSE Following(im.fat, f[i - 1])]
           F == CHOOSE f : f = Round(f)
<1>1. ASSUME NEW i \in 1 .. n, NEW a \in A PROVE G[<< i, a >>] = Following(im.fat, a)
  OBVIOUS
<1>2. s \in A /\ \A a \in A : Following(im.fat, a) \in A
  BY FollowingType DEF InChain
<1> HIDE DEF A, G
<1>3. Stays(G, n, A)
  BY <1>1, <1>2 DEF Stays
<1>4. PICK g : LoopValues(g, n, A, s, G)
  BY <1>2, <1>3, LoopExists
<1>5. g = Round(g)
  <2>1. ASSUME NEW i \in 0 .. n
        PROVE  g[i] = IF i = 0 THEN s ELSE Following(im.fat, g[i - 1])
    <3>1. CASE i # 0
      <4>1. i \in 1 .. n /\ i - 1 \in 0 .. n
        BY <3>1
      <4>2. g[i] = G[<< i, g[i - 1] >>] /\ g[i - 1] \in A
        BY <1>4, <4>1 DEF LoopValues
      <4> QED BY <1>1, <3>1, <4>1, <4>2
    <3> QED BY <1>4, <3>1 DEF LoopValues
  <2> QED BY <1>4, <2>1 DEF LoopValues
<1>6. F = Round(F)
  <2> HIDE DEF Round
  <2> QED BY <1>5
<1>7. Chain(im.fat, s, n + 1) = F[n]
  BY DEF Chain
<1> HIDE DEF F
<1>8. \A i \in 0 .. n : F[i] = IF i = 0 THEN s ELSE Following(im.fat, F[i - 1])
  <2>1. \A i \in 0 .. n : Round(F)[i] = IF i = 0 THEN s ELSE Following(im.fat, F[i - 1])
    OBVIOUS
  <2> HIDE DEF Round
  <2> QED BY <1>6, <2>1
<1> QED BY <1>7, <1>8

\* A chain begins with its first cluster.
LEMMA ChainFirst ==
  ASSUME NEW im, WellFormed(im), NEW s \in DOMAIN im.fat
  PROVE  Chain(im.fat, s, 1) = s
<1>1. PICK h : /\ Chain(im.fat, s, 0 + 1) = h[0] /\ h[0] = s
  BY ChainRounds
<1> QED BY <1>1

\* It goes on with what follows.
LEMMA ChainNext ==
  ASSUME NEW im, WellFormed(im), NEW s \in DOMAIN im.fat, NEW n \in Nat
  PROVE  Chain(im.fat, s, n + 2) = Following(im.fat, Chain(im.fat, s, n + 1))
<1>1. PICK f : /\ Chain(im.fat, s, n + 1) = f[n] /\ f[0] = s
               /\ \A i \in 1 .. n : f[i] = Following(im.fat, f[i - 1])
  BY ChainRounds
<1>2. PICK g : /\ Chain(im.fat, s, (n + 1) + 1) = g[n + 1] /\ g[0] = s
               /\ \A i \in 1 .. n + 1 : g[i] = Following(im.fat, g[i - 1])
  BY ChainRounds
<1> DEFINE Inv == {i \in 0 .. n : f[i] = g[i]}
<1>4. 0 \in Inv
  BY <1>1, <1>2
<1>5. ASSUME NEW i \in 0 .. n - 1, i \in Inv PROVE i + 1 \in Inv
  <2>1. i + 1 \in 1 .. n /\ i + 1 \in 1 .. n + 1 /\ (i + 1) - 1 = i /\ i + 1 \in 0 .. n
    OBVIOUS
  <2>2. f[i + 1] = Following(im.fat, f[(i + 1) - 1])
        /\ g[i + 1] = Following(im.fat, g[(i + 1) - 1])
    BY <1>1, <1>2, <2>1
  <2> QED BY <1>5, <2>1, <2>2
<1>6. n \in Inv
  <2> HIDE DEF Inv
  <2> QED BY <1>4, <1>5, Rounds
<1>7. f[n] = g[n]
  BY <1>6
<1>8. g[n + 1] = Following(im.fat, g[n])
  <2>1. n + 1 \in 1 .. n + 1 /\ (n + 1) - 1 = n
    OBVIOUS
  <2>2. g[n + 1] = Following(im.fat, g[(n + 1) - 1])
    BY <1>2, <2>1
  <2> QED BY <2>1, <2>2
<1>9. (n + 1) + 1 = n + 2
  OBVIOUS
<1> QED BY <1>1, <1>2, <1>7, <1>8, <1>9
\* The clusters of a chain are numbers.
LEMMA ChainType ==
  ASSUME NEW im, WellFormed(im), NEW s \in DOMAIN im.fat, NEW n \in Nat
  PROVE  Chain(im.fat, s, n + 1) \in Int
<1> DEFINE Inv == {i \in 0 .. n : Chain(im.fat, s, i + 1) \in InChain(im)}
<1>1. 0 \in Inv
  <2>1. Chain(im.fat, s, 1) = s /\ 0 + 1 = 1
    BY ChainFirst
  <2> QED BY <2>1 DEF InChain
<1>2. ASSUME NEW i \in 0 .. n - 1, i \in Inv PROVE i + 1 \in Inv
  <2>1. i \in Nat /\ i + 1 \in 0 .. n /\ (i + 1) + 1 = i + 2
    OBVIOUS
  <2>2. Chain(im.fat, s, i + 2) = Following(im.fat, Chain(im.fat, s, i + 1))
    BY <2>1, ChainNext
  <2>3. PICK c \in InChain(im) : c = Chain(im.fat, s, i + 1)
    BY <1>2
  <2>4. Following(im.fat, c) \in InChain(im)
    BY FollowingType
  <2> QED BY <2>1, <2>2, <2>3, <2>4
<1>3. n \in Inv
  <2> HIDE DEF Inv
  <2> QED BY <1>1, <1>2, Rounds
<1> QED BY <1>3 DEF InChain, WellFormed, NoCluster

-----------------------------------------------------------------------------
(* Reads                                                                   *)

\* The state of the loop of readFromFile().
Reading(c, l, b, e) == [cluster |-> c, left |-> l, bytes |-> b, end |-> e]
Readings(im) == {Reading(c, l, b, e) : c \in DOMAIN im.fat, l \in Nat, b \in Seq(Int),
                                       e \in {"no", "read", "failed"}}

\* The bytes read so far and the first n of a cluster.
Grown(b, c, n) == b \o ClusterBytes(c, n)

\* The bytes of a cluster.
LEMMA ClusterBytesOf ==
  ASSUME NEW c \in Nat, NEW n \in Nat
  PROVE  /\ ClusterBytes(c, n) \in Seq(Int) /\ Len(ClusterBytes(c, n)) = n
         /\ \A i \in 1 .. n : ClusterBytes(c, n)[i] = c * ClusterSize + i - 1
<1>1. c * ClusterSize \in Nat
  BY FATAssumption
<1>2. PICK m \in Nat : m = c * ClusterSize
  BY <1>1
<1>3. ClusterBytes(c, n) = [i \in 1 .. n |-> m + i - 1]
  BY <1>2 DEF ClusterBytes
<1>4. [i \in 1 .. n |-> m + i - 1] \in [1 .. n -> Int]
  OBVIOUS
<1>5. [i \in 1 .. n |-> m + i - 1] \in Seq(Int)
  BY <1>4, SeqDef
<1>6. Len(ClusterBytes(c, n)) = n
  <2>1. PICK q \in Seq(Int) : q = ClusterBytes(c, n)
    BY <1>3, <1>5
  <2>2. DOMAIN q = 1 .. n
    BY <1>3, <2>1
  <2>3. DOMAIN q = 1 .. Len(q) /\ Len(q) \in Nat
    BY SeqFacts
  <2>4. Len(q) = n
    BY <2>2, <2>3
  <2> QED BY <2>1, <2>4
<1> QED BY <1>2, <1>3, <1>5, <1>6

\* What the round makes of it.
RoundIs(fat, c, l, b, round) ==
  /\ l < ClusterSize => round = Reading(c, l, Grown(b, c, l), "read")
  /\ l >= ClusterSize /\ fat[c] = Free => round = Reading(c, l, b, "failed")
  /\ l >= ClusterSize /\ fat[c] # Free /\ fat[c] >= ChainEnd =>
       round = Reading(c, l, Grown(b, c, ClusterSize), "read")
  /\ l >= ClusterSize /\ fat[c] # Free /\ ~(fat[c] >= ChainEnd) =>
       round = Reading(fat[c], l - ClusterSize, Grown(b, c, ClusterSize), "no")

\* One round, from an explicit state.
LEMMA ReadRound ==
  ASSUME NEW fat, NEW c, NEW l \in Nat, NEW b
  PROVE  RoundIs(fat, c, l, b, ReadCluster(fat, Reading(c, l, b, "no")))
<1>1. PICK r, all, some : /\ r = [cluster |-> c, left |-> l, bytes |-> b, end |-> "no"]
                          /\ all = b \o ClusterBytes(c, ClusterSize)
                          /\ some = b \o ClusterBytes(c, l)
  OBVIOUS
<1>2. r.cluster = c /\ r.left = l /\ r.bytes = b /\ r.end = "no"
  BY <1>1
<1>3. ClusterSize \in Nat
  BY FATAssumption
<1>4. CASE l < ClusterSize
  <2>1. PICK s : s = [r EXCEPT !.bytes = some]
    OBVIOUS
  <2>2. ReadCluster(fat, r) = [s EXCEPT !.end = "read"]
    BY <1>1, <1>2, <1>3, <1>4, <2>1 DEF ReadCluster
  <2>3. s = Reading(c, l, some, "no")
    BY <1>1, <2>1 DEF Reading
  <2>4. ReadCluster(fat, r) = Reading(c, l, some, "read")
    BY <2>2, <2>3 DEF Reading
  <2> QED BY <1>1, <1>3, <1>4, <2>4 DEF Reading, Grown, RoundIs
<1>5. CASE l >= ClusterSize /\ fat[c] = Free
  <2>1. ReadCluster(fat, r) = [r EXCEPT !.end = "failed"]
    BY <1>1, <1>2, <1>3, <1>5 DEF ReadCluster
  <2>2. [r EXCEPT !.end = "failed"] = Reading(c, l, b, "failed")
    BY <1>1 DEF Reading
  <2> QED BY <1>1, <1>3, <1>5, <2>1, <2>2 DEF Reading, Grown, RoundIs
<1>6. CASE l >= ClusterSize /\ fat[c] # Free /\ fat[c] >= ChainEnd
  <2>1. PICK s : s = [r EXCEPT !.bytes = all]
    OBVIOUS
  <2>2. ReadCluster(fat, r) = [s EXCEPT !.end = "read"]
    BY <1>1, <1>2, <1>3, <1>6, <2>1 DEF ReadCluster
  <2>3. s = Reading(c, l, all, "no")
    BY <1>1, <2>1 DEF Reading
  <2>4. ReadCluster(fat, r) = Reading(c, l, all, "read")
    BY <2>2, <2>3 DEF Reading
  <2> QED BY <1>1, <1>3, <1>6, <2>4 DEF Reading, Grown, RoundIs
<1>7. CASE l >= ClusterSize /\ fat[c] # Free /\ ~(fat[c] >= ChainEnd)
  <2>1. PICK s : s = [r EXCEPT !.bytes = all]
    OBVIOUS
  <2>2. PICK t : t = [s EXCEPT !.cluster = fat[c]]
    OBVIOUS
  <2>3. ReadCluster(fat, r) = [t EXCEPT !.left = l - ClusterSize]
    BY <1>1, <1>2, <1>3, <1>7, <2>1, <2>2 DEF ReadCluster, NextCluster
  <2>4. s = Reading(c, l, all, "no")
    BY <1>1, <2>1 DEF Reading
  <2>5. t = Reading(fat[c], l, all, "no")
    BY <2>2, <2>4 DEF Reading
  <2>6. ReadCluster(fat, r) = Reading(fat[c], l - ClusterSize, all, "no")
    BY <2>3, <2>5 DEF Reading
  <2> QED BY <1>1, <1>3, <1>7, <2>6 DEF Reading, Grown, RoundIs
<1> QED BY <1>3, <1>4, <1>5, <1>6, <1>7 DEF RoundIs

\* The bytes are those of the chain from s.
BytesOf(im, s, bytes) ==
  \A k \in 1 .. Len(bytes) :
    bytes[k] = Chain(im.fat, s, ((k - 1) \div ClusterSize) + 1) * ClusterSize
                 + ((k - 1) % ClusterSize)

\* What the bytes are then.
GrowsTo(im, s, n, all, m) ==
  all \in Seq(Int) /\ Len(all) = n * ClusterSize + m /\ BytesOf(im, s, all)

\* After n whole clusters come the first m bytes of the next one.
LEMMA BytesGrow ==
  ASSUME NEW im, NEW s, NEW n \in Nat, NEW b \in Seq(Int), Len(b) = n * ClusterSize,
         BytesOf(im, s, b), NEW c \in Nat, c = Chain(im.fat, s, n + 1),
         NEW m \in 0 .. ClusterSize
  PROVE  GrowsTo(im, s, n, Grown(b, c, m), m)
<1> DEFINE all == b \o ClusterBytes(c, m)
<1>1. ClusterSize \in Nat \ {0} /\ m \in Nat
  BY FATAssumption
<1>2. PICK size \in Nat : size = n * ClusterSize
  BY <1>1
<1>3. /\ ClusterBytes(c, m) \in Seq(Int) /\ Len(ClusterBytes(c, m)) = m
      /\ \A i \in 1 .. m : ClusterBytes(c, m)[i] = c * ClusterSize + i - 1
  BY <1>1, ClusterBytesOf
<1>4. /\ all \in Seq(Int) /\ Len(all) = size + m
      /\ \A i \in 1 .. size + m :
           all[i] = IF i <= size THEN b[i] ELSE ClusterBytes(c, m)[i - size]
  <2>1. PICK q \in Seq(Int) : q = ClusterBytes(c, m)
    BY <1>3
  <2>2. /\ b \o q \in Seq(Int) /\ Len(b \o q) = Len(b) + Len(q)
        /\ \A i \in 1 .. Len(b) + Len(q) :
             (b \o q)[i] = IF i <= Len(b) THEN b[i] ELSE q[i - Len(b)]
    BY ConcatProperties
  <2>3. Len(b) = size /\ Len(q) = m
    BY <1>2, <1>3, <2>1
  <2> QED BY <2>1, <2>2, <2>3
<1> HIDE DEF all
<1>5. ASSUME NEW k \in 1 .. size + m
      PROVE  all[k] = Chain(im.fat, s, ((k - 1) \div ClusterSize) + 1) * ClusterSize
                        + ((k - 1) % ClusterSize)
  <2>1. CASE k <= size
    <3>1. k \in 1 .. Len(b)
      BY <1>2, <2>1
    <3> QED BY <1>4, <2>1, <3>1 DEF BytesOf
  <2>2. CASE ~(k <= size)
    <3>1. PICK i \in 1 .. m : k = size + i
      <4>1. k - size \in 1 .. m /\ k = size + (k - size)
        BY <1>1, <1>2, <2>2
      <4> QED BY <4>1
    <3>2. i - 1 \in 0 .. ClusterSize - 1 /\ k - 1 \in Nat /\ k - 1 = n * ClusterSize + (i - 1)
      BY <1>1, <1>2, <3>1
    <3>3. (k - 1) \div ClusterSize = n /\ (k - 1) % ClusterSize = i - 1
      BY <1>1, <3>2, DivisionUnique
    <3>4. all[k] = c * ClusterSize + i - 1
      <4>1. k - size = i
        BY <1>2, <3>1
      <4>2. all[k] = ClusterBytes(c, m)[i]
        BY <1>4, <2>2, <4>1
      <4> QED BY <1>3, <4>2
    <3>5. c * ClusterSize \in Nat /\ i \in Nat
      BY <1>1
    <3> QED BY <3>3, <3>4, <3>5
  <2> QED BY <2>1, <2>2
<1>6. BytesOf(im, s, all)
  BY <1>4, <1>5 DEF BytesOf
<1> QED BY <1>2, <1>4, <1>6 DEF all, Grown, GrowsTo

\* The loop of readFromFile() after n rounds.
ReadAt(im, s, length, n, c, l, b, e) ==
  /\ BytesOf(im, s, b)
  /\ e = "no" => /\ n * ClusterSize + l = length
                 /\ Len(b) = n * ClusterSize
                 /\ c = Chain(im.fat, s, n + 1)
  /\ e = "read" => /\ Len(b) <= length
                   /\ Len(b) < length =>
                        Chain(im.fat, s, (Len(b) \div ClusterSize) + 1) = NoCluster
  /\ e = "failed" => \E j \in 1 .. length \div ClusterSize :
                       /\ Chain(im.fat, s, j) # NoCluster
                       /\ im.fat[Chain(im.fat, s, j)] = Free
ReadInv(im, s, length, n, r) ==
  \E c \in DOMAIN im.fat, l \in Nat, b \in Seq(Int), e \in {"no", "read", "failed"} :
    r = Reading(c, l, b, e) /\ ReadAt(im, s, length, n, c, l, b, e)

\* A round keeps to it.
LEMMA ReadInvRound ==
  ASSUME NEW im, WellFormed(im), NEW s \in DOMAIN im.fat, NEW length \in Nat,
         NEW n \in Nat, NEW r, ReadInv(im, s, length, n, r)
  PROVE  ReadInv(im, s, length, n + 1, ReadCluster(im.fat, r))
<1> DEFINE C == ClusterSize
           D == DOMAIN im.fat
           chain(j) == Chain(im.fat, s, j)
<1>1. PICK c \in D, l \in Nat, b \in Seq(Int), e \in {"no", "read", "failed"} :
        /\ r = Reading(c, l, b, e)
        /\ BytesOf(im, s, b)
        /\ e = "no" => /\ n * C + l = length
                       /\ Len(b) = n * C
                       /\ c = chain(n + 1)
        /\ e = "read" => /\ Len(b) <= length
                         /\ Len(b) < length => chain((Len(b) \div C) + 1) = NoCluster
        /\ e = "failed" => \E j \in 1 .. length \div C :
                             chain(j) # NoCluster /\ im.fat[chain(j)] = Free
  BY DEF ReadInv, ReadAt
<1>2. C \in Nat \ {0} /\ n * C \in Nat /\ D \subseteq Nat /\ Len(b) \in Nat
      /\ im.fat[c] \in Nat
  BY FATAssumption, SeqFacts DEF WellFormed
<1>3. CASE e # "no"
  <2>1. r.end = e
    BY <1>1 DEF Reading
  <2>2. ReadCluster(im.fat, r) = r
    BY <1>3, <2>1 DEF ReadCluster
  <2>3. ReadInv(im, s, length, n + 1, r)
    BY <1>1, <1>3 DEF ReadInv, ReadAt
  <2> QED BY <2>2, <2>3
<1>4. CASE e = "no"
  <2>1. n * C + l = length /\ Len(b) = n * C /\ c = chain(n + 1) /\ c \in Nat
    BY <1>1, <1>2, <1>4
  <2>2. c # NoCluster
    BY <2>1 DEF NoCluster
  <2>3. chain(n + 2) = Following(im.fat, c)
    BY <2>1, ChainNext
  <2>4. (n + 1) * C = n * C + C
    BY <1>2
  <2>7. r = Reading(c, l, b, "no")
    BY <1>1, <1>4
  <2>8. RoundIs(im.fat, c, l, b, ReadCluster(im.fat, r))
    BY <2>7, ReadRound
  <2>5. CASE l < C
    <3>1. PICK all : all = Grown(b, c, l)
      OBVIOUS
    <3>2. all \in Seq(Int) /\ Len(all) = n * C + l /\ BytesOf(im, s, all)
      <4>1. l \in 0 .. ClusterSize
        BY <1>2, <2>5
      <4>2. GrowsTo(im, s, n, Grown(b, c, l), l)
        BY <1>1, <2>1, <4>1, BytesGrow
      <4> QED BY <3>1, <4>2 DEF GrowsTo
    <3>3. ReadCluster(im.fat, r) = Reading(c, l, all, "read")
      BY <2>5, <2>8, <3>1 DEF RoundIs
    <3>4. Len(all) = length
      BY <2>1, <3>2
    <3>5. ReadAt(im, s, length, n + 1, c, l, all, "read")
      BY <1>2, <3>2, <3>4 DEF ReadAt
    <3> QED BY <3>2, <3>3, <3>5 DEF ReadInv
  <2>6. CASE l >= C
    <3>1. PICK all : all = Grown(b, c, C)
      OBVIOUS
    <3>2. all \in Seq(Int) /\ Len(all) = (n + 1) * C /\ BytesOf(im, s, all)
      <4>1. C \in 0 .. ClusterSize
        BY <1>2
      <4>2. PICK m \in 0 .. ClusterSize : m = C
        BY <4>1
      <4>3. GrowsTo(im, s, n, Grown(b, c, m), m)
        BY <1>1, <2>1, BytesGrow
      <4> QED BY <2>4, <3>1, <4>2, <4>3 DEF GrowsTo
    <3>3. (n + 1) * C <= length /\ (n + 1) * C \in Nat
      BY <1>2, <2>1, <2>4, <2>6
    <3>4. CASE im.fat[c] = Free
      <4>1. ReadCluster(im.fat, r) = Reading(c, l, b, "failed")
        BY <2>6, <2>8, <3>4 DEF RoundIs
      <4>2. n + 1 \in 1 .. length \div C
        <5>1. PICK q \in Nat, rest \in 0 .. C - 1 : q = length \div C /\ length = q * C + rest
          BY <1>2, Division
        <5>2. q < n + 1 => q * C + C <= (n + 1) * C
          BY <1>2, Multiples
        <5>3. q * C \in Nat
          BY <1>2
        <5>4. ~(q < n + 1)
          <6>1. PICK x \in Nat, y \in Nat : x = q * C /\ y = (n + 1) * C
            BY <3>3, <5>3
          <6>2. C \in Nat /\ length = x + rest /\ y <= length
                /\ (q < n + 1 => x + C <= y)
            BY <1>2, <3>3, <5>1, <5>2, <6>1
          <6>3. rest <= C - 1
            BY <5>1
          <6>4. PICK size \in Nat : size = C
            BY <1>2
          <6>5. length = x + rest /\ y <= length /\ rest <= size - 1
                /\ (q < n + 1 => x + size <= y)
            BY <6>2, <6>3, <6>4
          <6> HIDE DEF C
          <6> QED BY <6>5
        <5> QED BY <5>1, <5>4
      <4>3. \E j \in 1 .. length \div C : chain(j) # NoCluster /\ im.fat[chain(j)] = Free
        BY <2>1, <2>2, <3>4, <4>2
      <4>4. ReadAt(im, s, length, n + 1, c, l, b, "failed")
        BY <1>1, <4>3 DEF ReadAt
      <4> QED BY <4>1, <4>4 DEF ReadInv
    <3>5. CASE im.fat[c] # Free /\ im.fat[c] >= ChainEnd
      <4>1. ReadCluster(im.fat, r) = Reading(c, l, all, "read")
        BY <2>6, <2>8, <3>1, <3>5 DEF RoundIs
      <4>2. chain(n + 2) = NoCluster
        BY <2>2, <2>3, <3>5 DEF Following
      <4>3. Len(all) \div C = n + 1
        <5>1. Len(all) \in Nat /\ 0 \in 0 .. C - 1 /\ Len(all) = (n + 1) * C + 0
          BY <1>2, <3>2, <3>3
        <5> QED BY <1>2, <5>1, DivisionUnique
      <4>4. (n + 1) + 1 = n + 2
        OBVIOUS
      <4>5. chain((Len(all) \div C) + 1) = NoCluster
        BY <4>2, <4>3, <4>4
      <4>6. Len(all) <= length
        BY <3>2, <3>3
      <4>7. ReadAt(im, s, length, n + 1, c, l, all, "read")
        BY <3>2, <4>5, <4>6 DEF ReadAt
      <4> QED BY <3>2, <4>1, <4>7 DEF ReadInv
    <3>6. CASE im.fat[c] # Free /\ ~(im.fat[c] >= ChainEnd)
      <4>1. PICK next \in D : next = im.fat[c]
        BY <3>6 DEF WellFormed
      <4>2. ReadCluster(im.fat, r) = Reading(next, l - C, all, "no")
        BY <2>6, <2>8, <3>1, <3>6, <4>1 DEF RoundIs
      <4>3. next = chain((n + 1) + 1)
        <5>1. (n + 1) + 1 = n + 2
          OBVIOUS
        <5> QED BY <2>2, <2>3, <3>6, <4>1, <5>1 DEF Following
      <4>4. l - C \in Nat /\ (n + 1) * C + (l - C) = length
        BY <1>2, <2>1, <2>4, <2>6
      <4>5. ReadAt(im, s, length, n + 1, next, l - C, all, "no")
        BY <3>2, <4>3, <4>4 DEF ReadAt
      <4> QED BY <3>2, <4>2, <4>4, <4>5 DEF ReadInv
    <3> QED BY <3>4, <3>5, <3>6
  <2> QED BY <1>2, <2>5, <2>6
<1> QED BY <1>3, <1>4

\* What holds of the loop is of the type of its states.
LEMMA ReadInvType ==
  ASSUME NEW im, NEW s, NEW length, NEW n, NEW r, ReadInv(im, s, length, n, r)
  PROVE  r \in Readings(im)
BY DEF ReadInv, Readings

\* The loop begins with nothing read.
LEMMA ReadInvStart ==
  ASSUME NEW im, WellFormed(im), NEW s \in DOMAIN im.fat, NEW length \in Nat
  PROVE  ReadInv(im, s, length, 0, Reading(s, length, << >>, "no"))
<1>1. PICK none \in Seq(Int) : none = << >> /\ Len(none) = 0
  BY EmptySeq
<1>2. BytesOf(im, s, none)
  BY <1>1 DEF BytesOf
<1>3. Chain(im.fat, s, 1) = s
  BY ChainFirst
<1>4. ReadAt(im, s, length, 0, s, length, none, "no")
  <2>1. 0 * ClusterSize = 0 /\ 0 + 1 = 1
    BY FATAssumption
  <2> QED BY <1>1, <1>2, <1>3, <2>1 DEF ReadAt
<1> QED BY <1>1, <1>4 DEF ReadInv

\* There are enough rounds: the loop is left.
LEMMA ReadInvEnd ==
  ASSUME NEW im, NEW s, NEW length \in Nat, NEW c, NEW l \in Nat, NEW b, NEW e,
         ReadAt(im, s, length, (length \div ClusterSize) + 1, c, l, b, e)
  PROVE  e # "no"
<1>1. ClusterSize \in Nat \ {0}
  BY FATAssumption
<1>2. PICK q \in Nat, rest \in 0 .. ClusterSize - 1 :
        q = length \div ClusterSize /\ length = q * ClusterSize + rest
  BY <1>1, Division
<1>3. (q + 1) * ClusterSize = q * ClusterSize + ClusterSize /\ q * ClusterSize \in Nat
  BY <1>1
<1>4. SUFFICES ASSUME e = "no" PROVE FALSE
  OBVIOUS
<1>5. (q + 1) * ClusterSize + l = length
  BY <1>2, <1>4 DEF ReadAt
<1>6. PICK size \in Nat, whole \in Nat : size = ClusterSize /\ whole = q * ClusterSize
  BY <1>1, <1>3
<1>7. (whole + size) + l = length /\ length = whole + rest /\ rest <= size - 1
  BY <1>2, <1>3, <1>5, <1>6
<1> QED BY <1>7

\* The loop, after its last round.
LEMMA ReadLoopIs ==
  ASSUME NEW im, WellFormed(im), NEW s \in DOMAIN im.fat, NEW length \in Nat
  PROVE  \E r : /\ ReadInv(im, s, length, (length \div ClusterSize) + 1, r)
                /\ ReadLoop(im.fat, s, length) =
                     IF r.end = "read" THEN [ok |-> TRUE, bytes |-> r.bytes] ELSE NoRead
<1> DEFINE last == (length \div ClusterSize) + 1
           start == Reading(s, length, << >>, "no")
           A == {r \in Readings(im) : \E n \in Nat : ReadInv(im, s, length, n, r)}
           G == [p \in (1 .. last) \X A |-> ReadCluster(im.fat, p[2])]
           Loop(f) == [n \in 0 .. last |-> IF n = 0 THEN start ELSE ReadCluster(im.fat, f[n - 1])]
           F == CHOOSE f : f = Loop(f)
<1>1. last \in Nat
  BY Division, FATAssumption
<1>2. start \in A
  BY ReadInvStart, ReadInvType
<1>3. ASSUME NEW a \in A PROVE ReadCluster(im.fat, a) \in A
  <2>1. PICK n \in Nat : ReadInv(im, s, length, n, a)
    OBVIOUS
  <2>2. ReadInv(im, s, length, n + 1, ReadCluster(im.fat, a))
    BY <2>1, ReadInvRound
  <2>3. ReadCluster(im.fat, a) \in Readings(im)
    BY <2>2, ReadInvType
  <2> QED BY <2>2, <2>3
<1>4. ASSUME NEW i \in 1 .. last, NEW a \in A PROVE G[<< i, a >>] = ReadCluster(im.fat, a)
  OBVIOUS
<1>5. ReadLoop(im.fat, s, length) =
        IF F[last].end = "read" THEN [ok |-> TRUE, bytes |-> F[last].bytes] ELSE NoRead
  BY DEF ReadLoop, Reading
<1> HIDE DEF last, A, G, start
<1>6. PICK g : LoopValues(g, last, A, start, G)
  <2>1. Stays(G, last, A)
    BY <1>3, <1>4 DEF Stays
  <2> QED BY <1>1, <1>2, <2>1, LoopExists
<1>7. g = Loop(g)
  <2>1. ASSUME NEW i \in 0 .. last
        PROVE  g[i] = IF i = 0 THEN start ELSE ReadCluster(im.fat, g[i - 1])
    <3>1. CASE i # 0
      <4>1. i \in 1 .. last /\ i - 1 \in 0 .. last
        BY <1>1, <3>1
      <4>2. g[i] = G[<< i, g[i - 1] >>] /\ g[i - 1] \in A
        BY <1>6, <4>1 DEF LoopValues
      <4> QED BY <1>4, <3>1, <4>1, <4>2
    <3> QED BY <1>6, <3>1 DEF LoopValues
  <2> QED BY <1>6, <2>1 DEF LoopValues
<1>8. F = Loop(F)
  <2> HIDE DEF Loop
  <2> QED BY <1>7
<1> HIDE DEF F
<1>9. \A i \in 0 .. last : F[i] = IF i = 0 THEN start ELSE ReadCluster(im.fat, F[i - 1])
  <2>1. \A i \in 0 .. last :
          Loop(F)[i] = IF i = 0 THEN start ELSE ReadCluster(im.fat, F[i - 1])
    OBVIOUS
  <2> HIDE DEF Loop
  <2> QED BY <1>8, <2>1
<1> DEFINE Inv == {i \in 0 .. last : ReadInv(im, s, length, i, F[i])}
<1>10. 0 \in Inv
  <2>1. F[0] = start /\ 0 \in 0 .. last
    BY <1>1, <1>9
  <2> QED BY <2>1, ReadInvStart DEF start
<1>11. ASSUME NEW i \in 0 .. last - 1, i \in Inv PROVE i + 1 \in Inv
  <2>1. i + 1 \in 0 .. last /\ i + 1 # 0 /\ (i + 1) - 1 = i /\ i \in Nat
    BY <1>1
  <2>2. F[i + 1] = ReadCluster(im.fat, F[i])
    BY <1>9, <2>1
  <2>3. ReadInv(im, s, length, i + 1, ReadCluster(im.fat, F[i]))
    BY <1>11, <2>1, ReadInvRound
  <2> QED BY <2>1, <2>2, <2>3
<1>12. last \in Inv
  <2> HIDE DEF Inv
  <2> QED BY <1>1, <1>10, <1>11, Rounds
<1>13. ReadInv(im, s, length, last, F[last])
  BY <1>12
<1> QED BY <1>5, <1>13 DEF last

\* A file in the listing is one of the root, and its chain is in the table.
LEMMA ListedEntry ==
  ASSUME image \in Images, WellFormed(image), NEW k \in DOMAIN RootEnts(image)
  PROVE  /\ RootEnts(image)[k].size \in Nat
         /\ RootEnts(image)[k].size * ClusterSize \in Nat
         /\ RootEnts(image)[k].size * ClusterSize < SizeModulus
         /\ RootEnts(image)[k].start \in DOMAIN image.fat
<1> DEFINE L == {e \in ToSet(image.root) : Listed(e)}
<1>1. Only(image.root, L) \in Seq(L)
  <2> HIDE DEF L
  <2> QED BY RootOf, OnlyIn
<1>2. PICK q \in Seq(L) : q = RootEnts(image)
  BY <1>1 DEF RootEnts
<1>3. q[k] \in L
  <2> HIDE DEF L
  <2> QED BY <1>2, SeqFacts
<1>4. PICK e \in L : e = q[k]
  BY <1>3
<1>5. /\ e.size \in Nat /\ e.size * ClusterSize < SizeModulus
      /\ e.start \in DOMAIN image.fat
  BY DEF WellFormed
<1>6. e.size * ClusterSize \in Nat
  BY <1>5, FATAssumption
<1> QED BY <1>2, <1>4, <1>5, <1>6

\* The lesser of two numbers.
LEMMA LesserOf ==
  ASSUME NEW x \in Nat, NEW y \in Nat
  PROVE  Min({x, y}) \in Nat
<1>1. {x, y} \in SUBSET Nat /\ {x, y} # {}
  OBVIOUS
<1>2. Min({x, y}) \in {x, y}
  BY <1>1, LeastIndex
<1> QED BY <1>2

\* The read is one of the image.
ReadOfImage ==
  fread # NULL => \E length \in Lengths :
    /\ fread.length = length
    /\ fread.read = readFromFile(image, fread.name, length)

\* Every read is one of the image.
LEMMA ReadOfImageInvariant == Spec => []ReadOfImage
<1>1. Init => ReadOfImage
  BY DEF Init, ReadOfImage
<1>2. ReaderInv /\ ReadOfImage /\ [Next]_vars => ReadOfImage'
  <2> SUFFICES ASSUME ReaderInv, ReadOfImage, [Next]_vars PROVE ReadOfImage'
    OBVIOUS
  <2>1. ASSUME fread' = NULL PROVE ReadOfImage'
    BY <2>1 DEF ReadOfImage
  <2>2. ASSUME fread' = fread, image' = image PROVE ReadOfImage'
    BY <2>2 DEF ReadOfImage
  <2>3. CASE VMFileRead
    <3>1. image' = image /\ reader # NULL
      BY <2>3 DEF VMFileRead
    <3>2. CASE reader.dir = 0
      BY <2>2, <2>3, <3>1, <3>2 DEF VMFileRead
    <3>3. CASE reader.dir # 0
      <4>1. PICK name, read : /\ name = dirs[reader.dir].ent
                              /\ read = readFromFile(image, name, reader.length)
        OBVIOUS
      <4>2. fread' = [name |-> name, length |-> reader.length, read |-> read]
        BY <2>3, <3>3, <4>1 DEF VMFileRead
      <4>3. fread'.name = name /\ fread'.length = reader.length /\ fread'.read = read
        BY <4>2
      <4>4. reader.length \in Lengths
        BY <3>1 DEF ReaderInv
      <4> QED BY <3>1, <4>1, <4>3, <4>4 DEF ReadOfImage
    <3> QED BY <3>2, <3>3
  <2>4. \/ fread' = NULL
        \/ fread' = fread /\ image' = image
        \/ VMFileRead
    BY DEF Next, vars, VMDirectoryOpen, VMDirectoryClose, VMDirectoryRead,
           VMDirectoryRewind, VMFileReadFind, VMDirectoryChange, Follow
  <2> QED BY <2>1, <2>2, <2>3, <2>4
<1> QED BY <1>1, <1>2, ReaderInvInvariant, PTL DEF Spec

\* What is true of a read of the image.
LEMMA ReadOfImageChain ==
  ASSUME image \in Images, WellFormed(image), ReadOfImage
  PROVE  ReadsChain
<1> SUFFICES ASSUME fread # NULL
             PROVE  ReadsChain
  BY DEF ReadsChain
<1> DEFINE R == RootEnts(image)
           known == {i \in DOMAIN R : R[i].name = fread.name}
           entry == R[Min(known)]
           C == ClusterSize
           asked == Min({entry.size, fread.length})
           bytes == fread.read.bytes
           chain(j) == Chain(image.fat, entry.start, j)
<1>1. PICK length \in Nat : /\ fread.length = length
                            /\ fread.read = readFromFile(image, fread.name, length)
  BY VolumeAssumption DEF ReadOfImage
<1>2. ReadsChain <=>
        IF fread.read.ok
        THEN /\ known # {}
             /\ Len(bytes) <= fread.length
             /\ \A k \in DOMAIN bytes :
                  bytes[k] - bytes[1] = FileByte(image, entry, k) - FileByte(image, entry, 1)
             /\ Len(bytes) < asked => chain((Len(bytes) \div C) + 1) = NoCluster
        ELSE known = {} \/ \E j \in 1 .. fread.length \div C :
               chain(j) # NoCluster /\ image.fat[chain(j)] = Free
  BY DEF ReadsChain, Known, ReadEntry, ReadChain
<1>3. DOMAIN R = 1 .. Len(R) /\ Len(R) \in Nat
  BY RootOf, SeqFacts
<1>4. EntryOf(image, fread.name) = IF known # {} THEN Min(known) ELSE 0
  BY <1>3 DEF EntryOf, SelectInSeq
<1>5. CASE known = {}
  <2>1. fread.read = NoRead
    BY <1>1, <1>4, <1>5 DEF readFromFile
  <2>2. ~fread.read.ok
    BY <2>1 DEF NoRead
  <2> QED BY <1>2, <1>5, <2>2
<1>6. CASE known # {}
  <2>1. Min(known) \in known
    <3>1. known \in SUBSET Nat
      BY <1>3
    <3> HIDE DEF known
    <3> QED BY <1>6, <3>1, LeastIndex
  <2>2. PICK k \in DOMAIN R : k = Min(known)
    BY <2>1
  <2>3. k # 0
    BY <1>3
  <2>4. /\ R[k].size \in Nat /\ R[k].size * C \in Nat /\ R[k].size * C < SizeModulus
        /\ R[k].start \in DOMAIN image.fat
    BY ListedEntry
  <2>5. PICK size \in Nat : size = R[k].size * C /\ size % SizeModulus = size
    <3>1. PICK size \in Nat : size = R[k].size * C
      BY <2>4
    <3>2. SizeModulus \in Nat \ {0} /\ size < SizeModulus
      BY <2>4, <3>1, FATAssumption
    <3>3. size % SizeModulus = size
      BY <3>2
    <3> QED BY <3>1, <3>3
  <2>6. PICK left \in Nat : left = Min({size, length})
    BY LesserOf
  <2>7. asked <= left /\ left <= length /\ asked \in Nat
    <3>1. PICK own \in Nat : own = R[k].size /\ own <= size
      <4>1. PICK own \in Nat : own = R[k].size
        BY <2>4
      <4>2. size = own * C /\ C \in Nat \ {0}
        BY <2>5, <4>1, FATAssumption
      <4>3. own <= own * C
        BY <4>2, AtLeast
      <4> QED BY <4>1, <4>2, <4>3
    <3>2. asked = Min({own, length})
      BY <1>1, <2>2, <3>1
    <3>3. /\ Min({own, length}) \in {own, length}
          /\ Min({own, length}) <= own /\ Min({own, length}) <= length
      BY LeastIndex
    <3>4. Min({size, length}) \in {size, length} /\ Min({size, length}) <= length
      BY LeastIndex
    <3> HIDE DEF asked
    <3> QED BY <2>6, <3>1, <3>2, <3>3, <3>4
  <2>8. PICK s \in DOMAIN image.fat : s = R[k].start
    BY <2>4
  <2>9. fread.read = ReadLoop(image.fat, s, left)
    BY <1>1, <1>4, <1>6, <2>2, <2>3, <2>5, <2>6, <2>8 DEF readFromFile
  <2>10. entry.start = s
    BY <2>2, <2>8
  <2>11. PICK r : /\ ReadInv(image, s, left, (left \div C) + 1, r)
                  /\ ReadLoop(image.fat, s, left) =
                       IF r.end = "read" THEN [ok |-> TRUE, bytes |-> r.bytes] ELSE NoRead
    BY ReadLoopIs
  <2>12. PICK c \in DOMAIN image.fat, l \in Nat, b \in Seq(Int),
              e \in {"no", "read", "failed"} :
           r = Reading(c, l, b, e) /\ ReadAt(image, s, left, (left \div C) + 1, c, l, b, e)
    BY <2>11 DEF ReadInv
  <2>13. e # "no"
    BY <2>12, ReadInvEnd
  <2>14. r.end = e /\ r.bytes = b
    BY <2>12 DEF Reading
  <2>15. CASE e = "read"
    <3>1. fread.read.ok /\ bytes = b
      BY <2>9, <2>11, <2>14, <2>15
    <3>2. /\ Len(b) <= left
          /\ Len(b) < left => Chain(image.fat, s, (Len(b) \div C) + 1) = NoCluster
          /\ BytesOf(image, s, b)
      BY <2>12, <2>15 DEF ReadAt
    <3>3. ASSUME NEW i \in DOMAIN b
          PROVE  b[i] = FileByte(image, entry, i) + 2 * C /\ FileByte(image, entry, i) \in Int
      <4>1. i \in 1 .. Len(b) /\ Len(b) \in Nat /\ b[i] \in Int
        BY SeqFacts
      <4>2. PICK cluster : cluster = Chain(image.fat, s, ((i - 1) \div C) + 1)
        OBVIOUS
      <4>3. PICK rest \in Int : rest = (i - 1) % C
        <5>1. i - 1 \in Nat /\ C \in Nat \ {0}
          BY <4>1, FATAssumption
        <5> QED BY <5>1, Division
      <4>4. b[i] = cluster * C + rest
        BY <3>2, <4>1, <4>2, <4>3 DEF BytesOf
      <4>5. FileByte(image, entry, i) = (cluster - 2) * C + rest
        BY <2>10, <4>2, <4>3 DEF FileByte
      <4>6. cluster \in Int
        <5>1. i - 1 \in Nat /\ C \in Nat \ {0}
          BY <4>1, FATAssumption
        <5>2. (i - 1) \div C \in Nat
          BY <5>1, Division
        <5> QED BY <4>2, <5>2, ChainType
      <4>7. (cluster - 2) * C + rest + 2 * C = cluster * C + rest
        BY <4>6, FATAssumption
      <4>8. (cluster - 2) * C + rest \in Int
        BY <4>6, FATAssumption
      <4> QED BY <4>4, <4>5, <4>7, <4>8
    <3>4. ASSUME NEW i \in DOMAIN bytes
          PROVE  bytes[i] - bytes[1] = FileByte(image, entry, i) - FileByte(image, entry, 1)
      <4>1. i \in DOMAIN b /\ 1 \in DOMAIN b
        BY <3>1, <3>4, SeqFacts
      <4>2. PICK x \in Int, y \in Int :
               x = FileByte(image, entry, i) /\ y = FileByte(image, entry, 1)
        BY <3>3, <4>1
      <4>3. b[i] = x + 2 * C /\ b[1] = y + 2 * C
        BY <3>3, <4>1, <4>2
      <4>4. (x + 2 * C) - (y + 2 * C) = x - y
        BY <4>2, FATAssumption
      <4> HIDE DEF entry
      <4> QED BY <3>1, <4>2, <4>3, <4>4
    <3>5. Len(bytes) <= fread.length
      <4>1. Len(b) \in Nat
        BY SeqFacts
      <4> QED BY <1>1, <2>7, <3>1, <3>2, <4>1
    <3>6. Len(bytes) < asked => chain((Len(bytes) \div C) + 1) = NoCluster
      <4>1. Len(b) \in Nat
        BY SeqFacts
      <4>2. ASSUME Len(b) < asked PROVE Len(b) < left
        <5> HIDE DEF asked
        <5> QED BY <2>7, <4>1, <4>2
      <4> QED BY <2>10, <3>1, <3>2, <4>2
    <3> HIDE DEF known, entry, asked, bytes, chain
    <3> QED BY <1>2, <1>6, <3>1, <3>4, <3>5, <3>6
  <2>16. CASE e = "failed"
    <3>1. ~fread.read.ok
      BY <2>9, <2>11, <2>14, <2>16 DEF NoRead
    <3>2. \E j \in 1 .. left \div C :
            /\ Chain(image.fat, s, j) # NoCluster
            /\ image.fat[Chain(image.fat, s, j)] = Free
      BY <2>12, <2>16 DEF ReadAt
    <3>3. \A j \in 1 .. left \div C : j \in 1 .. fread.length \div C
      <4>1. left \div C <= length \div C /\ left \div C \in Nat /\ length \div C \in Nat
        BY <2>7, DivisionGrows
      <4> QED BY <1>1, <4>1
    <3>4. \E j \in 1 .. fread.length \div C :
            chain(j) # NoCluster /\ image.fat[chain(j)] = Free
      BY <2>10, <3>2, <3>3
    <3> HIDE DEF known, entry, asked, bytes, chain
    <3> QED BY <1>2, <3>1, <3>4
  <2> QED BY <2>12, <2>13, <2>15, <2>16
<1> QED BY <1>5, <1>6

\* From an image in order, whose chains stay in the table and whose sizes do
\* not wrap, every read follows the chain of its file: no cluster is left out,
\* taken twice or out of order, and it stops short only at the end of the
\* chain or of the file (VMFileRead, readFromFile).
THEOREM ReadsTheChain ==
  ASSUME \A im \in Images : WellFormed(im)
  PROVE  Spec => []ReadsChain
<1>1. DirInv /\ ReadOfImage => ReadsChain
  BY ReadOfImageChain DEF DirInv
<1> QED BY <1>1, DirInvInvariant, ReadOfImageInvariant, PTL

-----------------------------------------------------------------------------
(* Names                                                                   *)

Letters == Characters \ {Slash}

\* A name is not empty and has no delimiter.
Name == Seq(Letters) \ {<< >>}

\* What is known of a text without a delimiter.
LEMMA LettersText ==
  ASSUME NEW n \in Seq(Letters)
  PROVE  /\ n \in Text /\ ~EndsInDelimiter(n)
         /\ \A i \in 1 .. Len(n) : n[i] # Slash
         /\ Append(n, Slash) \in Text /\ EndsInDelimiter(Append(n, Slash))
         /\ \A c \in Letters : Append(n, c) \in Name
<1>1. Letters \subseteq Characters
  BY DEF Letters
<1>2. n \in Text
  BY <1>1, SeqMonotonic DEF Text
<1>3. /\ Len(n) \in Nat /\ (n = << >> <=> Len(n) = 0)
      /\ \A i \in 1 .. Len(n) : n[i] \in Letters
  BY SeqFacts
<1>4. \A i \in 1 .. Len(n) : n[i] # Slash
  BY <1>3 DEF Letters
<1>5. ~EndsInDelimiter(n)
  <2> SUFFICES ASSUME n # << >> PROVE n[Len(n)] # Slash
    BY DEF EndsInDelimiter, Last
  <2>1. Len(n) \in 1 .. Len(n)
    BY <1>3
  <2> QED BY <1>4, <2>1
<1>6. Append(n, Slash) \in Text /\ EndsInDelimiter(Append(n, Slash))
  BY <1>2, SlashChar, TextAppend
<1>7. ASSUME NEW c \in Letters PROVE Append(n, c) \in Name
  BY AppendProperties DEF Name
<1> QED BY <1>2, <1>4, <1>5, <1>6, <1>7

\* The name in an entry.
LEMMA BareOf ==
  ASSUME NEW n \in Seq(Letters)
  PROVE  Bare(n) = n /\ Bare(Append(n, Slash)) = n
<1>1. n \in Text /\ ~EndsInDelimiter(n) /\ EndsInDelimiter(Append(n, Slash))
  BY LettersText
<1>2. Front(Append(n, Slash)) = n
  BY <1>1, SlashChar, TextAppend
<1> QED BY <1>1, <1>2 DEF Bare

\* It is a text, whatever the entry.
LEMMA BareType ==
  ASSUME NEW e \in Text
  PROVE  Bare(e) \in Text
<1>1. CASE EndsInDelimiter(e)
  <2>1. Front(e) \in Seq(Characters)
    BY <1>1, FrontAndLast DEF EndsInDelimiter, Text
  <2> QED BY <1>1, <2>1 DEF Bare, Text
<1> QED BY <1>1 DEF Bare

\* The entries of a relative path with one character more.
LEMMA EntriesOf ==
  /\ Entries(<< >>) = << >>
  /\ \A w \in Text, c \in Characters : /\ Entries(w) \in Seq(Text)
                                       /\ Entries(Append(w, c)) = AddCharacter(Entries(w), c)
<1>1. Entries(<< >>) = << >>
  BY SlashChar, EntriesFolded, FoldedEmpty
<1>2. ASSUME NEW w \in Text, NEW c \in Characters
      PROVE  /\ Entries(w) \in Seq(Text)
             /\ Entries(Append(w, c)) = AddCharacter(Entries(w), c)
  <2>1. PICK none \in Seq(Text) : none = << >>
    BY EmptySeq
  <2>2. PICK v \in Text : v = Append(w, c)
    BY TextAppend
  <2>3. Entries(w) = Folded(w, none, EntryRound) /\ Entries(w) \in Seq(Text)
    BY <2>1, EntriesFolded
  <2>4. Entries(v) = Folded(v, none, EntryRound)
    BY <2>1, EntriesFolded
  <2>5. w \in Seq(Characters)
    BY DEF Text
  <2>6. Folded(Append(w, c), none, EntryRound) = EntryRound[<< Folded(w, none, EntryRound), c >>]
    <3>1. PICK A, T : A = Seq(Text) /\ T = Characters
      OBVIOUS
    <3>2. w \in Seq(T) /\ c \in T /\ none \in A /\ Turns(EntryRound, A, T)
      BY <2>1, <2>5, <3>1, EntryTurns
    <3> QED BY <3>2, FoldedAppend
  <2>7. \A a \in Seq(Text) : EntryRound[<< a, c >>] = AddCharacter(a, c)
    BY DEF EntryRound
  <2> QED BY <2>2, <2>3, <2>4, <2>6, <2>7
<1> QED BY <1>1, <1>2

\* A character that begins an entry, and one that goes on with it.
LEMMA AddCharacterTo ==
  ASSUME NEW es \in Seq(Text), NEW e \in Text, NEW c \in Characters
  PROVE  /\ AddCharacter(<< >>, c) = << << c >> >>
         /\ EndsInDelimiter(e) =>
              AddCharacter(Append(es, e), c) = Append(Append(es, e), << c >>)
         /\ e # << >> /\ ~EndsInDelimiter(e) =>
              AddCharacter(Append(es, e), c) = Append(es, Append(e, c))
<1>1. Front(Append(es, e)) = es /\ Last(Append(es, e)) = e
  BY LastOfAppend
<1>2. Append(es, e) # << >>
  BY AppendProperties
<1>3. Append(<< >>, << c >>) = << << c >> >>
  OBVIOUS
<1>4. AddCharacter(<< >>, c) = << << c >> >>
  BY <1>3 DEF AddCharacter
<1> QED BY <1>1, <1>2, <1>4 DEF AddCharacter

\* SimplifyPath with one entry more.
LEMMA AddEntriesOf ==
  ASSUME NEW abs \in Places, NEW es \in Seq(Text)
  PROVE  /\ AddEntries(abs, << >>) = Success(abs)
         /\ AddEntries(abs, es) \in Sims
         /\ \A e \in Text :
              AddEntries(abs, Append(es, e)) = AddEntry(AddEntries(abs, es), e)
<1>1. PICK b \in Sims : b = Success(abs)
  BY DEF Sims
<1>2. AddEntries(abs, << >>) = b
  <2>1. << >> \in Seq(Text)
    BY EmptySeq
  <2> QED BY <1>1, <2>1, AddEntriesFolded, FoldedEmpty
<1>3. AddEntries(abs, es) = Folded(es, b, SimRound) /\ AddEntries(abs, es) \in Sims
  BY <1>1, AddEntriesFolded
<1>4. ASSUME NEW e \in Text
      PROVE  AddEntries(abs, Append(es, e)) = AddEntry(AddEntries(abs, es), e)
  <2>1. PICK t \in Seq(Text) : t = Append(es, e)
    BY AppendProperties
  <2>2. AddEntries(abs, t) = Folded(t, b, SimRound)
    BY <1>1, AddEntriesFolded
  <2>3. Folded(Append(es, e), b, SimRound) = SimRound[<< Folded(es, b, SimRound), e >>]
    BY SimTurns, FoldedAppend
  <2> QED BY <1>3, <2>1, <2>2, <2>3, SimTurns
<1> QED BY <1>1, <1>2, <1>3, <1>4

\* The names of a list of entries.
NamesOf(es) ==
  Only([k \in DOMAIN es |-> Bare(es[k])], Seq(Characters) \ {<< >>})

\* One entry more.
LEMMA NamesOfAppend ==
  ASSUME NEW es \in Seq(Text), NEW e \in Text
  PROVE  NamesOf(Append(es, e)) = IF Bare(e) = << >> THEN NamesOf(es)
                                  ELSE Append(NamesOf(es), Bare(e))
<1>1. PICK t \in Seq(Text) : t = Append(es, e)
  BY AppendProperties
<1>2. /\ Len(es) \in Nat /\ DOMAIN es = 1 .. Len(es) /\ DOMAIN t = 1 .. Len(t)
      /\ \A k \in 1 .. Len(es) : es[k] \in Text
      /\ Len(t) = Len(es) + 1 /\ t[Len(es) + 1] = e
      /\ \A k \in 1 .. Len(es) : t[k] = es[k]
  BY <1>1, SeqFacts, AppendProperties
<1>3. PICK s, v : /\ s = [k \in DOMAIN es |-> Bare(es[k])]
                  /\ v = [k \in DOMAIN t |-> Bare(t[k])]
  OBVIOUS
<1>4. PICK b \in Text : b = Bare(e)
  BY BareType
<1>5. s \in Seq(Text) /\ Len(s) = Len(es) /\ \A k \in 1 .. Len(es) : s[k] = Bare(es[k])
  <2>1. \A k \in 1 .. Len(es) : Bare(es[k]) \in Text
    BY <1>2, BareType
  <2>2. s \in [1 .. Len(es) -> Text]
    BY <1>2, <1>3, <2>1
  <2>3. s \in Seq(Text)
    BY <1>2, <2>2, SeqDef
  <2> QED BY <1>2, <1>3, <2>2, <2>3, LenProperties
<1>6. v \in Seq(Text) /\ Len(v) = Len(t) /\ \A k \in 1 .. Len(t) : v[k] = Bare(t[k])
  <2>1. \A k \in 1 .. Len(t) : Bare(t[k]) \in Text
    BY BareType, SeqFacts
  <2>2. v \in [1 .. Len(t) -> Text]
    BY <1>2, <1>3, <2>1
  <2>3. v \in Seq(Text)
    BY <1>2, <2>2, SeqDef
  <2> QED BY <1>2, <1>3, <2>2, <2>3, LenProperties
<1>7. v = Append(s, b)
  <2>1. PICK u \in Seq(Text) : u = Append(s, b)
    BY <1>5, AppendProperties
  <2>2. /\ Len(u) = Len(s) + 1 /\ u[Len(s) + 1] = b
        /\ \A k \in 1 .. Len(s) : u[k] = s[k]
    BY <1>5, <2>1, AppendProperties
  <2>3. ASSUME NEW k \in 1 .. Len(v) PROVE v[k] = u[k]
    <3>1. CASE k = Len(es) + 1
      BY <1>2, <1>4, <1>5, <1>6, <2>2, <3>1
    <3>2. CASE k # Len(es) + 1
      <4>1. k \in 1 .. Len(es)
        BY <1>2, <1>6, <3>2
      <4> QED BY <1>2, <1>5, <1>6, <2>2, <4>1
    <3> QED BY <3>1, <3>2
  <2>4. Len(v) = Len(u)
    BY <1>2, <1>5, <1>6, <2>2
  <2> QED BY <1>6, <2>1, <2>3, <2>4, SeqEqual
<1>8. PICK S : S = Seq(Characters) \ {<< >>}
  OBVIOUS
<1>9. Only(Append(s, b), S) = IF b \in S THEN Append(Only(s, S), b) ELSE Only(s, S)
  BY <1>5, OnlyAppend
<1>10. b \in S <=> b # << >>
  BY <1>8 DEF Text
<1>11. NamesOf(es) = Only(s, S) /\ NamesOf(t) = Only(v, S)
  BY <1>3, <1>8 DEF NamesOf
<1> QED BY <1>1, <1>4, <1>7, <1>9, <1>10, <1>11

\* The names of a path are those of its entries, and an empty list has none.
LEMMA NamesAre ==
  /\ \A w : Names(w) = NamesOf(Entries(w))
  /\ NamesOf(<< >>) = << >>
<1>1. \A w : Names(w) = NamesOf(Entries(w))
  BY DEF Names, NamesOf
<1>2. NamesOf(<< >>) = << >>
  <2>1. [k \in DOMAIN << >> |-> Bare(<< >>[k])] = << >>
    OBVIOUS
  <2> QED BY <2>1, OnlyEmpty DEF NamesOf
<1> QED BY <1>1, <1>2

-----------------------------------------------------------------------------
(* Lists of names                                                          *)

JoinRound == [p \in Text \X Text |-> p[1] \o << Slash >> \o p[2]]

\* The rounds of the loop over names.
LEMMA JoinTurns ==
  /\ Turns(JoinRound, Text, Text)
  /\ \A a, n \in Text : JoinRound[<< a, n >>] = a \o << Slash >> \o n
<1>1. ASSUME NEW a \in Text, NEW n \in Text
      PROVE  /\ JoinRound[<< a, n >>] = a \o << Slash >> \o n
             /\ a \o << Slash >> \o n \in Text
  <2>1. JoinRound[<< a, n >>] = a \o << Slash >> \o n
    BY DEF JoinRound
  <2>2. PICK t \in Text : t = a \o << Slash >>
    BY SlashChar, Glue
  <2> QED BY <2>1, <2>2, Glue
<1> QED BY <1>1 DEF Turns

\* The path of a list of names is made name by name.
LEMMA JoinedFolded ==
  ASSUME NEW ns \in Seq(Text)
  PROVE  Joined(ns) = Folded(ns, << >>, JoinRound)
<1> DEFINE Round(f) == [n \in 0 .. Len(ns) |->
                          IF n = 0 THEN << >> ELSE f[n - 1] \o << Slash >> \o ns[n]]
           F == CHOOSE f : f = Round(f)
<1>1. Len(ns) \in Nat /\ Len(ns) \in 0 .. Len(ns) /\ 0 \in 0 .. Len(ns)
      /\ \A i \in 1 .. Len(ns) : ns[i] \in Text
  BY SeqFacts
<1>2. PICK none \in Text : none = << >>
  BY SlashChar
<1>3. PICK g : g \in [0 .. Len(ns) -> Text] /\ Follows(g, ns, none, JoinRound)
  BY JoinTurns, FoldedRounds
<1>4. g = Round(g)
  <2>1. ASSUME NEW i \in 0 .. Len(ns)
        PROVE  g[i] = IF i = 0 THEN none ELSE g[i - 1] \o << Slash >> \o ns[i]
    <3>1. CASE i # 0
      <4>1. i \in 1 .. Len(ns) /\ i - 1 \in 0 .. Len(ns)
        BY <3>1, <1>1
      <4>2. g[i] = JoinRound[<< g[i - 1], ns[i] >>] /\ g[i - 1] \in Text
        BY <4>1, <1>3 DEF Follows
      <4> QED BY <1>1, JoinTurns, <3>1, <4>1, <4>2
    <3> QED BY <1>3, <3>1 DEF Follows
  <2> QED BY <1>2, <1>3, <2>1
<1>5. F = Round(F)
  <2> HIDE DEF Round
  <2> QED BY <1>4
<1>6. Joined(ns) = F[Len(ns)]
  BY DEF Joined
<1> HIDE DEF F
<1>7. \A i \in 0 .. Len(ns) :
        F[i] = IF i = 0 THEN none ELSE F[i - 1] \o << Slash >> \o ns[i]
  <2>1. \A i \in 0 .. Len(ns) :
          Round(F)[i] = IF i = 0 THEN none ELSE F[i - 1] \o << Slash >> \o ns[i]
    BY <1>2
  <2> HIDE DEF Round
  <2> QED BY <1>5, <2>1
<1>8. F[0] = none
  BY <1>1, <1>7
<1>9. \A i \in 1 .. Len(ns) : F[i - 1] \in Text => F[i] = JoinRound[<< F[i - 1], ns[i] >>]
  <2>1. \A i \in 1 .. Len(ns) : i \in 0 .. Len(ns) /\ i # 0
    BY <1>1
  <2> QED BY <1>1, JoinTurns, <1>7, <2>1
<1>10. F[Len(ns)] = Folded(ns, none, JoinRound)
  <2> HIDE DEF Round
  <2> QED BY JoinTurns, <1>8, <1>9, FoldedIs
<1> QED BY <1>2, <1>6, <1>10

\* The path of a list with one name more.
LEMMA JoinedOf ==
  ASSUME NEW ns \in Seq(Text)
  PROVE  /\ Joined(<< >>) = << >> /\ Joined(ns) \in Text
         /\ \A n \in Text : Joined(Append(ns, n)) = Joined(ns) \o << Slash >> \o n
<1>1. PICK none \in Text : none = << >>
  BY SlashChar
<1>2. Joined(<< >>) = << >>
  <2>1. << >> \in Seq(Text)
    BY EmptySeq
  <2> QED BY <2>1, JoinedFolded, FoldedEmpty
<1>3. Joined(ns) = Folded(ns, none, JoinRound)
  BY <1>1, JoinedFolded
<1>4. Folded(ns, none, JoinRound) \in Text
  <2>1. PICK e : e \in Text
    BY <1>1
  <2> QED BY <2>1, JoinTurns, FoldedAppend
<1>5. ASSUME NEW n \in Text
      PROVE  Joined(Append(ns, n)) = Joined(ns) \o << Slash >> \o n
  <2>1. PICK t \in Seq(Text) : t = Append(ns, n)
    BY AppendProperties
  <2>2. Joined(t) = Folded(t, none, JoinRound)
    BY <1>1, JoinedFolded
  <2>3. Folded(Append(ns, n), none, JoinRound)
          = JoinRound[<< Folded(ns, none, JoinRound), n >>]
    BY JoinTurns, FoldedAppend
  <2> QED BY <1>3, <1>4, <2>1, <2>2, <2>3, JoinTurns
<1> QED BY <1>2, <1>3, <1>4, <1>5

\* Where a walk may lead.
Ways == Seq(Name) \cup {NoWay}

\* NoWay is not a list of names.
LEMMA NoWayIsNone == NoWay \notin Seq(Name)
<1> SUFFICES ASSUME NoWay \in Seq(Name) PROVE FALSE
  OBVIOUS
<1>1. PICK v \in Seq(Name) : v = << << Slash >> >>
  BY DEF NoWay
<1>2. Len(v) = 1 /\ v[1] = << Slash >>
  BY <1>1
<1>3. 1 \in 1 .. Len(v)
  BY <1>2
<1>4. PICK n \in Seq(Letters) : n = << Slash >>
  BY <1>2, <1>3, SeqFacts DEF Name
<1>5. Len(n) = 1 /\ n[1] = Slash
  BY <1>4
<1>6. 1 \in 1 .. Len(n)
  BY <1>5
<1> QED BY <1>5, <1>6, LettersText

\* A step leads on along names, or nowhere.
LEMMA StepType ==
  ASSUME NEW at \in Ways, NEW n \in Name
  PROVE  Step(at, n) \in Ways
<1>1. at # NoWay => at \in Seq(Name)
  BY DEF Ways
<1>2. at # NoWay /\ at # << >> => Front(at) \in Seq(Name)
  BY <1>1, FrontAndLast
<1>3. at # NoWay => Append(at, n) \in Seq(Name)
  BY <1>1, AppendProperties
<1>4. NoWay \in Ways
  BY DEF Ways
<1>6. PICK dot, dots : dot = <<".">> /\ dots = <<".", ".">>
  OBVIOUS
<1>7. Step(at, n) = IF at = NoWay \/ n = dot THEN at
                    ELSE IF n = dots THEN IF at = << >> THEN NoWay ELSE Front(at)
                    ELSE Append(at, n)
  BY <1>6 DEF Step
<1> QED BY <1>2, <1>3, <1>4, <1>7 DEF Ways

StepRound == [p \in Ways \X Name |-> Step(p[1], p[2])]

\* The rounds of a walk.
LEMMA StepTurns ==
  /\ Turns(StepRound, Ways, Name)
  /\ \A a \in Ways, n \in Name : StepRound[<< a, n >>] = Step(a, n)
<1>1. ASSUME NEW a \in Ways, NEW n \in Name PROVE StepRound[<< a, n >>] = Step(a, n)
  BY DEF StepRound
<1> QED BY <1>1, StepType DEF Turns

\* A walk is made step by step.
LEMMA WalkFolded ==
  ASSUME NEW at \in Ways, NEW ns \in Seq(Name)
  PROVE  Walk(at, ns) = Folded(ns, at, StepRound)
<1> DEFINE Round(f) == [n \in 0 .. Len(ns) |->
                          IF n = 0 THEN at ELSE Step(f[n - 1], ns[n])]
           F == CHOOSE f : f = Round(f)
<1>1. Len(ns) \in Nat /\ Len(ns) \in 0 .. Len(ns) /\ 0 \in 0 .. Len(ns)
      /\ \A i \in 1 .. Len(ns) : ns[i] \in Name
  BY SeqFacts
<1>3. PICK g : g \in [0 .. Len(ns) -> Ways] /\ Follows(g, ns, at, StepRound)
  BY StepTurns, FoldedRounds
<1>4. g = Round(g)
  <2>1. ASSUME NEW i \in 0 .. Len(ns)
        PROVE  g[i] = IF i = 0 THEN at ELSE Step(g[i - 1], ns[i])
    <3>1. CASE i # 0
      <4>1. i \in 1 .. Len(ns) /\ i - 1 \in 0 .. Len(ns)
        BY <3>1, <1>1
      <4>2. g[i] = StepRound[<< g[i - 1], ns[i] >>] /\ g[i - 1] \in Ways
        BY <4>1, <1>3 DEF Follows
      <4> QED BY <1>1, StepTurns, <3>1, <4>1, <4>2
    <3> QED BY <1>3, <3>1 DEF Follows
  <2> QED BY <1>3, <2>1
<1>5. F = Round(F)
  <2> HIDE DEF Round
  <2> QED BY <1>4
<1>6. Walk(at, ns) = F[Len(ns)]
  BY DEF Walk
<1> HIDE DEF F
<1>7. \A i \in 0 .. Len(ns) : F[i] = IF i = 0 THEN at ELSE Step(F[i - 1], ns[i])
  <2>1. \A i \in 0 .. Len(ns) :
          Round(F)[i] = IF i = 0 THEN at ELSE Step(F[i - 1], ns[i])
    OBVIOUS
  <2> HIDE DEF Round
  <2> QED BY <1>5, <2>1
<1>8. F[0] = at
  BY <1>1, <1>7
<1>9. \A i \in 1 .. Len(ns) : F[i - 1] \in Ways => F[i] = StepRound[<< F[i - 1], ns[i] >>]
  <2>1. \A i \in 1 .. Len(ns) : i \in 0 .. Len(ns) /\ i # 0
    BY <1>1
  <2> QED BY <1>1, StepTurns, <1>7, <2>1
<1>10. F[Len(ns)] = Folded(ns, at, StepRound)
  <2> HIDE DEF Round
  <2> QED BY StepTurns, <1>8, <1>9, FoldedIs
<1> QED BY <1>6, <1>10

\* A walk of one step more.
LEMMA WalkOf ==
  ASSUME NEW at \in Ways, NEW ns \in Seq(Name)
  PROVE  /\ Walk(at, << >>) = at /\ Walk(at, ns) \in Ways
         /\ \A n \in Name : Walk(at, Append(ns, n)) = Step(Walk(at, ns), n)
<1>1. Walk(at, << >>) = at
  <2>1. << >> \in Seq(Name)
    BY EmptySeq
  <2> QED BY <2>1, WalkFolded, FoldedEmpty
<1>2. Walk(at, ns) = Folded(ns, at, StepRound) /\ Walk(at, ns) \in Ways
  <2>1. Walk(at, ns) = Folded(ns, at, StepRound)
    BY WalkFolded
  <2>2. \A i \in 1 .. Len(ns) : ns[i] \in Name
    BY SeqFacts
  <2>3. PICK g : g \in [0 .. Len(ns) -> Ways] /\ Follows(g, ns, at, StepRound)
    BY StepTurns, FoldedRounds
  <2>4. g[Len(ns)] = Folded(ns, at, StepRound)
    BY <2>3, StepTurns, FoldedIs DEF Follows
  <2>5. Len(ns) \in 0 .. Len(ns)
    BY SeqFacts
  <2> QED BY <2>1, <2>3, <2>4, <2>5
<1>3. ASSUME NEW n \in Name
      PROVE  Walk(at, Append(ns, n)) = Step(Walk(at, ns), n)
  <2>1. PICK t \in Seq(Name) : t = Append(ns, n)
    BY AppendProperties
  <2>2. Walk(at, t) = Folded(t, at, StepRound)
    BY WalkFolded
  <2>3. Folded(Append(ns, n), at, StepRound) = StepRound[<< Folded(ns, at, StepRound), n >>]
    BY StepTurns, FoldedAppend
  <2> QED BY <1>2, <2>1, <2>2, <2>3, StepTurns
<1> QED BY <1>1, <1>2, <1>3

-----------------------------------------------------------------------------
(* Paths and their entries                                                 *)

\* A character after two texts comes after the second.
LEMMA ConcatAppend ==
  ASSUME NEW v \in Text, NEW w \in Text, NEW c \in Characters
  PROVE  Append(v \o w, c) = v \o Append(w, c)
<1>1. v \o w \in Text
  BY Glue
<1>2. Append(v \o w, c) = (v \o w) \o << c >> /\ Append(w, c) = w \o << c >>
      /\ << c >> \in Text
  BY <1>1, TextAppend
<1>3. (v \o w) \o << c >> = v \o (w \o << c >>)
  BY <1>2, ConcatAssociative DEF Text
<1> QED BY <1>2, <1>3

\* A text ends as what comes last in it does.
LEMMA ConcatEnds ==
  ASSUME NEW v \in Text, NEW w \in Text, w # << >>
  PROVE  EndsInDelimiter(v \o w) <=> EndsInDelimiter(w)
<1>1. PICK u \in Text, c \in Characters : w = Append(u, c)
  BY TextCases
<1>2. PICK x \in Text : x = v \o u
  BY Glue
<1>3. v \o w = Append(x, c)
  BY <1>1, <1>2, ConcatAppend
<1> QED BY <1>1, <1>2, <1>3, TextAppend

\* A text with a delimiter after it.
LEMMA SlashEnds ==
  ASSUME NEW w \in Text
  PROVE  /\ w \o << Slash >> \in Text /\ w \o << Slash >> = Append(w, Slash)
         /\ EndsInDelimiter(w \o << Slash >>)
         /\ WithDelimiter(w \o << Slash >>) = w \o << Slash >>
<1>1. Append(w, Slash) = w \o << Slash >> /\ Append(w, Slash) \in Text
      /\ EndsInDelimiter(Append(w, Slash))
  BY SlashChar, TextAppend
<1> QED BY <1>1 DEF WithDelimiter

\* The beginnings of a text without two delimiters in a row are like it.
LEMMA PlainAppend ==
  ASSUME NEW w \in Text, NEW c \in Characters, Plain(Append(w, c))
  PROVE  Plain(w) /\ (EndsInDelimiter(w) => c \in Letters)
<1>1. PICK v \in Text : v = Append(w, c)
  BY TextAppend
<1>2. /\ Len(w) \in Nat /\ Len(v) = Len(w) + 1 /\ v[Len(w) + 1] = c
      /\ \A i \in 1 .. Len(w) : v[i] = w[i]
  BY <1>1, TextOf, TextAppend
<1>3. \A i \in 1 .. Len(w) : ~(v[i] = Slash /\ v[i + 1] = Slash)
  BY <1>1, <1>2 DEF Plain
<1>4. ASSUME NEW i \in 1 .. Len(w) - 1 PROVE ~(w[i] = Slash /\ w[i + 1] = Slash)
  <2>1. i \in 1 .. Len(w) /\ i + 1 \in 1 .. Len(w)
    BY <1>2
  <2> QED BY <1>2, <1>3, <2>1
<1>5. ASSUME EndsInDelimiter(w) PROVE c \in Letters
  <2>1. w # << >> /\ w[Len(w)] = Slash
    BY <1>5 DEF EndsInDelimiter, Last
  <2>2. Len(w) \in 1 .. Len(w)
    BY <2>1, TextOf
  <2>3. v[Len(w) + 1] # Slash
    BY <1>2, <1>3, <2>1, <2>2
  <2> QED BY <1>2, <2>3 DEF Letters
<1> QED BY <1>4, <1>5 DEF Plain

\* The next character begins an entry.
Closed(es) == es = << >> \/ EndsInDelimiter(Last(es))

\* A path with its entries: those up to the last delimiter, and a name after it
\* or none.
Parted(w, es) ==
  \/ /\ Entries(w) = es /\ Closed(es)
     /\ w = Joined(NamesOf(es)) \o << Slash >>
  \/ \E n \in Name : /\ Entries(w) = Append(es, n)
                     /\ w = Joined(NamesOf(es)) \o << Slash >> \o n

\* A letter begins a name or goes on with it, and a delimiter ends it.
LEMMA PartedAppend ==
  ASSUME NEW w \in Text, NEW es \in Seq(Text), NamesOf(es) \in Seq(Name),
         Parted(w, es), NEW c \in Characters, Plain(Append(w, c))
  PROVE  \E fs \in Seq(Text) : NamesOf(fs) \in Seq(Name) /\ Parted(Append(w, c), fs)
<1>1. PICK ns \in Seq(Name) : ns = NamesOf(es)
  OBVIOUS
<1>2. Name \subseteq Text
  BY LettersText DEF Name
<1>3. ns \in Seq(Text)
  BY <1>2, SeqMonotonic
<1>4. Joined(ns) \in Text
  BY <1>3, JoinedOf
<1>5. PICK x \in Text : x = Joined(ns) \o << Slash >>
  BY <1>4, SlashEnds
<1>6. EndsInDelimiter(x)
  BY <1>4, <1>5, SlashEnds
<1>7. PICK v \in Text : v = Append(w, c)
  BY TextAppend
<1>8. Entries(v) = AddCharacter(Entries(w), c)
  BY <1>7, EntriesOf
<1>9. EndsInDelimiter(w) => c \in Letters
  BY PlainAppend
<1>10. CASE Entries(w) = es /\ Closed(es) /\ w = x
  <2>1. c \in Letters
    BY <1>6, <1>9, <1>10
  <2>2. PICK n \in Name : n = << c >>
    <3>1. << >> \in Seq(Letters) /\ Append(<< >>, c) = << c >>
      BY EmptySeq
    <3> QED BY <2>1, <3>1, LettersText
  <2>3. Entries(v) = Append(es, n)
    BY <1>8, <1>10, <2>2 DEF AddCharacter, Closed
  <2>4. v = x \o n
    BY <1>7, <1>10, <2>2, TextAppend
  <2> QED BY <1>1, <1>5, <1>7, <2>3, <2>4 DEF Parted
<1>11. ASSUME NEW n \in Name, Entries(w) = Append(es, n), w = x \o n
       PROVE  \E fs \in Seq(Text) : NamesOf(fs) \in Seq(Name) /\ Parted(v, fs)
  <2>1. n \in Seq(Letters) /\ n # << >> /\ n \in Text /\ ~EndsInDelimiter(n)
    BY LettersText DEF Name
  <2>2. PICK m \in Text : m = Append(n, c)
    BY <2>1, TextAppend
  <2>3. Entries(v) = Append(es, m)
    BY <1>8, <1>11, <2>1, <2>2, AddCharacterTo
  <2>4. v = x \o m
    BY <1>7, <1>11, <2>1, <2>2, ConcatAppend
  <2>5. CASE c \in Letters
    <3>1. m \in Name
      BY <2>1, <2>2, <2>5, LettersText
    <3> QED BY <1>1, <1>5, <2>3, <2>4, <3>1 DEF Parted
  <2>6. CASE c = Slash
    <3>1. Bare(m) = n /\ EndsInDelimiter(m)
      BY <2>1, <2>2, <2>6, BareOf, LettersText
    <3>2. PICK fs \in Seq(Text) : fs = Append(es, m)
      BY AppendProperties
    <3>3. NamesOf(fs) = Append(ns, n)
      BY <1>1, <2>1, <3>1, <3>2, NamesOfAppend
    <3>4. NamesOf(fs) \in Seq(Name)
      BY <3>3, AppendProperties
    <3>5. Closed(fs)
      BY <3>1, <3>2, LastOfAppend DEF Closed
    <3>6. Joined(NamesOf(fs)) = x \o n
      BY <1>3, <1>5, <2>1, <3>3, JoinedOf
    <3>7. v = Joined(NamesOf(fs)) \o << Slash >>
      BY <1>7, <1>11, <2>6, <3>6, TextAppend
    <3> QED BY <2>3, <3>2, <3>4, <3>5, <3>7 DEF Parted
  <2> QED BY <2>5, <2>6 DEF Letters
<1>12. \/ Entries(w) = es /\ Closed(es) /\ w = x
       \/ \E n \in Name : Entries(w) = Append(es, n) /\ w = x \o n
  BY <1>1, <1>5 DEF Parted
<1> QED BY <1>7, <1>10, <1>11, <1>12

\* The path in the list of names: it is the absolute path of its names, with
\* or without a delimiter at its end.
Named(w) ==
  /\ Names(w) \in Seq(Name)
  /\ WithDelimiter(w) = Joined(Names(w)) \o << Slash >>

\* From the entries to the names.
LEMMA PartedNamed ==
  ASSUME NEW w \in Text, NEW es \in Seq(Text), NamesOf(es) \in Seq(Name), Parted(w, es)
  PROVE  Named(w)
<1>1. PICK ns \in Seq(Name) : ns = NamesOf(es)
  OBVIOUS
<1>2. Name \subseteq Text
  BY LettersText DEF Name
<1>3. ns \in Seq(Text)
  BY <1>2, SeqMonotonic
<1>4. Joined(ns) \in Text
  BY <1>3, JoinedOf
<1>5. PICK x \in Text : x = Joined(ns) \o << Slash >>
  BY <1>4, SlashEnds
<1>6. CASE Entries(w) = es /\ Closed(es) /\ w = x
  <2>1. Names(w) = ns
    BY <1>1, <1>6, NamesAre
  <2>2. WithDelimiter(w) = w
    BY <1>4, <1>5, <1>6, SlashEnds
  <2> QED BY <1>5, <1>6, <2>1, <2>2 DEF Named
<1>7. ASSUME NEW n \in Name, Entries(w) = Append(es, n), w = x \o n PROVE Named(w)
  <2>1. n \in Seq(Letters) /\ n # << >> /\ n \in Text /\ ~EndsInDelimiter(n)
    BY LettersText DEF Name
  <2>2. Names(w) = Append(ns, n)
    BY <1>1, <1>7, <2>1, BareOf, NamesAre, NamesOfAppend
  <2>3. Names(w) \in Seq(Name)
    BY <2>2, AppendProperties
  <2>4. Joined(Names(w)) = w
    BY <1>3, <1>5, <1>7, <2>1, <2>2, JoinedOf
  <2>5. ~EndsInDelimiter(w)
    BY <1>7, <2>1, ConcatEnds
  <2>6. WithDelimiter(w) = w \o << Slash >>
    BY <2>5, SlashEnds DEF WithDelimiter
  <2> QED BY <2>3, <2>4, <2>6 DEF Named
<1>8. \/ Entries(w) = es /\ Closed(es) /\ w = x
      \/ \E n \in Name : Entries(w) = Append(es, n) /\ w = x \o n
  BY <1>1, <1>5 DEF Parted
<1> QED BY <1>6, <1>7, <1>8

\* An absolute path without two delimiters in a row is the path of its names.
LEMMA PlainNamed ==
  ASSUME NEW w \in Text, IsAbsolutePath(w), Plain(w)
  PROVE  Named(w)
<1> DEFINE Good(t) == \E es \in Seq(Text) : NamesOf(es) \in Seq(Name) /\ Parted(t, es)
           Inv == {t \in Text : IsAbsolutePath(t) /\ Plain(t) => Good(t)}
<1>1. << >> \in Inv
  BY SlashChar DEF IsAbsolutePath
<1>2. ASSUME NEW s \in Seq(Characters), NEW c \in Characters, s \in Inv
      PROVE  Append(s, c) \in Inv
  <2>1. PICK t \in Text : t = Append(s, c)
    BY TextAppend DEF Text
  <2>2. s \in Text
    BY DEF Text
  <2> SUFFICES ASSUME IsAbsolutePath(t), Plain(t) PROVE Good(t)
    BY <2>1
  <2>3. CASE s = << >>
    <3>1. t = << Slash >>
      <4>1. t = << c >> /\ Len(t) = 1 /\ t[1] = c
        BY <2>1, <2>3
      <4> QED BY <4>1, HeadOf
    <3>2. Entries(t) = << << Slash >> >>
      <4>1. c = Slash
        BY <2>1, <2>3, <3>1
      <4>2. Entries(t) = AddCharacter(<< >>, Slash)
        BY <2>1, <2>2, <2>3, <4>1, EntriesOf
      <4>3. << >> \in Seq(Text) /\ << Slash >> \in Text
        BY EmptySeq, SlashChar
      <4> QED BY <4>2, <4>3, SlashChar, AddCharacterTo
    <3>3. PICK e \in Text : e = << Slash >> /\ Bare(e) = << >> /\ EndsInDelimiter(e)
      <4>1. << >> \in Seq(Letters) /\ Append(<< >>, Slash) = << Slash >>
        BY EmptySeq
      <4> QED BY <4>1, SlashChar, BareOf, LettersText
    <3>4. PICK none \in Seq(Text) : none = << >>
      BY EmptySeq
    <3>5. PICK es \in Seq(Text) : es = Append(none, e)
      BY AppendProperties
    <3>6. Entries(t) = es
      BY <3>2, <3>3, <3>4, <3>5
    <3>7. NamesOf(es) = << >>
      BY <3>3, <3>4, <3>5, NamesOfAppend, NamesAre
    <3>8. Closed(es)
      BY <3>3, <3>5, LastOfAppend DEF Closed
    <3>9. t = Joined(NamesOf(es)) \o << Slash >>
      <4>1. Joined(<< >>) = << >>
        BY <3>4, JoinedOf
      <4> QED BY <3>1, <3>7, <4>1, SlashChar, ConcatEmptySeq DEF Text
    <3>10. NamesOf(es) \in Seq(Name)
      BY <3>7, EmptySeq
    <3> QED BY <3>6, <3>8, <3>9, <3>10 DEF Parted
  <2>4. CASE s # << >>
    <3>1. IsAbsolutePath(s)
      <4>1. Len(s) > 0 /\ 1 \in 1 .. Len(s) /\ t[1] = s[1]
        BY <2>1, <2>2, <2>4, TextOf, TextAppend
      <4> QED BY <2>2, <4>1, HeadOf
    <3>2. Plain(s)
      BY <2>1, <2>2, PlainAppend
    <3>3. Good(s)
      BY <1>2, <3>1, <3>2
    <3> HIDE DEF Inv
    <3>4. PICK es \in Seq(Text) : NamesOf(es) \in Seq(Name) /\ Parted(s, es)
      BY <3>3
    <3> QED BY <2>1, <2>2, <3>4, PartedAppend
  <2> QED BY <2>3, <2>4
<1>3. Text \subseteq Inv
  <2> HIDE DEF Inv
  <2> QED BY <1>1, <1>2, Appends DEF Text
<1>4. PICK es \in Seq(Text) : NamesOf(es) \in Seq(Name) /\ Parted(w, es)
  BY <1>3
<1> QED BY <1>4, PartedNamed

\* A name that comes after whole entries is an entry.
LEMMA EntriesThen ==
  ASSUME NEW w \in Text, NEW es \in Seq(Text), Entries(w) = es, Closed(es), NEW n \in Name
  PROVE  Entries(w \o n) = Append(es, n)
<1> DEFINE Inv == {m \in Seq(Letters) : m = << >> \/ Entries(w \o m) = Append(es, m)}
<1>1. << >> \in Inv
  BY EmptySeq
<1>2. ASSUME NEW m \in Seq(Letters), NEW c \in Letters, m \in Inv
      PROVE  Append(m, c) \in Inv
  <2>1. m \in Text /\ ~EndsInDelimiter(m) /\ c \in Characters
    BY LettersText DEF Letters
  <2>2. Append(m, c) \in Seq(Letters)
    BY AppendProperties
  <2>3. PICK v \in Text : v = w \o m
    BY <2>1, Glue
  <2>4. Append(v, c) = w \o Append(m, c)
    BY <2>1, <2>3, ConcatAppend
  <2>5. Entries(Append(v, c)) = AddCharacter(Entries(v), c)
    BY <2>1, EntriesOf
  <2>6. CASE m = << >>
    <3>1. v = w
      BY <2>3, <2>6, ConcatEmptySeq DEF Text
    <3>2. Append(m, c) = << c >>
      BY <2>6
    <3>3. Entries(Append(v, c)) = Append(es, << c >>)
      BY <2>5, <3>1 DEF AddCharacter, Closed
    <3> QED BY <2>2, <2>4, <3>2, <3>3
  <2>7. CASE m # << >>
    <3>1. Entries(v) = Append(es, m)
      BY <1>2, <2>3, <2>7
    <3>2. Entries(Append(v, c)) = Append(es, Append(m, c))
      BY <2>1, <2>5, <2>7, <3>1, AddCharacterTo
    <3> QED BY <2>2, <2>4, <3>2
  <2> QED BY <2>6, <2>7
<1>3. Seq(Letters) \subseteq Inv
  <2> HIDE DEF Inv
  <2> QED BY <1>1, <1>2, Appends
<1> QED BY <1>3 DEF Name

\* The entries of the path of a list of names with a delimiter at its end.
LEMMA JoinedEntries ==
  ASSUME NEW ns \in Seq(Name)
  PROVE  \E es \in Seq(Text) : /\ Entries(Joined(ns) \o << Slash >>) = es
                               /\ Closed(es) /\ NamesOf(es) = ns
<1> DEFINE Good(at) == \E es \in Seq(Text) : /\ Entries(Joined(at) \o << Slash >>) = es
                                             /\ Closed(es) /\ NamesOf(es) = at
           Inv == {at \in Seq(Name) : Good(at)}
<1>1. << >> \in Inv
  <2>1. PICK e \in Text : e = << Slash >> /\ Bare(e) = << >> /\ EndsInDelimiter(e)
    <3>1. << >> \in Seq(Letters) /\ Append(<< >>, Slash) = << Slash >>
      BY EmptySeq
    <3> QED BY <3>1, SlashChar, BareOf, LettersText
  <2>2. PICK none \in Seq(Text) : none = << >>
    BY EmptySeq
  <2>3. PICK es \in Seq(Text) : es = Append(none, e)
    BY AppendProperties
  <2>4. Entries(<< Slash >>) = es
    <3>1. Entries(Append(<< >>, Slash)) = AddCharacter(<< >>, Slash)
      BY SlashChar, EntriesOf
    <3>2. Append(<< >>, Slash) = << Slash >>
      OBVIOUS
    <3>3. AddCharacter(<< >>, Slash) = << e >>
      BY <2>1, <2>2, SlashChar, AddCharacterTo
    <3> QED BY <2>2, <2>3, <3>1, <3>2, <3>3
  <2>5. NamesOf(es) = << >>
    BY <2>1, <2>2, <2>3, NamesOfAppend, NamesAre
  <2>6. Closed(es)
    BY <2>1, <2>3, LastOfAppend DEF Closed
  <2>7. Joined(<< >>) \o << Slash >> = << Slash >>
    BY <2>2, JoinedOf, SlashChar, ConcatEmptySeq DEF Text
  <2>8. << >> \in Seq(Name)
    BY EmptySeq
  <2> QED BY <2>4, <2>5, <2>6, <2>7, <2>8
<1>2. ASSUME NEW at \in Seq(Name), NEW n \in Name, at \in Inv
      PROVE  Append(at, n) \in Inv
  <2>1. PICK es \in Seq(Text) : /\ Entries(Joined(at) \o << Slash >>) = es
                                /\ Closed(es) /\ NamesOf(es) = at
    BY <1>2
  <2>2. Name \subseteq Text
    BY LettersText DEF Name
  <2>3. at \in Seq(Text)
    BY <2>2, SeqMonotonic
  <2>4. Joined(at) \in Text
    BY <2>3, JoinedOf
  <2>5. PICK x \in Text : x = Joined(at) \o << Slash >>
    BY <2>4, SlashEnds
  <2>6. /\ n \in Seq(Letters) /\ n # << >> /\ n \in Text /\ ~EndsInDelimiter(n)
        /\ Append(n, Slash) \in Text /\ EndsInDelimiter(Append(n, Slash))
        /\ Bare(Append(n, Slash)) = n
    BY LettersText, BareOf DEF Name
  <2>7. Entries(x \o n) = Append(es, n)
    BY <2>1, <2>5, EntriesThen
  <2>8. PICK t \in Seq(Name) : t = Append(at, n)
    BY AppendProperties
  <2>9. Joined(t) = x \o n /\ x \o n \in Text
    BY <2>2, <2>3, <2>5, <2>8, JoinedOf, Glue
  <2>10. Joined(t) \o << Slash >> = Append(x \o n, Slash)
    BY <2>9, SlashEnds
  <2>11. Entries(Append(x \o n, Slash)) = Append(es, Append(n, Slash))
    <3>1. PICK y \in Text : y = x \o n
      BY <2>9
    <3>2. Entries(Append(y, Slash)) = AddCharacter(Entries(y), Slash)
      BY SlashChar, EntriesOf
    <3>3. AddCharacter(Append(es, n), Slash) = Append(es, Append(n, Slash))
      BY <2>6, SlashChar, AddCharacterTo
    <3> QED BY <2>7, <3>1, <3>2, <3>3
  <2>12. PICK m \in Text : m = Append(n, Slash)
    BY <2>6
  <2>13. PICK fs \in Seq(Text) : fs = Append(es, m)
    BY AppendProperties
  <2>14. NamesOf(fs) = t
    BY <2>1, <2>6, <2>8, <2>12, <2>13, NamesOfAppend
  <2>15. Closed(fs)
    BY <2>6, <2>12, <2>13, LastOfAppend DEF Closed
  <2>16. Good(t)
    BY <2>10, <2>11, <2>12, <2>13, <2>14, <2>15
  <2> QED BY <2>8, <2>16
<1>3. Seq(Name) \subseteq Inv
  <2> HIDE DEF Inv
  <2> QED BY <1>1, <1>2, Appends
<1> QED BY <1>3

\* A path that is not empty is its last name after those before.
LEMMA JoinedCases ==
  ASSUME NEW ns \in Seq(Name)
  PROVE  /\ Joined(ns) \in Text /\ (Joined(ns) = << >> <=> ns = << >>)
         /\ ~EndsInDelimiter(Joined(ns))
         /\ ns # << >> =>
              /\ Front(ns) \in Seq(Name) /\ Last(ns) \in Name
              /\ ns = Append(Front(ns), Last(ns))
              /\ Joined(Front(ns)) \o << Slash >> \in Text
              /\ Joined(ns) = Joined(Front(ns)) \o << Slash >> \o Last(ns)
<1>1. Name \subseteq Text
  BY LettersText DEF Name
<1>2. ns \in Seq(Text)
  BY <1>1, SeqMonotonic
<1>3. Joined(ns) \in Text /\ Joined(<< >>) = << >>
  BY <1>2, JoinedOf
<1>4. CASE ns = << >>
  BY <1>3, <1>4 DEF EndsInDelimiter
<1>5. CASE ns # << >>
  <2>1. PICK f \in Seq(Name), n \in Name : f = Front(ns) /\ n = Last(ns) /\ ns = Append(f, n)
    BY <1>5, FrontAndLast
  <2>2. f \in Seq(Text)
    BY <1>1, SeqMonotonic
  <2>3. PICK x \in Text : x = Joined(f) \o << Slash >> /\ x # << >>
    BY <2>2, JoinedOf, SlashEnds DEF EndsInDelimiter
  <2>4. Joined(ns) = x \o n
    BY <1>1, <2>1, <2>2, <2>3, JoinedOf
  <2>5. n \in Text /\ n # << >> /\ ~EndsInDelimiter(n)
    BY LettersText DEF Name
  <2>6. ~EndsInDelimiter(x \o n)
    BY <2>5, ConcatEnds
  <2>7. x \o n # << >>
    BY <2>3, <2>5, ConcatEqualIffEmpty DEF Text
  <2> QED BY <1>3, <1>5, <2>1, <2>3, <2>4, <2>6, <2>7
<1> QED BY <1>4, <1>5

\* The absolute path of a list of names has these names.
LEMMA PathOfNames ==
  ASSUME NEW ns \in Seq(Name)
  PROVE  PathOf(ns) \in Text /\ Names(PathOf(ns)) = ns /\ Named(PathOf(ns))
<1>1. CASE ns = << >>
  <2>1. Joined(<< >>) = << >>
    <3>1. << >> \in Seq(Text)
      BY EmptySeq
    <3> QED BY <3>1, JoinedOf
  <2>2. Joined(ns) \o << Slash >> = << Slash >>
    BY <1>1, <2>1, SlashChar, ConcatEmptySeq DEF Text
  <2>3. PathOf(ns) = << Slash >>
    BY <1>1 DEF PathOf
  <2>4. Names(<< Slash >>) = ns
    BY <2>2, JoinedEntries, NamesAre
  <2>5. << >> \in Text
    BY SlashChar
  <2>6. WithDelimiter(<< Slash >>) = << Slash >>
    BY <1>1, <2>1, <2>2, <2>5, SlashEnds
  <2> QED BY <2>2, <2>3, <2>4, <2>6, SlashChar DEF Named
<1>2. CASE ns # << >>
  <2>1. PICK f \in Seq(Name), n \in Name : f = Front(ns) /\ n = Last(ns) /\ ns = Append(f, n)
    BY <1>2, FrontAndLast
  <2>2. PICK x \in Text : x = Joined(f) \o << Slash >>
    BY <1>2, <2>1, JoinedCases
  <2>3. Joined(ns) \in Text /\ Joined(ns) = x \o n /\ ~EndsInDelimiter(Joined(ns))
    BY <1>2, <2>1, <2>2, JoinedCases
  <2>4. PICK es \in Seq(Text) : Entries(x) = es /\ Closed(es) /\ NamesOf(es) = f
    BY <2>2, JoinedEntries
  <2>5. Entries(x \o n) = Append(es, n)
    BY <2>4, EntriesThen
  <2>6. n \in Text /\ n # << >> /\ Bare(n) = n
    BY LettersText, BareOf DEF Name
  <2>7. Names(x \o n) = ns
    BY <2>1, <2>4, <2>5, <2>6, NamesAre, NamesOfAppend
  <2>8. PathOf(ns) = Joined(ns)
    BY <1>2 DEF PathOf
  <2>9. WithDelimiter(Joined(ns)) = Joined(ns) \o << Slash >>
    BY <2>3, SlashEnds DEF WithDelimiter
  <2> QED BY <2>3, <2>7, <2>8, <2>9 DEF Named
<1> QED BY <1>1, <1>2

-----------------------------------------------------------------------------
(* The loop of SimplifyPath                                                *)

\* Which entries are "." and "..".
LEMMA DotEntries ==
  ASSUME NEW n \in Name, NEW e, e = n \/ e = Append(n, Slash)
  PROVE  /\ e \in {<<".">>, <<".", Slash>>} <=> n = <<".">>
         /\ e \in {<<".", ".">>, <<".", ".", Slash>>} <=> n = <<".", ".">>
<1>1. PICK none, u, d, us, ds : /\ none = << >>
                                /\ u = <<".">> /\ d = <<".", ".">>
                                /\ us = <<".", Slash>> /\ ds = <<".", ".", Slash>>
  OBVIOUS
<1>2. "." \in Characters /\ Slash \in Characters /\ "." # Slash
  BY PathAssumption DEF Slash
<1>3. /\ u = Append(none, ".") /\ d = Append(u, ".")
      /\ us = Append(u, Slash) /\ ds = Append(d, Slash)
  BY <1>1
<1>4. none \in Text /\ u \in Text /\ d \in Text
  <2>1. none \in Text
    BY <1>1, SlashChar
  <2>2. u \in Text
    BY <2>1, <1>2, <1>3, TextAppend
  <2> QED BY <2>1, <2>2, <1>2, <1>3, TextAppend
<1>5. ~EndsInDelimiter(u) /\ ~EndsInDelimiter(d) /\ EndsInDelimiter(us) /\ EndsInDelimiter(ds)
      /\ Front(us) = u /\ Front(ds) = d
  BY <1>2, <1>3, <1>4, TextAppend
<1>6. /\ n \in Text /\ ~EndsInDelimiter(n) /\ EndsInDelimiter(Append(n, Slash))
      /\ Front(Append(n, Slash)) = n
  BY <1>2, LettersText, TextAppend DEF Name
<1>7. e \in {u, us} <=> n = u
  BY <1>3, <1>5, <1>6
<1>8. e \in {d, ds} <=> n = d
  BY <1>3, <1>5, <1>6
<1> QED BY <1>1, <1>7, <1>8

\* The path above that of a list of names.
LEMMA ParentOfNamed ==
  ASSUME NEW w \in Places, NEW at \in Seq(Name),
         WithDelimiter(w) = Joined(at) \o << Slash >>
  PROVE  /\ at = << >> => Parent(w) = Failure(w)
         /\ at # << >> => Parent(w) = Success(Joined(Front(at)) \o << Slash >>)
<1> DEFINE last == IF EndsInDelimiter(w) THEN Len(w) - 1 ELSE Len(w)
           above == {i \in 1 .. last : w[i] = Slash}
<1>1. w \in Text /\ Len(w) \in Nat
  BY TextOf DEF Places
<1>2. PICK j \in Text : j = Joined(at)
  BY JoinedCases
<1>3. Len(j) \in Nat /\ (j = << >> <=> at = << >>)
  BY <1>2, TextOf, JoinedCases
<1>4. WithDelimiter(w) = Append(j, Slash)
  BY <1>2, SlashEnds
<1>5. Parent(w) = IF above = {} THEN Failure(w) ELSE Success(SubSeq(w, 1, Max(above)))
  BY DEF Parent
<1>6. last = Len(j) /\ \A i \in 1 .. Len(j) : w[i] = j[i]
  <2>1. CASE EndsInDelimiter(w)
    <3>1. w = Append(j, Slash)
      BY <1>4, <2>1 DEF WithDelimiter
    <3>2. Len(w) = Len(j) + 1 /\ \A i \in 1 .. Len(j) : w[i] = j[i]
      BY <3>1, SlashChar, TextAppend
    <3> QED BY <1>3, <2>1, <3>2
  <2>2. CASE ~EndsInDelimiter(w)
    <3>1. Append(w, Slash) = Append(j, Slash)
      BY <1>4, <2>2 DEF WithDelimiter
    <3>2. w = j
      BY <1>1, <3>1, SlashChar, AppendInjective DEF Text
    <3> QED BY <2>2, <3>2
  <2> QED BY <2>1, <2>2
<1>7. \A i : i \in above <=> i \in 1 .. Len(j) /\ j[i] = Slash
  BY <1>6
<1> HIDE DEF above, last
<1>8. CASE at = << >>
  <2>1. above = {}
    <3>1. Len(j) = 0
      BY <1>3, <1>8, TextOf
    <3> QED BY <1>7, <3>1
  <2> QED BY <1>5, <1>8, <2>1
<1>9. CASE at # << >>
  <2>1. PICK f \in Seq(Name), n \in Name : f = Front(at) /\ n = Last(at)
    BY <1>9, JoinedCases
  <2>2. PICK i \in Text : i = Joined(f)
    BY <2>1, JoinedCases
  <2>3. PICK x \in Text : x = i \o << Slash >> /\ x = Append(i, Slash)
    BY <2>2, SlashEnds
  <2>4. j = x \o n
    BY <1>2, <1>9, <2>1, <2>2, <2>3, JoinedCases
  <2>5. n \in Text /\ Len(n) \in Nat /\ \A k \in 1 .. Len(n) : n[k] # Slash
    BY LettersText, TextOf DEF Name
  <2>6. Len(x) = Len(i) + 1 /\ x[Len(i) + 1] = Slash /\ Len(i) \in Nat
    BY <2>3, SlashChar, TextAppend, TextOf
  <2>7. /\ Len(j) = Len(x) + Len(n)
        /\ \A k \in 1 .. Len(x) : j[k] = x[k]
        /\ \A k \in 1 .. Len(n) : j[Len(x) + k] = n[k]
    BY <2>4, <2>5, Glue
  <2>8. Len(x) \in above
    BY <1>7, <2>5, <2>6, <2>7
  <2>9. ASSUME NEW k \in above PROVE k <= Len(x)
    <3> SUFFICES ASSUME k > Len(x) PROVE FALSE
      BY <1>7, <2>6
    <3>1. k \in 1 .. Len(j) /\ j[k] = Slash
      BY <1>7
    <3>2. PICK a \in Nat, b \in Nat, c \in Nat : a = Len(x) /\ b = Len(n) /\ c = Len(j)
      BY <1>3, <2>5, <2>6
    <3>3. c = a + b /\ k \in 1 .. c /\ k > a
      BY <2>7, <3>1, <3>2
    <3>4. k - a \in 1 .. b /\ a + (k - a) = k
      BY <3>2, <3>3
    <3>5. j[Len(x) + (k - a)] = n[k - a] /\ n[k - a] # Slash
      BY <2>5, <2>7, <3>2, <3>4
    <3> QED BY <3>1, <3>2, <3>4, <3>5
  <2>10. Max(above) = Len(x)
    <3>1. above \in SUBSET (0 .. Len(j)) /\ above # {}
      BY <1>7, <1>3, <2>8
    <3>2. Max(above) \in above /\ \A k \in above : k <= Max(above)
      BY <1>3, <3>1, GreatestIndex
    <3>3. Max(above) \in 1 .. Len(j)
      BY <1>7, <3>2
    <3> QED BY <2>6, <2>8, <2>9, <3>2, <3>3
  <2>11. SubSeq(w, 1, Len(x)) = x
    <3>1. Len(x) \in 0 .. Len(w)
      <4>1. last <= Len(w)
        BY <1>1 DEF last
      <4> QED BY <1>1, <1>6, <2>5, <2>6, <2>7, <4>1
    <3>2. PICK t : t = SubSeq(w, 1, Len(x))
      OBVIOUS
    <3>3. t \in Text /\ Len(t) = Len(x) /\ \A k \in 1 .. Len(x) : t[k] = w[k]
      BY <1>1, <3>1, <3>2, PrefixOf DEF Text
    <3>4. ASSUME NEW k \in 1 .. Len(t) PROVE t[k] = x[k]
      <4>1. k \in 1 .. Len(x) /\ k \in 1 .. Len(j)
        BY <2>5, <2>6, <2>7, <3>3
      <4> QED BY <1>6, <2>7, <3>3, <4>1
    <3> QED BY <3>2, <3>3, <3>4, SeqEqual DEF Text
  <2> QED BY <1>5, <1>9, <2>1, <2>2, <2>3, <2>8, <2>10, <2>11
<1> QED BY <1>8, <1>9

\* What the loop of SimplifyPath has made of the path is the path of the names
\* that the walk has come to, with or without a delimiter at its end; it has
\* failed above the root, or for want of room for so many characters.
Agree(sim, at, most) ==
  /\ sim.status = "success" => /\ at \in Seq(Name)
                               /\ WithDelimiter(sim.path) = Joined(at) \o << Slash >>
  /\ sim.status = "failure" => at = NoWay
  /\ sim.status = "invalid" => most > MaxPath

\* It has so many characters, the delimiter that may come after it included.
Within(sim, most) ==
  sim.status = "success" => Len(WithDelimiter(sim.path)) <= most

\* One round and one step.
LEMMA EntryAgrees ==
  ASSUME NEW sim \in Sims, NEW at \in Ways, NEW most \in Nat,
         Agree(sim, at, most), Within(sim, most),
         NEW n \in Name, NEW e \in Text, e = n \/ e = Append(n, Slash)
  PROVE  /\ Agree(AddEntry(sim, e), Step(at, n), most + Len(e))
         /\ e = Append(n, Slash) => Within(AddEntry(sim, e), most + Len(e))
<1>1. PICK u, d, us, ds : /\ u = <<".">> /\ d = <<".", ".">>
                          /\ us = {<<".">>, <<".", Slash>>}
                          /\ ds = {<<".", ".">>, <<".", ".", Slash>>}
  OBVIOUS
<1>2. (e \in us <=> n = u) /\ (e \in ds <=> n = d) /\ u # d
  <2>1. Len(u) = 1 /\ Len(d) = 2
    BY <1>1
  <2> QED BY <1>1, <2>1, DotEntries
<1>3. AddEntry(sim, e) =
        IF sim.status # "success" \/ e \in us THEN sim
        ELSE IF e \in ds THEN Parent(sim.path)
        ELSE IF Fits(WithDelimiter(sim.path), e)
             THEN Success(WithDelimiter(sim.path) \o e)
        ELSE Invalid(WithDelimiter(sim.path))
  BY <1>1 DEF AddEntry
<1>4. Step(at, n) = IF at = NoWay \/ n = u THEN at
                    ELSE IF n = d THEN IF at = << >> THEN NoWay ELSE Front(at)
                    ELSE Append(at, n)
  BY <1>1 DEF Step
<1>5. Len(e) \in Nat /\ MaxPath \in Nat
  BY TextOf, PathAssumption
<1>6. CASE sim.status # "success"
  <2>1. AddEntry(sim, e) = sim
    BY <1>3, <1>6
  <2>2. sim.status = "failure" => Step(at, n) = NoWay
    BY <1>4 DEF Agree
  <2> QED BY <1>5, <1>6, <2>1, <2>2 DEF Agree, Within
<1>7. CASE sim.status = "success"
  <2>1. PICK w \in Places : w = sim.path
    BY <1>7 DEF Sims, Success, Failure, Invalid
  <2>2. PICK x \in Text : /\ x = Joined(at) \o << Slash >> /\ x = WithDelimiter(w)
                          /\ Len(x) <= most
    BY <1>7, <2>1, JoinedCases, SlashEnds DEF Agree, Within
  <2>3. at \in Seq(Name) /\ at # NoWay /\ Len(x) \in Nat
    BY <1>7, <2>2, NoWayIsNone, TextOf DEF Agree
  <2>4. CASE n = u
    <3>1. AddEntry(sim, e) = sim /\ Step(at, n) = at
      BY <1>2, <1>3, <1>4, <2>4
    <3> QED BY <1>5, <1>7, <2>1, <2>2, <2>3, <3>1 DEF Agree, Within
  <2>5. CASE n = d
    <3>1. AddEntry(sim, e) = Parent(w)
      BY <1>2, <1>3, <1>7, <2>1, <2>5
    <3>2. Step(at, n) = IF at = << >> THEN NoWay ELSE Front(at)
      BY <1>2, <1>4, <2>3, <2>5
    <3>3. CASE at = << >>
      <4>1. Parent(w) = Failure(w)
        BY <2>2, <2>3, <3>3, ParentOfNamed
      <4>2. AddEntry(sim, e).status = "failure" /\ Step(at, n) = NoWay
        BY <3>1, <3>2, <3>3, <4>1 DEF Failure
      <4> QED BY <4>2 DEF Agree, Within
    <3>4. CASE at # << >>
      <4>1. PICK f \in Seq(Name), m \in Name : f = Front(at) /\ m = Last(at)
        BY <2>3, <3>4, JoinedCases
      <4>2. PICK i \in Text, y \in Text : i = Joined(f) /\ y = i \o << Slash >>
                                          /\ WithDelimiter(y) = y
        BY JoinedCases, SlashEnds
      <4>3. AddEntry(sim, e) = Success(y) /\ Step(at, n) = f
        BY <2>2, <2>3, <3>1, <3>2, <3>4, <4>1, <4>2, ParentOfNamed
      <4>4. Len(y) <= most
        <5>1. PICK j \in Text : j = Joined(at) /\ j = y \o m
          BY <2>3, <3>4, <4>1, <4>2, JoinedCases
        <5>2. m \in Text /\ Len(m) \in Nat /\ Len(y) \in Nat
          BY LettersText, TextOf DEF Name
        <5>3. Len(j) = Len(y) + Len(m)
          BY <5>1, <5>2, Glue
        <5>4. x = Append(j, Slash)
          BY <2>2, <5>1, SlashEnds
        <5>5. Len(x) = Len(j) + 1
          BY <5>4, SlashChar, TextAppend
        <5> QED BY <2>2, <2>3, <5>2, <5>3, <5>5
      <4>5. Success(y).status = "success" /\ Success(y).path = y
        BY DEF Success
      <4>6. Len(y) \in Nat
        BY TextOf
      <4>7. PICK r : r = AddEntry(sim, e) /\ r.status = "success" /\ r.path = y
        BY <4>3, <4>5
      <4>8. Agree(r, f, most + Len(e))
        BY <4>2, <4>7 DEF Agree
      <4>9. Len(y) <= most + Len(e)
        BY <1>5, <4>4, <4>6
      <4>10. Within(r, most + Len(e))
        BY <4>2, <4>7, <4>9 DEF Within
      <4> QED BY <4>3, <4>7, <4>8, <4>10
    <3> QED BY <3>3, <3>4
  <2>6. CASE n # u /\ n # d
    <3>1. AddEntry(sim, e) = IF Fits(x, e) THEN Success(x \o e) ELSE Invalid(x)
      BY <1>2, <1>3, <1>7, <2>1, <2>2, <2>6
    <3>2. PICK t \in Seq(Name) : t = Append(at, n) /\ t = Step(at, n)
      BY <1>4, <2>3, <2>6, AppendProperties
    <3>3. CASE ~Fits(x, e)
      <4>1. Len(x) + Len(e) > MaxPath
        BY <1>5, <2>3, <3>3 DEF Fits
      <4>2. AddEntry(sim, e).status = "invalid"
        BY <3>1, <3>3 DEF Invalid
      <4> QED BY <1>5, <2>2, <2>3, <4>1, <4>2 DEF Agree, Within
    <3>4. CASE Fits(x, e)
      <4>1. n \in Text /\ n # << >> /\ ~EndsInDelimiter(n)
        BY LettersText DEF Name
      <4>2. Name \subseteq Text
        BY LettersText DEF Name
      <4>3. at \in Seq(Text)
        BY <2>3, <4>2, SeqMonotonic
      <4>4. Joined(t) = x \o n /\ x \o n \in Text
        BY <2>2, <3>2, <4>1, <4>3, JoinedOf, Glue
      <4>5. PICK y \in Text : y = x \o e /\ Len(y) = Len(x) + Len(e)
        BY Glue
      <4>6. WithDelimiter(y) = Joined(t) \o << Slash >>
        <5>1. CASE e = n
          <6>1. y = x \o n /\ ~EndsInDelimiter(y)
            BY <4>1, <4>5, <5>1, ConcatEnds
          <6> QED BY <4>4, <6>1, SlashEnds DEF WithDelimiter
        <5>2. CASE e = Append(n, Slash)
          <6>1. Append(x \o n, Slash) = x \o Append(n, Slash)
            BY <4>1, SlashChar, ConcatAppend
          <6>2. y = Joined(t) \o << Slash >>
            BY <4>4, <4>5, <5>2, <6>1, SlashEnds
          <6> QED BY <4>4, <6>2, SlashEnds
        <5> QED BY <5>1, <5>2
      <4>7. ASSUME e = Append(n, Slash) PROVE WithDelimiter(y) = y
        <5>1. Append(x \o n, Slash) = x \o Append(n, Slash)
          BY <4>1, SlashChar, ConcatAppend
        <5>2. y = Joined(t) \o << Slash >>
          BY <4>4, <4>5, <4>7, <5>1, SlashEnds
        <5> QED BY <4>6, <5>2
      <4>8. AddEntry(sim, e) = Success(y)
        BY <3>1, <3>4, <4>5
      <4>9. Success(y).status = "success" /\ Success(y).path = y
        BY DEF Success
      <4>10. PICK r : r = AddEntry(sim, e) /\ r.status = "success" /\ r.path = y
        BY <4>8, <4>9
      <4>11. Agree(r, t, most + Len(e))
        BY <4>6, <4>10 DEF Agree
      <4>12. Len(y) <= most + Len(e)
        BY <1>5, <2>2, <2>3, <4>5
      <4>13. e = Append(n, Slash) => Within(r, most + Len(e))
        BY <4>7, <4>10, <4>12 DEF Within
      <4> QED BY <3>2, <4>10, <4>11, <4>13
    <3> QED BY <3>3, <3>4
  <2> QED BY <2>4, <2>5, <2>6
<1> QED BY <1>6, <1>7

\* After q characters, the entries es, the loop and the walk agree.
LoopAgrees(abs, es, q) ==
  Agree(AddEntries(abs, es), Walk(Names(abs), NamesOf(es)), Len(abs) + 1 + q)
LoopWithin(abs, es, q) == Within(AddEntries(abs, es), Len(abs) + 1 + q)

\* SimplifyPath has come to the last entry e of a relative path, with the name
\* n and q characters before it, and with what comes before the walk agrees.
WalkedTo(abs, rel, es, n, e, q) ==
  /\ e = n \/ (e = Append(n, Slash) /\ EndsInDelimiter(rel))
  /\ Entries(rel) = Append(es, e) /\ NamesOf(es) \in Seq(Name)
  /\ Len(rel) = q + Len(e)
  /\ LoopAgrees(abs, es, q) /\ LoopWithin(abs, es, q)
Walked(abs, rel) ==
  \E es \in Seq(Text), n \in Name, e \in Text, q \in Nat : WalkedTo(abs, rel, es, n, e, q)

\* The last entry, too.
LEMMA WalkedEntry ==
  ASSUME NEW abs \in Places, Named(abs), NEW rel \in Text,
         NEW es \in Seq(Text), NEW n \in Name, NEW e \in Text, NEW q \in Nat,
         WalkedTo(abs, rel, es, n, e, q)
  PROVE  /\ Append(es, e) \in Seq(Text)
         /\ NamesOf(Append(es, e)) = Append(NamesOf(es), n)
         /\ NamesOf(Append(es, e)) \in Seq(Name)
         /\ LoopAgrees(abs, Append(es, e), Len(rel))
         /\ e = Append(n, Slash) => LoopWithin(abs, Append(es, e), Len(rel))
<1>1. Len(abs) \in Nat /\ Len(e) \in Nat /\ Names(abs) \in Ways
  BY TextOf DEF Places, Named, Ways
<1>2. PICK ns \in Seq(Name) : ns = NamesOf(es)
  BY DEF WalkedTo
<1>3. n \in Seq(Letters) /\ n # << >>
  BY DEF Name
<1>4. Bare(e) = n
  BY <1>3, BareOf DEF WalkedTo
<1>5. PICK fs \in Seq(Text) : fs = Append(es, e)
  BY AppendProperties
<1>6. NamesOf(fs) = Append(ns, n) /\ Append(ns, n) \in Seq(Name)
  BY <1>2, <1>3, <1>4, <1>5, NamesOfAppend, AppendProperties
<1>7. PICK sim \in Sims : /\ sim = AddEntries(abs, es)
                          /\ AddEntries(abs, fs) = AddEntry(sim, e)
  BY <1>5, AddEntriesOf
<1>8. PICK at \in Ways : /\ at = Walk(Names(abs), ns)
                         /\ Walk(Names(abs), Append(ns, n)) = Step(at, n)
  BY <1>1, WalkOf
<1>9. PICK most \in Nat : /\ most = Len(abs) + 1 + q
                          /\ most + Len(e) = Len(abs) + 1 + Len(rel)
  <2>1. Len(rel) = q + Len(e)
    BY DEF WalkedTo
  <2>2. PICK a \in Nat, b \in Nat : a = Len(abs) /\ b = Len(e)
    BY <1>1
  <2>3. a + 1 + q \in Nat /\ (a + 1 + q) + b = a + 1 + (q + b)
    BY <2>2
  <2> QED BY <2>1, <2>2, <2>3
<1>10. Agree(sim, at, most) /\ Within(sim, most) /\ (e = n \/ e = Append(n, Slash))
  BY <1>2, <1>7, <1>8, <1>9 DEF WalkedTo, LoopAgrees, LoopWithin
<1>11. /\ Agree(AddEntry(sim, e), Step(at, n), most + Len(e))
       /\ e = Append(n, Slash) => Within(AddEntry(sim, e), most + Len(e))
  BY <1>10, EntryAgrees
<1>12. LoopAgrees(abs, fs, Len(rel))
  BY <1>6, <1>7, <1>8, <1>9, <1>11 DEF LoopAgrees
<1>13. e = Append(n, Slash) => LoopWithin(abs, fs, Len(rel))
  BY <1>7, <1>9, <1>11 DEF LoopWithin
<1> QED BY <1>2, <1>5, <1>6, <1>12, <1>13

\* The first character.
LEMMA WalkedFirst ==
  ASSUME NEW abs \in Places, Named(abs), NEW c \in Letters
  PROVE  Walked(abs, << c >>)
<1>1. PICK none \in Seq(Text) : none = << >>
  BY EmptySeq
<1>2. PICK n \in Name : n = << c >>
  <2>1. << >> \in Seq(Letters) /\ Append(<< >>, c) = << c >>
    BY EmptySeq
  <2> QED BY <2>1, LettersText
<1>3. n \in Text /\ c \in Characters
  BY LettersText DEF Name, Letters
<1>4. Entries(n) = Append(none, n)
  <2>1. << >> \in Text /\ Append(<< >>, c) = << c >>
    BY SlashChar
  <2>2. Entries(Append(<< >>, c)) = AddCharacter(<< >>, c)
    BY <1>3, <2>1, EntriesOf
  <2>3. AddCharacter(<< >>, c) = << n >>
    BY <1>1, <1>2, <1>3, AddCharacterTo
  <2> QED BY <1>1, <1>2, <2>1, <2>2, <2>3
<1>5. NamesOf(none) = << >> /\ NamesOf(none) \in Seq(Name)
  BY <1>1, NamesAre, EmptySeq
<1>6. abs \in Text /\ Len(abs) \in Nat /\ Names(abs) \in Seq(Name) /\ Names(abs) \in Ways
  BY TextOf DEF Places, Named, Ways
<1>7. AddEntries(abs, none) = Success(abs)
  BY <1>1, AddEntriesOf
<1>8. Walk(Names(abs), NamesOf(none)) = Names(abs)
  BY <1>5, <1>6, WalkOf
<1>9. Success(abs).status = "success" /\ Success(abs).path = abs
  BY DEF Success
<1>10. Agree(Success(abs), Names(abs), Len(abs) + 1 + 0)
  BY <1>6, <1>9 DEF Agree, Named
<1>11. Len(WithDelimiter(abs)) <= Len(abs) + 1
  <2>1. Len(Append(abs, Slash)) = Len(abs) + 1
    BY <1>6, SlashChar, TextAppend
  <2> QED BY <1>6, <2>1 DEF WithDelimiter
<1>12. Within(Success(abs), Len(abs) + 1 + 0)
  BY <1>6, <1>9, <1>11 DEF Within
<1>13. Len(n) \in Nat /\ Len(n) = 0 + Len(n)
  BY <1>3, TextOf
<1>14. LoopAgrees(abs, none, 0) /\ LoopWithin(abs, none, 0)
  BY <1>7, <1>8, <1>10, <1>12 DEF LoopAgrees, LoopWithin
<1>15. WalkedTo(abs, n, none, n, n, 0)
  BY <1>4, <1>5, <1>13, <1>14 DEF WalkedTo
<1> QED BY <1>2, <1>3, <1>15 DEF Walked

\* One character more.
LEMMA WalkedAppend ==
  ASSUME NEW abs \in Places, Named(abs), NEW rel \in Text, Walked(abs, rel),
         NEW c \in Characters, Plain(Append(rel, c))
  PROVE  Walked(abs, Append(rel, c))
<1>1. PICK es \in Seq(Text), n \in Name, e \in Text, q \in Nat : WalkedTo(abs, rel, es, n, e, q)
  BY DEF Walked
<1>2. PICK v \in Text : v = Append(rel, c)
  BY TextAppend
<1>3. Len(v) = Len(rel) + 1 /\ Len(rel) \in Nat /\ Len(e) \in Nat /\ Len(rel) = q + Len(e)
  BY <1>1, <1>2, TextAppend, TextOf DEF WalkedTo
<1>4. Entries(v) = AddCharacter(Append(es, e), c)
  BY <1>1, <1>2, EntriesOf DEF WalkedTo
<1>5. n \in Seq(Letters) /\ n # << >> /\ n \in Text /\ ~EndsInDelimiter(n)
  BY LettersText DEF Name
<1>6. EndsInDelimiter(rel) => c \in Letters
  BY PlainAppend
<1>7. CASE e = Append(n, Slash)
  <2>1. EndsInDelimiter(e)
    BY <1>5, <1>7, LettersText
  <2>2. c \in Letters
    <3>1. e # n
      BY <1>5, <2>1
    <3> QED BY <1>1, <1>6, <3>1 DEF WalkedTo
  <2>3. PICK m \in Name : m = << c >>
    <3>1. << >> \in Seq(Letters) /\ Append(<< >>, c) = << c >>
      BY EmptySeq
    <3> QED BY <2>2, <3>1, LettersText
  <2>4. m \in Text /\ Len(m) = 1
    BY <2>3, LettersText DEF Name
  <2>5. PICK fs \in Seq(Text) : fs = Append(es, e)
    BY AppendProperties
  <2>6. Entries(v) = Append(fs, m)
    BY <1>4, <2>1, <2>3, <2>5, AddCharacterTo
  <2>7. /\ NamesOf(fs) \in Seq(Name)
        /\ LoopAgrees(abs, fs, Len(rel)) /\ LoopWithin(abs, fs, Len(rel))
    BY <1>1, <1>7, <2>5, WalkedEntry
  <2>8. WalkedTo(abs, v, fs, m, m, Len(rel))
    BY <1>3, <2>4, <2>6, <2>7 DEF WalkedTo
  <2> QED BY <1>2, <1>3, <2>4, <2>8 DEF Walked
<1>8. CASE e = n
  <2>1. PICK m \in Text : m = Append(n, c) /\ Len(m) = Len(e) + 1
    BY <1>5, <1>8, TextAppend
  <2>2. Entries(v) = Append(es, m)
    BY <1>4, <1>5, <1>8, <2>1, AddCharacterTo
  <2>3. Len(v) = q + Len(m)
    BY <1>3, <2>1
  <2>4. CASE c \in Letters
    <3>1. m \in Name
      BY <1>5, <2>1, <2>4, LettersText
    <3>2. WalkedTo(abs, v, es, m, m, q)
      BY <1>1, <2>2, <2>3 DEF WalkedTo
    <3> QED BY <1>2, <3>1, <3>2 DEF Walked
  <2>5. CASE c = Slash
    <3>1. EndsInDelimiter(v)
      BY <1>2, <2>5, TextAppend
    <3>2. WalkedTo(abs, v, es, n, m, q)
      BY <1>1, <2>1, <2>2, <2>3, <2>5, <3>1 DEF WalkedTo
    <3> QED BY <1>2, <3>2 DEF Walked
  <2> QED BY <2>4, <2>5 DEF Letters
<1> QED BY <1>1, <1>7, <1>8 DEF WalkedTo

\* The loop of SimplifyPath agrees with the walk.
LEMMA WalkedAlong ==
  ASSUME NEW abs \in Places, Named(abs), NEW rel \in Text, Plain(rel), ~IsAbsolutePath(rel)
  PROVE  /\ AddEntries(abs, Entries(rel)) \in Sims
         /\ Names(rel) \in Seq(Name)
         /\ Walk(Names(abs), Names(rel)) \in Ways
         /\ Agree(AddEntries(abs, Entries(rel)), Walk(Names(abs), Names(rel)),
                  Len(abs) + 1 + Len(rel))
<1> DEFINE Inv == {t \in Text : Plain(t) /\ ~IsAbsolutePath(t) => t = << >> \/ Walked(abs, t)}
<1>1. << >> \in Inv
  BY SlashChar
<1>2. ASSUME NEW s \in Seq(Characters), NEW c \in Characters, s \in Inv
      PROVE  Append(s, c) \in Inv
  <2>1. s \in Text
    BY DEF Text
  <2>2. PICK t \in Text : t = Append(s, c)
    BY <2>1, TextAppend
  <2> SUFFICES ASSUME Plain(t), ~IsAbsolutePath(t) PROVE Walked(abs, t)
    BY <2>2
  <2>3. CASE s = << >>
    <3>1. t = << c >> /\ Len(t) = 1 /\ t[1] = c
      BY <2>2, <2>3
    <3>2. c \in Letters
      BY <3>1, HeadOf DEF Letters
    <3> QED BY <3>1, <3>2, WalkedFirst
  <2>4. CASE s # << >>
    <3>1. ~IsAbsolutePath(s)
      <4>1. Len(s) > 0 /\ 1 \in 1 .. Len(s) /\ t[1] = s[1] /\ Len(t) = Len(s) + 1
        BY <2>1, <2>2, <2>4, TextOf, TextAppend
      <4> QED BY <2>1, <4>1, HeadOf
    <3>2. Plain(s)
      BY <2>1, <2>2, PlainAppend
    <3>3. Walked(abs, s)
      BY <1>2, <2>4, <3>1, <3>2
    <3> HIDE DEF Inv
    <3> QED BY <2>1, <2>2, <3>3, WalkedAppend
  <2> QED BY <2>3, <2>4
<1>3. Text \subseteq Inv
  <2> HIDE DEF Inv
  <2> QED BY <1>1, <1>2, Appends DEF Text
<1>4. Names(abs) \in Seq(Name) /\ Names(abs) \in Ways /\ Len(abs) \in Nat /\ Len(rel) \in Nat
  BY TextOf DEF Named, Ways, Places
<1>5. CASE rel = << >>
  <2>1. PICK none \in Seq(Text) : none = << >> /\ none = Entries(rel)
    BY <1>5, EmptySeq, EntriesOf
  <2>2. Names(rel) = << >> /\ Names(rel) \in Seq(Name)
    BY <2>1, NamesAre, EmptySeq
  <2>3. AddEntries(abs, none) = Success(abs) /\ Success(abs) \in Sims
    BY <2>1, AddEntriesOf
  <2>4. Walk(Names(abs), Names(rel)) = Names(abs)
    BY <1>4, <2>2, WalkOf
  <2>5. Success(abs).status = "success" /\ Success(abs).path = abs
    BY DEF Success
  <2>6. Agree(Success(abs), Names(abs), Len(abs) + 1 + Len(rel))
    BY <1>4, <2>5 DEF Agree, Named
  <2> QED BY <1>4, <2>1, <2>2, <2>3, <2>4, <2>6
<1>6. CASE rel # << >>
  <2>1. Walked(abs, rel)
    BY <1>3, <1>6
  <2>2. PICK es \in Seq(Text), n \in Name, e \in Text, q \in Nat :
          WalkedTo(abs, rel, es, n, e, q)
    BY <2>1 DEF Walked
  <2>3. PICK fs \in Seq(Text) : fs = Append(es, e) /\ fs = Entries(rel)
    BY <2>2, AppendProperties DEF WalkedTo
  <2>4. /\ NamesOf(fs) \in Seq(Name)
        /\ Agree(AddEntries(abs, fs), Walk(Names(abs), NamesOf(fs)), Len(abs) + 1 + Len(rel))
    <3>1. NamesOf(fs) \in Seq(Name) /\ LoopAgrees(abs, fs, Len(rel))
      <4>1. NamesOf(Append(es, e)) \in Seq(Name) /\ LoopAgrees(abs, Append(es, e), Len(rel))
        BY <2>2, WalkedEntry
      <4> QED BY <2>3, <4>1
    <3> QED BY <3>1 DEF LoopAgrees
  <2>5. Names(rel) = NamesOf(fs)
    BY <2>3, NamesAre
  <2>6. AddEntries(abs, fs) \in Sims
    BY AddEntriesOf
  <2>7. Walk(Names(abs), NamesOf(fs)) \in Ways
    BY <1>4, <2>4, WalkOf
  <2> QED BY <2>3, <2>4, <2>5, <2>6, <2>7
<1> QED BY <1>5, <1>6

\* Without a delimiter at its end the path is the path of the names.
LEMMA TrimmedAgrees ==
  ASSUME NEW sim \in Sims, NEW at, NEW most, Agree(sim, at, most)
  PROVE  /\ Trimmed(sim).status = sim.status
         /\ sim.status = "success" => Trimmed(sim).path = PathOf(at)
<1>1. CASE sim.status # "success"
  BY <1>1 DEF Trimmed
<1>2. CASE sim.status = "success"
  <2>1. PICK w \in Places : w = sim.path
    BY <1>2 DEF Sims, Success, Failure, Invalid
  <2>2. w \in Text /\ Len(w) \in Nat /\ Len(w) > 0 /\ w # << >>
    BY TextOf, HeadOf DEF Places
  <2>3. at \in Seq(Name)
    BY <1>2 DEF Agree
  <2>4. PICK j \in Text : j = Joined(at) /\ WithDelimiter(w) = Append(j, Slash)
    <3>1. Joined(at) \in Text /\ WithDelimiter(w) = Joined(at) \o << Slash >>
      BY <1>2, <2>1, <2>3, JoinedCases DEF Agree
    <3> QED BY <3>1, SlashEnds
  <2>5. j = << >> <=> at = << >>
    BY <2>3, <2>4, JoinedCases
  <2>6. Trimmed(sim) = IF Len(w) > 1 /\ EndsInDelimiter(w) THEN Success(Front(w)) ELSE sim
    BY <1>2, <2>1 DEF Trimmed
  <2>7. CASE EndsInDelimiter(w)
    <3>1. w = Append(j, Slash)
      BY <2>4, <2>7 DEF WithDelimiter
    <3>2. Front(w) = j /\ Len(w) = Len(j) + 1 /\ Len(j) \in Nat
      BY <3>1, SlashChar, TextAppend, TextOf
    <3>3. CASE at = << >>
      <4>1. j = << >> /\ w = << Slash >>
        BY <2>5, <3>1, <3>3
      <4>2. Len(w) = 1 /\ PathOf(at) = w
        BY <3>3, <4>1 DEF PathOf
      <4> QED BY <2>1, <2>6, <4>2
    <3>4. CASE at # << >>
      <4>1. Len(w) > 1
        BY <2>5, <3>2, <3>4, TextOf
      <4>2. PathOf(at) = j
        BY <2>4, <3>4 DEF PathOf
      <4> QED BY <1>2, <2>6, <2>7, <3>2, <4>1, <4>2 DEF Success
    <3> QED BY <3>3, <3>4
  <2>8. CASE ~EndsInDelimiter(w)
    <3>1. Append(w, Slash) = Append(j, Slash)
      BY <2>4, <2>8 DEF WithDelimiter
    <3>2. w = j
      BY <2>2, <3>1, SlashChar, AppendInjective DEF Text
    <3>3. PathOf(at) = j
      BY <2>2, <2>4, <2>5, <3>2 DEF PathOf
    <3> QED BY <2>1, <2>6, <2>8, <3>2, <3>3
  <2> QED BY <2>7, <2>8
<1> QED BY <1>1, <1>2

\* What SimplifyPath does, in names.
LEMMA SimplifyWalks ==
  ASSUME NEW abs \in Places, Named(abs), NEW rel \in Text, Plain(rel), IsRelativePath(rel)
  PROVE  LET simple == SimplifyPath(abs, rel)
             to == Walk(Names(abs), Names(rel))
         IN  /\ simple \in Sims
             /\ simple.status = "success" => to \in Seq(Name) /\ simple.path = PathOf(to)
             /\ simple.status = "failure" => to = NoWay
             /\ simple.status = "invalid" => Len(abs) + Len(rel) + 1 > MaxPath
<1> DEFINE simple == SimplifyPath(abs, rel)
           to == Walk(Names(abs), Names(rel))
<1>1. ~IsAbsolutePath(rel)
  BY DEF IsRelativePath, IsAbsolutePath
<1>2. PICK sim \in Sims : /\ sim = AddEntries(abs, Entries(rel))
                          /\ Agree(sim, to, Len(abs) + 1 + Len(rel))
  BY <1>1, WalkedAlong
<1>3. /\ abs \in Text /\ IsAbsolutePath(abs) /\ Len(abs) <= MaxPath
      /\ Len(abs) \in Nat /\ Len(rel) \in Nat /\ MaxPath \in Nat
  BY TextOf, PathAssumption DEF Places
<1>4. simple = Trimmed(sim)
  BY <1>1, <1>2, <1>3 DEF SimplifyPath
<1>5. simple \in Sims
  BY <1>4, TrimmedType
<1>6. /\ simple.status = sim.status
      /\ sim.status = "success" => simple.path = PathOf(to)
  BY <1>2, <1>4, TrimmedAgrees
<1>7. /\ sim.status = "success" => to \in Seq(Name)
      /\ sim.status = "failure" => to = NoWay
      /\ sim.status = "invalid" => Len(abs) + 1 + Len(rel) > MaxPath
  BY <1>2 DEF Agree
<1>8. Len(abs) + 1 + Len(rel) = Len(abs) + Len(rel) + 1
  BY <1>3
<1> HIDE DEF simple, to
<1> QED BY <1>5, <1>6, <1>7, <1>8 DEF simple, to

-----------------------------------------------------------------------------
(* The theorem of SimplifyPath                                             *)

PathNamed == Named(path)

\* The path of the application is that of its names, and follows the walks.
LEMMA PathNamedInvariant ==
  ASSUME PlainSteps
  PROVE  Spec => []PathNamed
<1>1. Init => PathNamed
  <2>1. << >> \in Seq(Name)
    BY EmptySeq
  <2>2. PathOf(<< >>) = << Slash >>
    BY DEF PathOf
  <2> QED BY <2>1, <2>2, PathOfNames DEF Init, PathNamed
<1>2. PathNamed /\ PathInv /\ [Next]_vars => PathNamed'
  <2> SUFFICES ASSUME PathNamed, PathInv, [Next]_vars PROVE PathNamed'
    OBVIOUS
  <2>1. ASSUME NEW arg \in Steps, Follow(arg) PROVE PathNamed'
    <3>1. arg \in Text /\ path \in Places /\ Named(path) /\ Plain(arg)
      BY StepText DEF PathInv, PathNamed, PlainSteps
    <3>2. CASE IsAbsolutePath(arg)
      <4>1. GetAbsolutePath(path, arg).path = arg
        BY <3>2 DEF GetAbsolutePath, Success
      <4>2. path' = arg
        BY <2>1, <4>1 DEF Follow
      <4>3. Named(arg)
        BY <3>1, <3>2, PlainNamed
      <4> QED BY <4>2, <4>3 DEF PathNamed
    <3>3. CASE ~IsAbsolutePath(arg)
      <4>1. GetAbsolutePath(path, arg) = SimplifyPath(path, arg) /\ IsRelativePath(arg)
        BY <3>3 DEF GetAbsolutePath, IsAbsolutePath, IsRelativePath
      <4>2. PICK to \in Seq(Name) : SimplifyPath(path, arg).path = PathOf(to)
        BY <2>1, <3>1, <4>1, SimplifyWalks DEF Follow
      <4>3. path' = PathOf(to)
        BY <2>1, <4>1, <4>2 DEF Follow
      <4>4. Named(PathOf(to))
        BY PathOfNames
      <4> QED BY <4>3, <4>4 DEF PathNamed
    <3> QED BY <3>2, <3>3
  <2>2. ASSUME path' = path PROVE PathNamed'
    BY <2>2 DEF PathNamed
  <2>3. (\E arg \in Steps : Follow(arg)) \/ path' = path
    BY DEF Next, vars, VMDirectoryOpen, VMDirectoryClose, VMDirectoryRead,
           VMDirectoryRewind, VMFileReadFind, VMFileRead, VMDirectoryChange
  <2> QED BY <2>1, <2>2, <2>3
<1> QED BY <1>1, <1>2, PathInvInvariant, PTL DEF Spec

\* Where arguments are without two delimiters in a row, SimplifyPath goes where
\* their names lead, and fails only above the root or for want of room.
THEOREM SimplifyFollowsNames ==
  ASSUME PlainSteps
  PROVE  Spec => []SimplifiesAsWalk
<1>1. PathInv /\ PathNamed => SimplifiesAsWalk
  <2> SUFFICES ASSUME PathInv, PathNamed, NEW arg \in Steps, IsRelativePath(arg)
               PROVE  LET simple == SimplifyPath(path, arg)
                          to == Walk(Names(path), Names(arg))
                      IN CASE simple.status = "success" -> to # NoWay /\ simple.path = PathOf(to)
                           [] simple.status = "failure" -> to = NoWay
                           [] OTHER -> Len(path) + Len(arg) + 1 > MaxPath
    BY DEF SimplifiesAsWalk
  <2>1. arg \in Text /\ path \in Places /\ Named(path) /\ Plain(arg)
    BY StepText DEF PathInv, PathNamed, PlainSteps
  <2> DEFINE simple == SimplifyPath(path, arg)
             to == Walk(Names(path), Names(arg))
  <2>2. /\ simple \in Sims
        /\ simple.status = "success" => to \in Seq(Name) /\ simple.path = PathOf(to)
        /\ simple.status = "failure" => to = NoWay
        /\ simple.status = "invalid" => Len(path) + Len(arg) + 1 > MaxPath
    BY <2>1, SimplifyWalks
  <2> HIDE DEF simple, to
  <2>3. simple.status \in {"success", "failure", "invalid"}
    BY <2>2 DEF Sims, Success, Failure, Invalid
  <2>4. (CASE simple.status = "success" -> to # NoWay /\ simple.path = PathOf(to)
           [] simple.status = "failure" -> to = NoWay
           [] OTHER -> Len(path) + Len(arg) + 1 > MaxPath)
    BY <2>2, <2>3, NoWayIsNone
  <2> QED BY <2>4 DEF simple, to
<1> QED BY <1>1, PathInvInvariant, PathNamedInvariant, PTL

-----------------------------------------------------------------------------
(* The file that VMFileOpen names                                          *)

\* The entry that a character begins or goes on with, and the name in it.
LEMMA OneLetter ==
  ASSUME NEW c \in Characters
  PROVE  /\ << c >> \in Text /\ << c >> # << >>
         /\ \E m \in Seq(Letters) : << c >> = m \/ << c >> = Append(m, Slash)
<1>1. PICK none \in Seq(Letters) : none = << >>
  BY EmptySeq
<1>2. Append(none, c) = << c >>
  BY <1>1
<1>3. << c >> \in Text /\ << c >> # << >>
  BY SlashChar, TextAppend
<1>4. CASE c \in Letters
  BY <1>2, <1>3, <1>4, LettersText DEF Name
<1>5. CASE c = Slash
  BY <1>2, <1>3, <1>5
<1> QED BY <1>3, <1>4, <1>5 DEF Letters

\* The names of a list of entries are texts.
LEMMA NamesOfType ==
  ASSUME NEW es \in Seq(Text)
  PROVE  NamesOf(es) \in Seq(Text)
<1> DEFINE Inv == {at \in Seq(Text) : NamesOf(at) \in Seq(Text)}
<1>1. << >> \in Inv
  BY EmptySeq, NamesAre
<1>2. ASSUME NEW at \in Seq(Text), NEW e \in Text, at \in Inv PROVE Append(at, e) \in Inv
  <2>1. PICK ns \in Seq(Text) : ns = NamesOf(at)
    BY <1>2
  <2>2. PICK b \in Text : b = Bare(e)
    BY BareType
  <2>3. Append(ns, b) \in Seq(Text) /\ Append(at, e) \in Seq(Text)
    BY AppendProperties
  <2>4. NamesOf(Append(at, e)) = IF b = << >> THEN ns ELSE Append(ns, b)
    BY <2>1, <2>2, NamesOfAppend
  <2> QED BY <2>3, <2>4
<1>3. Seq(Text) \subseteq Inv
  <2> HIDE DEF Inv
  <2> QED BY <1>1, <1>2, Appends
<1> QED BY <1>3

\* The entries of a text: the last of them has the name m, complete or not, or
\* none, and comes after entries with names.
EntriesTo(w, es, m, e) ==
  /\ Entries(w) = Append(es, e) /\ NamesOf(es) \in Seq(Name)
  /\ e = m \/ e = Append(m, Slash)
  /\ e # << >>

\* The names of the entries.
LEMMA EntriesToNames ==
  ASSUME NEW w \in Text, NEW es \in Seq(Text), NEW m \in Seq(Letters), NEW e \in Text,
         EntriesTo(w, es, m, e)
  PROVE  NamesOf(Append(es, e)) \in Seq(Name)
<1>1. Bare(e) = m
  BY BareOf DEF EntriesTo
<1>2. PICK ns \in Seq(Name) : ns = NamesOf(es)
  BY DEF EntriesTo
<1>3. m # << >> => Append(ns, m) \in Seq(Name)
  <2> SUFFICES ASSUME m # << >> PROVE Append(ns, m) \in Seq(Name)
    OBVIOUS
  <2>1. m \in Name
    BY DEF Name
  <2> QED BY <2>1, AppendProperties
<1>4. NamesOf(Append(es, e)) = IF m = << >> THEN ns ELSE Append(ns, m)
  BY <1>1, <1>2, NamesOfAppend
<1> QED BY <1>3, <1>4

\* One character more.
LEMMA EntriesToAppend ==
  ASSUME NEW w \in Text, NEW es \in Seq(Text), NEW m \in Seq(Letters), NEW e \in Text,
         EntriesTo(w, es, m, e), NEW c \in Characters
  PROVE  \E fs \in Seq(Text), l \in Seq(Letters), f \in Text :
           EntriesTo(Append(w, c), fs, l, f)
<1>1. Entries(Append(w, c)) = AddCharacter(Append(es, e), c)
  BY EntriesOf DEF EntriesTo
<1>2. CASE EndsInDelimiter(e)
  <2>1. PICK l \in Seq(Letters), f \in Text :
          f = << c >> /\ f # << >> /\ (f = l \/ f = Append(l, Slash))
    BY OneLetter
  <2>2. PICK fs \in Seq(Text) : fs = Append(es, e)
    BY AppendProperties
  <2>3. AddCharacter(Append(es, e), c) = Append(fs, f)
    BY <1>2, <2>1, <2>2, AddCharacterTo
  <2>4. NamesOf(fs) \in Seq(Name)
    BY <2>2, EntriesToNames
  <2> QED BY <1>1, <2>1, <2>3, <2>4 DEF EntriesTo
<1>3. CASE ~EndsInDelimiter(e)
  <2>1. e = m /\ m \in Text
    BY <1>3, LettersText DEF EntriesTo
  <2>2. PICK f \in Text : f = Append(m, c)
    BY <2>1, TextAppend
  <2>3. AddCharacter(Append(es, e), c) = Append(es, f)
    BY <1>3, <2>1, <2>2, AddCharacterTo DEF EntriesTo
  <2>4. c \in Letters => f \in Seq(Letters)
    BY <2>2, LettersText DEF Name
  <2>5. \E l \in Seq(Letters) : f = l \/ f = Append(l, Slash)
    BY <2>2, <2>4 DEF Letters
  <2>6. NamesOf(es) \in Seq(Name) /\ f # << >>
    BY <2>1, <2>2, TextAppend DEF EntriesTo
  <2> QED BY <1>1, <2>3, <2>5, <2>6 DEF EntriesTo
<1> QED BY <1>2, <1>3

\* The names of a text are names: they have no delimiters.
LEMMA NamesType ==
  ASSUME NEW w \in Text
  PROVE  Names(w) \in Seq(Name)
<1> DEFINE Good(t) == \E es \in Seq(Text), m \in Seq(Letters), e \in Text :
                        EntriesTo(t, es, m, e)
           Inv == {t \in Text : t = << >> \/ Good(t)}
<1>1. << >> \in Inv
  BY SlashChar
<1>2. ASSUME NEW s \in Seq(Characters), NEW c \in Characters, s \in Inv
      PROVE  Append(s, c) \in Inv
  <2>1. s \in Text
    BY DEF Text
  <2>2. PICK t \in Text : t = Append(s, c)
    BY <2>1, TextAppend
  <2>3. CASE s = << >>
    <3>1. PICK m \in Seq(Letters), e \in Text :
            e = << c >> /\ e # << >> /\ (e = m \/ e = Append(m, Slash))
      BY OneLetter
    <3>2. PICK es \in Seq(Text) : es = << >>
      BY EmptySeq
    <3>3. Entries(t) = Append(es, e)
      <4>1. Entries(t) = AddCharacter(<< >>, c)
        BY <2>1, <2>2, <2>3, EntriesOf
      <4>2. AddCharacter(<< >>, c) = << e >>
        BY <3>1, <3>2, AddCharacterTo
      <4> QED BY <3>2, <4>1, <4>2
    <3>4. NamesOf(es) \in Seq(Name)
      BY <3>2, NamesAre, EmptySeq
    <3>5. EntriesTo(t, es, m, e)
      BY <3>1, <3>2, <3>3, <3>4 DEF EntriesTo
    <3> QED BY <2>2, <3>5
  <2>4. CASE Good(s)
    <3>1. PICK es \in Seq(Text), m \in Seq(Letters), e \in Text : EntriesTo(s, es, m, e)
      BY <2>4
    <3>2. Good(t)
      BY <2>1, <2>2, <3>1, EntriesToAppend
    <3> QED BY <2>2, <3>2
  <2> QED BY <1>2, <2>3, <2>4
<1>3. Text \subseteq Inv
  <2> HIDE DEF Inv
  <2> QED BY <1>1, <1>2, Appends DEF Text
<1>4. CASE w = << >>
  BY <1>4, SlashChar, EntriesOf, NamesAre, EmptySeq
<1>5. CASE Good(w)
  <2>1. PICK es \in Seq(Text), m \in Seq(Letters), e \in Text : EntriesTo(w, es, m, e)
    BY <1>5
  <2>2. Names(w) = NamesOf(Append(es, e))
    BY <2>1, NamesAre DEF EntriesTo
  <2> QED BY <2>1, <2>2, EntriesToNames
<1> QED BY <1>3, <1>4, <1>5

\* Three texts put together.
Associative(u, v, w) == (u \o v) \o w = u \o (v \o w)

LEMMA TextAssociative ==
  ASSUME NEW u \in Text, NEW v \in Text, NEW w \in Text
  PROVE  Associative(u, v, w)
BY ConcatAssociative DEF Associative, Text

\* A text of two characters.
LEMMA TwoCharacters ==
  ASSUME NEW a \in Characters, NEW b \in Characters
  PROVE  << a, b >> \in Text /\ Append(<< a >>, b) = << a, b >>
<1>1. PICK v \in Text : v = << a >> /\ Len(v) = 1 /\ v[1] = a
  BY SlashChar, TextAppend
<1>2. PICK t \in Text : t = Append(v, b)
  BY TextAppend
<1>3. Len(t) = 2 /\ t[1] = a /\ t[2] = b
  <2>1. Len(t) = Len(v) + 1 /\ t[Len(v) + 1] = b /\ \A i \in 1 .. Len(v) : t[i] = v[i]
    BY <1>2, TextAppend
  <2> QED BY <1>1, <2>1
<1>4. t = << a, b >>
  <2>1. PICK u : u = << a, b >>
    OBVIOUS
  <2>2. u \in Seq(Characters) /\ Len(u) = 2 /\ u[1] = a /\ u[2] = b
    BY <2>1
  <2>3. t \in Seq(Characters) /\ \A i \in 1 .. Len(t) : t[i] = u[i]
    BY <1>3, <2>2 DEF Text
  <2> QED BY <1>3, <2>1, <2>2, <2>3, SeqEqual
<1> QED BY <1>1, <1>2, <1>4

\* The entries that do not lead down.
Dots == {<< "." >>, << ".", Slash >>, << ".", "." >>, << ".", ".", Slash >>}

\* They are the entries with the names "." and "..".
LEMMA DotNames ==
  ASSUME NEW e \in Text, Bare(e) \notin {<< "." >>, << ".", "." >>}
  PROVE  e \notin Dots
<1>1. PICK none, u, d, us, ds : /\ none = << >>
                                /\ u = << "." >> /\ d = << ".", "." >>
                                /\ us = << ".", Slash >> /\ ds = << ".", ".", Slash >>
  OBVIOUS
<1>2. "." \in Letters
  BY PathAssumption DEF Letters, Slash
<1>3. /\ u = Append(none, ".") /\ d = Append(u, ".")
      /\ us = Append(u, Slash) /\ ds = Append(d, Slash)
  BY <1>1
<1>4. u \in Seq(Letters) /\ d \in Seq(Letters)
  <2>1. none \in Seq(Letters)
    BY <1>1, EmptySeq
  <2>2. u \in Seq(Letters)
    BY <2>1, <1>2, <1>3, AppendProperties
  <2> QED BY <2>2, <1>2, <1>3, AppendProperties
<1>5. Bare(u) = u /\ Bare(us) = u /\ Bare(d) = d /\ Bare(ds) = d
  BY <1>3, <1>4, BareOf
<1> QED BY <1>1, <1>5 DEF Dots

\* One name more.
LEMMA DownAppend ==
  ASSUME NEW es \in Seq(Text), NEW e \in Text, Down(NamesOf(Append(es, e)))
  PROVE  Down(NamesOf(es)) /\ e \notin Dots
<1>1. PICK ns \in Seq(Text), b \in Text : ns = NamesOf(es) /\ b = Bare(e)
  BY NamesOfType, BareType
<1>2. NamesOf(Append(es, e)) = IF b = << >> THEN ns ELSE Append(ns, b)
  BY <1>1, NamesOfAppend
<1>3. CASE b = << >>
  <2>1. b \notin {<< "." >>, << ".", "." >>}
    BY <1>3
  <2>2. e \notin Dots
    BY <1>1, <2>1, DotNames
  <2> QED BY <1>1, <1>2, <1>3, <2>2
<1>4. CASE b # << >>
  <2>1. PICK t \in Seq(Text) : t = Append(ns, b) /\ Down(t)
    BY <1>2, <1>4, AppendProperties
  <2>2. /\ DOMAIN ns = 1 .. Len(ns) /\ DOMAIN t = 1 .. Len(t) /\ Len(ns) \in Nat
        /\ Len(t) = Len(ns) + 1 /\ t[Len(ns) + 1] = b
        /\ \A i \in 1 .. Len(ns) : t[i] = ns[i]
    BY <2>1, SeqFacts, AppendProperties
  <2>3. Down(ns) /\ b \notin {<< "." >>, << ".", "." >>}
    BY <2>1, <2>2 DEF Down
  <2> QED BY <1>1, <2>3, DotNames
<1> QED BY <1>3, <1>4

\* An entry that leads down comes after the path.
LEMMA AddDown ==
  ASSUME NEW sim \in Sims, NEW e \in Text, e \notin Dots, AddEntry(sim, e).status = "success"
  PROVE  /\ sim.status = "success" /\ sim.path \in Text
         /\ AddEntry(sim, e) = Success(WithDelimiter(sim.path) \o e)
<1>1. PICK us, ds : /\ us = {<<".">>, <<".", Slash>>}
                    /\ ds = {<<".", ".">>, <<".", ".", Slash>>}
  OBVIOUS
<1>2. e \notin us /\ e \notin ds
  BY <1>1 DEF Dots
<1>3. AddEntry(sim, e) =
        IF sim.status # "success" \/ e \in us THEN sim
        ELSE IF e \in ds THEN Parent(sim.path)
        ELSE IF Fits(WithDelimiter(sim.path), e)
             THEN Success(WithDelimiter(sim.path) \o e)
        ELSE Invalid(WithDelimiter(sim.path))
  BY <1>1 DEF AddEntry
<1>4. sim.status = "success"
  BY <1>3
<1>5. sim.path \in Text
  BY <1>4 DEF Sims, Success, Failure, Invalid, Places
<1>6. AddEntry(sim, e) # Invalid(WithDelimiter(sim.path))
  BY DEF Invalid
<1> QED BY <1>2, <1>3, <1>4, <1>5, <1>6

\* Where SimplifyPath has come to in "./" followed by w, from cur: to the last
\* entry e, with what comes before it after the path.
Opened(cur, w, es, fs, e) ==
  /\ Entries(w) = Append(es, e) /\ Entries(<< ".", Slash >> \o w) = Append(fs, e)
  /\ e # << >>
  /\ Down(NamesOf(es)) /\ AddEntries(cur, fs).status = "success" =>
       \E u \in Text :
         /\ w = u \o e
         /\ WithDelimiter(AddEntries(cur, fs).path) = WithDelimiter(cur) \o u

\* The first character.
LEMMA OpenedFirst ==
  ASSUME NEW cur \in Places, NEW c \in Characters
  PROVE  \E es \in Seq(Text), fs \in Seq(Text), e \in Text : Opened(cur, << c >>, es, fs, e)
<1>1. PICK es \in Seq(Text) : es = << >>
  BY EmptySeq
<1>2. PICK e \in Text : e = << c >> /\ e # << >>
  BY OneLetter
<1>3. Entries(e) = Append(es, e)
  <2>1. Entries(Append(<< >>, c)) = AddCharacter(<< >>, c)
    BY SlashChar, EntriesOf
  <2>2. AddCharacter(<< >>, c) = << e >>
    BY <1>1, <1>2, AddCharacterTo
  <2>3. Append(<< >>, c) = e
    BY <1>2
  <2> QED BY <1>1, <2>1, <2>2, <2>3
<1>4. PICK u \in Text, us \in Text : /\ u = << "." >> /\ us = << ".", Slash >>
                                     /\ us = Append(u, Slash) /\ ~EndsInDelimiter(u)
  <2>1. PICK none, u, us : none = << >> /\ u = << "." >> /\ us = << ".", Slash >>
    OBVIOUS
  <2>2. u = Append(none, ".") /\ us = Append(u, Slash)
    BY <2>1
  <2>3. "." \in Characters /\ Slash \in Characters /\ "." # Slash
    BY PathAssumption DEF Slash
  <2>4. u \in Text /\ ~EndsInDelimiter(u)
    <3>1. none \in Text
      BY <2>1, SlashChar
    <3> QED BY <2>2, <2>3, <3>1, TextAppend
  <2>5. us \in Text
    BY <2>2, <2>3, <2>4, TextAppend
  <2> QED BY <2>1, <2>2, <2>4, <2>5
<1>5. PICK fs \in Seq(Text) : fs = Append(es, us)
  BY AppendProperties
<1>6. Entries(us) = fs
  <2>1. Entries(u) = Append(es, u)
    <3>1. "." \in Characters
      BY PathAssumption
    <3>2. Entries(Append(<< >>, ".")) = AddCharacter(<< >>, ".")
      BY <3>1, SlashChar, EntriesOf
    <3>3. AddCharacter(<< >>, ".") = << u >>
      BY <1>1, <1>4, <3>1, AddCharacterTo
    <3>4. Append(<< >>, ".") = u
      BY <1>4
    <3> QED BY <1>1, <3>2, <3>3, <3>4
  <2>2. Entries(us) = AddCharacter(Append(es, u), Slash)
    BY <1>4, <2>1, SlashChar, EntriesOf
  <2>3. AddCharacter(Append(es, u), Slash) = Append(es, Append(u, Slash))
    BY <1>4, SlashChar, AddCharacterTo
  <2> QED BY <1>4, <1>5, <2>2, <2>3
<1>7. EndsInDelimiter(us)
  BY <1>4, SlashChar, TextAppend
<1>8. Entries(us \o e) = Append(fs, e)
  <2>1. Append(us, c) = us \o e
    BY <1>2, TextAppend
  <2>2. Entries(Append(us, c)) = AddCharacter(Append(es, us), c)
    BY <1>5, <1>6, EntriesOf
  <2>3. AddCharacter(Append(es, us), c) = Append(Append(es, us), e)
    BY <1>2, <1>7, AddCharacterTo
  <2> QED BY <1>5, <2>1, <2>2, <2>3
<1>9. AddEntries(cur, fs) = Success(cur)
  <2>1. PICK b \in Sims : b = Success(cur)
    BY DEF Sims
  <2>2. AddEntries(cur, fs) = AddEntry(b, us)
    BY <1>1, <1>5, <2>1, AddEntriesOf
  <2>3. AddEntry(b, us) = b
    BY <1>4 DEF AddEntry
  <2> QED BY <2>1, <2>2, <2>3
<1>10. PICK x \in Text : x = WithDelimiter(cur)
  BY SlashChar, TextAppend DEF WithDelimiter, Places
<1>11. PICK none \in Text : none = << >> /\ e = none \o e /\ x = x \o none
  BY SlashChar, ConcatEmptySeq DEF Text
<1>12. WithDelimiter(AddEntries(cur, fs).path) = WithDelimiter(cur) \o none
  BY <1>9, <1>10, <1>11 DEF Success
<1> QED BY <1>2, <1>3, <1>4, <1>8, <1>11, <1>12 DEF Opened

\* One character more.
LEMMA OpenedAppend ==
  ASSUME NEW cur \in Places, NEW w \in Text, NEW es \in Seq(Text), NEW fs \in Seq(Text),
         NEW e \in Text, Opened(cur, w, es, fs, e), NEW c \in Characters
  PROVE  \E gs \in Seq(Text), hs \in Seq(Text), f \in Text :
           Opened(cur, Append(w, c), gs, hs, f)
<1>1. PICK v \in Text, x \in Text : /\ v = Append(w, c) /\ x = << ".", Slash >> \o w
                                    /\ Append(x, c) = << ".", Slash >> \o v
  <2>1. << ".", Slash >> \in Text
    BY SlashChar, PathAssumption, TwoCharacters
  <2>2. PICK us \in Text : us = << ".", Slash >>
    BY <2>1
  <2>3. PICK x \in Text : x = us \o w
    BY Glue
  <2>4. PICK v \in Text : v = Append(w, c)
    BY TextAppend
  <2>5. Append(x, c) = us \o v
    BY <2>3, <2>4, ConcatAppend
  <2> QED BY <2>2, <2>3, <2>4, <2>5
<1>2. /\ Entries(w) = Append(es, e) /\ Entries(x) = Append(fs, e) /\ e # << >>
      /\ Down(NamesOf(es)) /\ AddEntries(cur, fs).status = "success" =>
           \E u \in Text :
             /\ w = u \o e
             /\ WithDelimiter(AddEntries(cur, fs).path) = WithDelimiter(cur) \o u
  BY <1>1 DEF Opened
<1>3. /\ Entries(v) = AddCharacter(Append(es, e), c)
      /\ Entries(Append(x, c)) = AddCharacter(Append(fs, e), c)
  BY <1>1, <1>2, EntriesOf
<1>4. CASE EndsInDelimiter(e)
  <2>1. PICK gs \in Seq(Text), hs \in Seq(Text), f \in Text :
          gs = Append(es, e) /\ hs = Append(fs, e) /\ f = << c >>
    BY AppendProperties, OneLetter
  <2>2. /\ Entries(v) = Append(gs, f) /\ Entries(Append(x, c)) = Append(hs, f)
        /\ f # << >>
    BY <1>3, <1>4, <2>1, AddCharacterTo
  <2>3. ASSUME Down(NamesOf(gs)), AddEntries(cur, hs).status = "success"
        PROVE  /\ v = w \o f
               /\ WithDelimiter(AddEntries(cur, hs).path) = WithDelimiter(cur) \o w
    <3>1. Down(NamesOf(es)) /\ e \notin Dots
      BY <2>1, <2>3, DownAppend
    <3>2. PICK sim \in Sims : sim = AddEntries(cur, fs)
      BY AddEntriesOf
    <3>3. AddEntries(cur, hs) = AddEntry(sim, e)
      BY <2>1, <3>2, AddEntriesOf
    <3>4. /\ sim.status = "success" /\ sim.path \in Text
          /\ AddEntry(sim, e) = Success(WithDelimiter(sim.path) \o e)
      BY <2>3, <3>1, <3>3, AddDown
    <3>5. PICK u \in Text : w = u \o e /\ WithDelimiter(sim.path) = WithDelimiter(cur) \o u
      BY <1>2, <3>1, <3>2, <3>4
    <3>6. PICK a \in Text : a = WithDelimiter(cur)
      BY SlashChar, TextAppend DEF WithDelimiter, Places
    <3>7. (a \o u) \o e = a \o w
      <4>1. Associative(a, u, e)
        BY TextAssociative
      <4> QED BY <3>5, <4>1 DEF Associative
    <3>8. AddEntries(cur, hs).path = a \o w
      <4>1. AddEntry(sim, e) = Success(a \o w)
        BY <3>4, <3>5, <3>6, <3>7
      <4> QED BY <3>3, <4>1 DEF Success
    <3>9. EndsInDelimiter(a \o w)
      <4>1. a \o u \in Text /\ (a \o u) \o e = a \o w
        BY <3>7, Glue
      <4> QED BY <1>2, <1>4, <4>1, ConcatEnds
    <3>10. WithDelimiter(a \o w) = a \o w
      BY <3>9 DEF WithDelimiter
    <3>11. v = w \o f
      BY <1>1, <2>1, TextAppend
    <3> QED BY <3>6, <3>8, <3>10, <3>11
  <2>4. Opened(cur, v, gs, hs, f)
    BY <1>1, <2>1, <2>2, <2>3 DEF Opened
  <2> QED BY <1>1, <2>4
<1>5. CASE ~EndsInDelimiter(e)
  <2>1. PICK f \in Text : f = Append(e, c)
    BY TextAppend
  <2>2. f # << >>
    BY <2>1, TextAppend
  <2>3. Entries(v) = Append(es, f) /\ Entries(Append(x, c)) = Append(fs, f)
    BY <1>2, <1>3, <1>5, <2>1, AddCharacterTo
  <2>4. ASSUME NEW u \in Text, w = u \o e PROVE v = u \o f
    BY <1>1, <2>1, <2>4, ConcatAppend
  <2>5. Opened(cur, v, es, fs, f)
    BY <1>1, <1>2, <2>2, <2>3, <2>4 DEF Opened
  <2> QED BY <1>1, <2>5
<1> QED BY <1>4, <1>5

\* SimplifyPath comes to the end of every name.
LEMMA OpenedAlong ==
  ASSUME NEW cur \in Places, NEW name \in Text, name # << >>
  PROVE  \E es \in Seq(Text), fs \in Seq(Text), e \in Text : Opened(cur, name, es, fs, e)
<1> DEFINE Good(t) == \E es \in Seq(Text), fs \in Seq(Text), e \in Text :
                        Opened(cur, t, es, fs, e)
           Inv == {t \in Text : t = << >> \/ Good(t)}
<1>1. << >> \in Inv
  BY SlashChar
<1>2. ASSUME NEW s \in Seq(Characters), NEW c \in Characters, s \in Inv
      PROVE  Append(s, c) \in Inv
  <2>1. s \in Text
    BY DEF Text
  <2>2. PICK t \in Text : t = Append(s, c)
    BY <2>1, TextAppend
  <2>3. CASE s = << >>
    <3>1. t = << c >>
      BY <2>2, <2>3
    <3>2. Good(t)
      BY <3>1, OpenedFirst
    <3> QED BY <2>2, <3>2
  <2>4. CASE Good(s)
    <3>1. PICK es \in Seq(Text), fs \in Seq(Text), e \in Text : Opened(cur, s, es, fs, e)
      BY <2>4
    <3>2. Good(t)
      BY <2>1, <2>2, <3>1, OpenedAppend
    <3> QED BY <2>2, <3>2
  <2> QED BY <1>2, <2>3, <2>4
<1>3. Text \subseteq Inv
  <2> HIDE DEF Inv
  <2> QED BY <1>1, <1>2, Appends DEF Text
<1> QED BY <1>3

\* From cur, "./" followed by a way down is the file below cur, and found there.
LEMMA OpenedIsFound ==
  ASSUME NEW cur \in Text,
         NEW name \in Text, name # << >>, ~EndsInDelimiter(name), Down(Names(name)),
         GetAbsolutePath(cur, << ".", Slash >> \o name).status = "success"
  PROVE  GetAbsolutePath(cur, << ".", Slash >> \o name).path = WithDelimiter(cur) \o name
<1>1. PICK rel \in Text : rel = << ".", Slash >> \o name /\ ~IsAbsolutePath(rel)
  <2>1. PICK us \in Text : us = << ".", Slash >> /\ Len(us) = 2 /\ us[1] = "."
    BY SlashChar, PathAssumption, TwoCharacters
  <2>2. us \o name \in Text /\ (us \o name)[1] = "."
    BY <2>1, Glue
  <2> QED BY <2>1, <2>2, HeadOf DEF Slash
<1>2. PICK full : full = GetAbsolutePath(cur, rel)
  OBVIOUS
<1>3. full.status = "success" /\ full = SimplifyPath(cur, rel)
  BY <1>1, <1>2 DEF GetAbsolutePath
<1>4. cur \in Places
  <2>1. IsAbsolutePath(cur) /\ ~(Len(cur) > MaxPath)
    BY <1>3 DEF SimplifyPath, Invalid
  <2> QED BY <2>1, TextOf, PathAssumption DEF Places
<1>5. PICK es \in Seq(Text), fs \in Seq(Text), e \in Text : Opened(cur, name, es, fs, e)
  BY <1>4, OpenedAlong
<1>6. /\ Entries(name) = Append(es, e) /\ Entries(rel) = Append(fs, e) /\ e # << >>
      /\ Down(NamesOf(es)) /\ AddEntries(cur, fs).status = "success" =>
           \E u \in Text :
             /\ name = u \o e
             /\ WithDelimiter(AddEntries(cur, fs).path) = WithDelimiter(cur) \o u
  BY <1>1, <1>5 DEF Opened
<1>7. Down(NamesOf(es)) /\ e \notin Dots
  BY <1>6, NamesAre, DownAppend
<1>8. PICK sim \in Sims : sim = AddEntries(cur, fs)
  BY <1>4, AddEntriesOf
<1>9. PICK end \in Sims : end = AddEntry(sim, e) /\ end = AddEntries(cur, Append(fs, e))
  <2>1. Append(fs, e) \in Seq(Text)
    BY AppendProperties
  <2> QED BY <1>4, <1>8, <2>1, AddEntriesOf
<1>10. full = Trimmed(end)
  <2>1. AddEntries(cur, Entries(rel)) = end
    BY <1>6, <1>9
  <2>2. IsAbsolutePath(cur) /\ ~(Len(cur) > MaxPath)
    BY <1>3 DEF SimplifyPath, Invalid
  <2>3. SimplifyPath(cur, rel) = Trimmed(AddEntries(cur, Entries(rel)))
    BY <1>1, <2>2 DEF SimplifyPath
  <2> QED BY <1>3, <2>1, <2>3
<1>11. end.status = "success"
  BY <1>3, <1>10 DEF Trimmed
<1>12. /\ sim.status = "success" /\ sim.path \in Text
       /\ end = Success(WithDelimiter(sim.path) \o e)
  BY <1>7, <1>9, <1>11, AddDown
<1>13. PICK u \in Text : name = u \o e /\ WithDelimiter(sim.path) = WithDelimiter(cur) \o u
  BY <1>6, <1>7, <1>8, <1>12
<1>14. PICK a \in Text : a = WithDelimiter(cur)
  BY SlashChar, TextAppend DEF WithDelimiter
<1>15. (a \o u) \o e = a \o name
  <2>1. Associative(a, u, e)
    BY TextAssociative
  <2> QED BY <1>13, <2>1 DEF Associative
<1>16. PICK p \in Text : p = a \o name /\ ~EndsInDelimiter(p)
  BY Glue, ConcatEnds
<1>17. end = Success(p)
  BY <1>12, <1>13, <1>14, <1>15, <1>16
<1>18. full = Success(p)
  BY <1>10, <1>16, <1>17 DEF Trimmed, Success
<1>19. full.path = p
  BY <1>18 DEF Success
<1> QED BY <1>1, <1>2, <1>14, <1>16, <1>19

\* A canonical path has a delimiter at its end only at the root.
LEMMA CanonicalEnd ==
  ASSUME NEW cur \in Text, Canonical(cur)
  PROVE  WithDelimiter(cur) = IF cur = << Slash >> THEN cur ELSE Append(cur, Slash)
<1>1. PICK at \in Seq(Name) : cur = PathOf(at)
  BY NamesType DEF Canonical
<1>2. EndsInDelimiter(cur) => cur = << Slash >>
  BY <1>1, JoinedCases DEF PathOf
<1>3. EndsInDelimiter(<< Slash >>)
  BY DEF EndsInDelimiter, Last
<1> QED BY <1>2, <1>3 DEF WithDelimiter

\* A file named by a way down is opened where the path function that VMFileOpen
\* does without would find it from a canonical working directory.
THEOREM OpensWhatIsFound ==
  ASSUME FilesBelow
  PROVE  Spec => []OpensInCurrent
<1>1. CurrentInv => OpensInCurrent
  <2> SUFFICES ASSUME curPath \in Text, NEW name \in FileNames, Canonical(curPath),
                      GetAbsolutePath(curPath, << ".", Slash >> \o name).status = "success"
               PROVE  OpenName(curPath, name)
                        = Blankless(GetAbsolutePath(curPath, << ".", Slash >> \o name).path)
    BY DEF CurrentInv, OpensInCurrent
  <2>1. name \in Text
    BY VolumeAssumption DEF Text
  <2>2. name # << >> /\ ~EndsInDelimiter(name) /\ Down(Names(name))
    BY DEF FilesBelow
  <2>3. GetAbsolutePath(curPath, << ".", Slash >> \o name).path
          = (IF curPath = << Slash >> THEN curPath ELSE Append(curPath, Slash)) \o name
    BY <2>1, <2>2, OpenedIsFound, CanonicalEnd
  <2> QED BY <2>3 DEF OpenName
<1> QED BY <1>1, CurrentText, PTL
==============================================================================
