------------------------------ MODULE FATData ------------------------------
(***************************************************************************)
(* The reader of FAT images, FATData.cpp.  An image is its root directory, *)
(* a sequence of raw entries, and its table, from clusters to the next     *)
(* one, Free or a value from ChainEnd on.  A byte of the data area is      *)
(* named by its offset from dataStart.                                     *)
(*                                                                         *)
(* A raw entry has the kind its first byte gives it - "used", "free"       *)
(* (0x00) or "deleted" (0xE5) -, whether its attributes say long name, a   *)
(* name, a size and its first cluster.                                     *)
(***************************************************************************)
EXTENDS Integers, SequencesExt, FiniteSetsExt, Vectors

CONSTANTS
  ClusterSize,  \* bytesPerSector * sectorsPerCluster
  ChainEnd,     \* 0xfff8
  SizeModulus   \* 2^32: the bound of a read is an unsigned product

ASSUME FATAssumption ==
  /\ ClusterSize \in Nat \ {0} /\ ChainEnd \in Nat \ {0}
  /\ SizeModulus \in Nat \ {0}

Free == 0

-----------------------------------------------------------------------------
(* The code                                                                *)

\* addRootEntry() of every raw entry.  A deleted entry is taken too: 0xE5 is
\* compared, as a signed character, with an unsigned byte it never equals.
Listed(entry) == entry.kind # "free" /\ ~entry.long

RootEnts(image) == Only(image.root, {e \in ToSet(image.root) : Listed(e)})

\* The first entry of the name, 0 when there is none.
EntryOf(image, name) ==
  SelectInSeq(RootEnts(image), LAMBDA e : e.name = name)

\* The first n bytes of a cluster.  The data of cluster n is looked for n
\* clusters after dataStart.
ClusterBytes(cluster, n) == [i \in 1 .. n |-> cluster * ClusterSize + i - 1]

NoRead == [ok |-> FALSE, bytes |-> <<>>]

\* Mutant: the loop stays on the first cluster.
SameCluster(fat, cluster) == cluster
NextCluster(fat, cluster) == fat[cluster]

\* One round of the loop of readFromFile(): `left` is lenleft, `end` whether
\* and how the loop is left.
ReadCluster(fat, r) ==
  LET next == fat[r.cluster]
      whole == [r EXCEPT !.bytes = @ \o ClusterBytes(r.cluster, ClusterSize)]
  IN CASE r.end # "no" -> r
       [] r.end = "no" /\ r.left < ClusterSize ->
            [r EXCEPT !.bytes = @ \o ClusterBytes(r.cluster, r.left),
                      !.end = "read"]
       [] r.end = "no" /\ r.left >= ClusterSize /\ next = Free ->
            [r EXCEPT !.end = "failed"]
       [] r.end = "no" /\ r.left >= ClusterSize /\ next # Free /\ next >= ChainEnd ->
            [whole EXCEPT !.end = "read"]
       [] OTHER -> [whole EXCEPT !.cluster = NextCluster(fat, r.cluster),
                                 !.left = r.left - ClusterSize]

\* The loop.  A round that does not leave it takes a cluster off lenleft.
ReadLoop(fat, start, length) ==
  LET last == (length \div ClusterSize) + 1
      read[n \in 0 .. last] ==
        IF n = 0 THEN [cluster |-> start, left |-> length, bytes |-> <<>>, end |-> "no"]
        ELSE ReadCluster(fat, read[n - 1])
  IN IF read[last].end = "read" THEN [ok |-> TRUE, bytes |-> read[last].bytes]
     ELSE NoRead

readFromFile(image, name, length) ==
  LET k == EntryOf(image, name)
      entry == RootEnts(image)[k]
      left == Min({(entry.size * ClusterSize) % SizeModulus, length})
  IN IF k = 0 THEN NoRead ELSE ReadLoop(image.fat, entry.start, left)

-----------------------------------------------------------------------------
(* The reference                                                           *)

NoCluster == -1

\* An image the reader is made for: its files and chains do not leave the
\* table, which the code does not look at, and no size in bytes wraps.
WellFormed(image) ==
  LET Clusters == DOMAIN image.fat
  IN /\ Clusters \subseteq Nat /\ image.fat \in [Clusters -> Nat]
     /\ \A c \in Clusters :
          image.fat[c] \in Clusters \cup {Free} \/ image.fat[c] >= ChainEnd
     /\ \A e \in ToSet(image.root) :
          Listed(e) => /\ e.size \in Nat /\ e.size * ClusterSize < SizeModulus
                       /\ e.start \in Clusters

\* The cluster after one of the chain, NoCluster after its end.
Following(fat, cluster) ==
  IF cluster = NoCluster THEN NoCluster
  ELSE IF fat[cluster] = Free \/ fat[cluster] >= ChainEnd THEN NoCluster
  ELSE fat[cluster]

\* The j-th cluster of the chain from a cluster.
Chain(fat, start, j) ==
  LET nth[i \in 0 .. j - 1] ==
        IF i = 0 THEN start ELSE Following(fat, nth[i - 1])
  IN nth[j - 1]

\* The offset of the k-th byte of a file, by the rule of the specification of
\* FAT: the first cluster of the data area is number 2.
FileByte(image, entry, k) ==
  LET cluster == Chain(image.fat, entry.start, (k - 1) \div ClusterSize + 1)
  IN (cluster - 2) * ClusterSize + ((k - 1) % ClusterSize)
=============================================================================
