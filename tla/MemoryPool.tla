----------------------------- MODULE MemoryPool -----------------------------
(***************************************************************************)
(* The memory pools: MPCB.cpp and the VMMemoryPool functions of            *)
(* VirtualMachine.cpp.  A pool keeps its allocated blocks in a vector in   *)
(* the order of their addresses and allocates first fit.  Pool 0 is the    *)
(* heap of the machine, pool 1 the memory shared with the machine's I/O    *)
(* process; applications create more pools, in memory they got from a pool *)
(* (apps/memory.c).                                                        *)
(*                                                                         *)
(* Every function runs with the signals suspended and does not call        *)
(* scheduler(): each is one action.                                        *)
(***************************************************************************)
EXTENDS Integers, Sequences, FiniteSets

CONSTANTS
  Align,      \* the granularity of VMMemoryPoolAllocate, 0x40 in the code
  Modulus,    \* 2^32: TVMMemorySize is an unsigned int
  Heap,       \* the first pool: [start |-> , size |-> ]
  Shared,     \* the second pool
  StackSize,  \* the size of the stack of idle
  Request,    \* the sizes the applications ask for
  MaxPools,   \* a bound on the number of pools ever created
  NULL

Pool == 0 .. MaxPools - 1
HeapID == 0
SharedID == 1

ASSUME PoolAssumption ==
  /\ Align \in Nat \ {0} /\ Modulus \in Nat /\ Align < Modulus
  /\ MaxPools \in Nat /\ MaxPools >= 2
  /\ Heap \in [start : Nat \ {0}, size : Nat]
  /\ Shared \in [start : Nat \ {0}, size : Nat]
  /\ Heap.start + Heap.size <= Shared.start
  /\ Shared.start + Shared.size < Modulus
  /\ StackSize \in Nat \ {0} /\ StackSize + Align <= Heap.size
  /\ Request \subseteq 0 .. Modulus - 1
  /\ NULL \notin [start : Nat, size : Nat]
  /\ NULL \notin [start : Nat, size : Nat,
                  allocated : Seq([start : Nat, size : Nat])]

VARIABLES
  pools,   \* the pool of each identifier, NULL when it is not in the vector
  idInc,   \* MPCB::idInc, the next identifier
  claims   \* what the applications hold: the memory each successful call of
           \* VMMemoryPoolAllocate promised, and the pool made in it if any

vars == <<pools, idInc, claims>>

\* What a range is used for, when no pool was made in it: the data of an
\* application, or the stack of a thread, which nothing ever gives back.
Data  == -1
Stack == -2

-----------------------------------------------------------------------------
(* MPCB                                                                    *)

\* (size+0x3F)&(~0x3F), in unsigned arithmetic.
RoundUp(size) ==
  LET sum == (size + Align - 1) % Modulus IN sum - (sum % Align)

End(b) == b.start + b.size

\* The free space before the k-th block, or after the last one when
\* k = Len(p.allocated) + 1: where it starts, and how long it is.
Candidate(p, k) == IF k = 1 THEN p.start ELSE End(p.allocated[k - 1])

Limit(p, k) == IF k = Len(p.allocated) + 1 THEN End(p)
               ELSE p.allocated[k].start

Gap(p, k) == (Limit(p, k) - Candidate(p, k)) % Modulus

\* Mutant of Fits: a gap one byte too short is good enough.
FitsNearly(p, size) ==
  {k \in 1 .. Len(p.allocated) + 1 : size <= Gap(p, k) + 1}

Fits(p, size) == {k \in 1 .. Len(p.allocated) + 1 : size <= Gap(p, k)}

Least(S) == CHOOSE k \in S : \A j \in S : k <= j

\* Mutant of FirstFit: the last space that fits.
LastFit(p, size) == CHOOSE k \in Fits(p, size) : \A j \in Fits(p, size) : j <= k

FirstFit(p, size) == Least(Fits(p, size))

\* Mutant of InsertBlock: push_back instead of insert.
PushBlock(p, k, size) ==
  [p EXCEPT !.allocated =
     Append(@, [start |-> Candidate(p, k), size |-> size])]

\* vector::insert before the k-th block.
InsertBlock(p, k, size) ==
  [p EXCEPT !.allocated =
     [j \in 1 .. Len(@) + 1 |->
        IF j < k THEN @[j]
        ELSE IF j = k THEN [start |-> Candidate(p, k), size |-> size]
        ELSE @[j - 1]]]

\* The first block at an address, and vector::erase.
At(p, address) ==
  {k \in 1 .. Len(p.allocated) : p.allocated[k].start = address}

EraseBlock(p, k) ==
  [p EXCEPT !.allocated =
     [j \in 1 .. Len(@) - 1 |-> IF j < k THEN @[j] ELSE @[j + 1]]]

CountFree(p) ==
  LET sum[k \in 0 .. Len(p.allocated)] ==
        IF k = 0 THEN 0 ELSE sum[k - 1] + p.allocated[k].size
  IN  p.size - sum[Len(p.allocated)]

\* Mutant of FullyFree.
FullyFreeSoon(p) == Len(p.allocated) <= 1

FullyFree(p) == p.allocated = << >>

-----------------------------------------------------------------------------
(* The VMMemoryPool functions                                              *)

\* VMStart: the heap with the stack of idle in it, then the shared memory.
Init ==
  /\ pools = [i \in Pool |->
       IF i = HeapID
       THEN InsertBlock([start |-> Heap.start, size |-> Heap.size,
                         allocated |-> << >>], 1, RoundUp(StackSize))
       ELSE IF i = SharedID
       THEN [start |-> Shared.start, size |-> Shared.size, allocated |-> << >>]
       ELSE NULL]
  /\ idInc = 2
  /\ claims = {[pool |-> HeapID, start |-> Heap.start, size |-> StackSize,
                use |-> Stack]}

Live(i) == pools[i] # NULL

Allocate(i, size) ==
  /\ Live(i)
  /\ size # 0
  /\ Fits(pools[i], RoundUp(size)) # {}
  /\ LET k == FirstFit(pools[i], RoundUp(size)) IN
       /\ pools' = [pools EXCEPT ![i] = InsertBlock(@, k, RoundUp(size))]
       /\ claims' = claims \cup
            {[pool |-> i, start |-> Candidate(pools[i], k), size |-> size,
              use |-> Data]}
  /\ UNCHANGED idInc

\* An application gives back a range it holds and has made no pool in.
Deallocate(c) ==
  /\ c.use = Data
  /\ Live(c.pool)
  /\ At(pools[c.pool], c.start) # {}
  /\ pools' = [pools EXCEPT ![c.pool] =
                 EraseBlock(@, Least(At(@, c.start)))]
  /\ claims' = claims \ {c}
  /\ UNCHANGED idInc

\* Mutant of Create: the identifier is not incremented.
CreateSameID(c) ==
  /\ c.use = Data
  /\ pools' = [pools EXCEPT ![idInc] =
                 [start |-> c.start, size |-> c.size, allocated |-> << >>]]
  /\ claims' = (claims \ {c}) \cup {[c EXCEPT !.use = idInc]}
  /\ UNCHANGED idInc

\* VMMemoryPoolCreate in a range the application holds.
Create(c) ==
  /\ c.use = Data
  /\ idInc < MaxPools
  /\ pools' = [pools EXCEPT ![idInc] =
                 [start |-> c.start, size |-> c.size, allocated |-> << >>]]
  /\ claims' = (claims \ {c}) \cup {[c EXCEPT !.use = idInc]}
  /\ idInc' = idInc + 1

\* The range a deleted pool was made in is data again.
Reclaimed(i, c) == IF c.use = i THEN [c EXCEPT !.use = Data] ELSE c

\* Applications do not know the identifier of the shared pool.
Delete(i) ==
  /\ i # SharedID
  /\ Live(i)
  /\ FullyFree(pools[i])
  /\ pools' = [pools EXCEPT ![i] = NULL]
  /\ claims' = {Reclaimed(i, c) : c \in claims}
  /\ UNCHANGED idInc

Next ==
  \/ \E i \in Pool, size \in Request : Allocate(i, size)
  \/ \E c \in claims : Deallocate(c) \/ Create(c)
  \/ \E i \in Pool : Delete(i)

Spec == Init /\ [][Next]_vars

-----------------------------------------------------------------------------
Block == [start : Nat, size : Nat]

\* The variables have their types, and no pool has an identifier that idInc
\* has not reached.
TypeOK ==
  /\ pools \in [Pool -> [start : Nat, size : Nat, allocated : Seq(Block)]
                          \cup {NULL}]
  /\ idInc \in 2 .. MaxPools
  /\ \A i \in idInc .. MaxPools - 1 : pools[i] = NULL
  /\ \A c \in claims : c \in [pool : Pool, start : Nat, size : Nat,
                              use : Pool \cup {Data, Stack}]

\* The vector of a pool is in the order of the addresses, its blocks do not
\* meet and lie in the pool: what the single pass of MPCB::allocate, which
\* looks only at the space before each block, takes for granted.
InOrder(p) ==
  /\ \A k \in 1 .. Len(p.allocated) :
       /\ p.start <= p.allocated[k].start
       /\ End(p.allocated[k]) <= End(p)
  /\ \A j, k \in 1 .. Len(p.allocated) :
       j < k => End(p.allocated[j]) <= p.allocated[k].start

BlocksInOrder == \A i \in Pool : Live(i) => InOrder(pools[i])

\* Memory an application uses as data is nobody else's, neither in its own
\* pool nor in a pool made inside or outside of it; and so are the stacks.
Apart(c, d) == End(c) <= d.start \/ End(d) <= c.start

ClaimsApart ==
  \A c, d \in claims :
    c # d /\ c.use \in {Data, Stack} /\ d.use \in {Data, Stack} => Apart(c, d)

\* A range an application holds is still allocated, all of it, in the pool it
\* came from: no deallocation and no deletion of a pool took it away.
ClaimsBacked ==
  \A c \in claims :
    /\ Live(c.pool)
    /\ \E k \in At(pools[c.pool], c.start) :
         c.size <= pools[c.pool].allocated[k].size

\* What an application holds is its own and stays so, however pools are nested
\* and deleted.
ClaimsHold == ClaimsApart /\ ClaimsBacked

\* The reference for allocate(): the lowest address at which a range of that
\* size fits between the blocks, and failure exactly when there is none.
Free(p, a, size) ==
  /\ p.start <= a /\ a + size <= End(p)
  /\ \A k \in 1 .. Len(p.allocated) :
       \/ a + size <= p.allocated[k].start
       \/ End(p.allocated[k]) <= a

Addresses(p) == p.start .. End(p)

AllocatesFirstFit ==
  \A i \in Pool, size \in {RoundUp(n) : n \in Request \ {0}} :
    Live(i) =>
      LET p     == pools[i]
          Spots == {a \in Addresses(p) : Free(p, a, size)}
      IN  IF Fits(p, size) = {} THEN Spots = {}
          ELSE /\ Spots # {}
               /\ Candidate(p, FirstFit(p, size)) = Least(Spots)

\* VMMemoryPoolQuery reports the number of bytes outside of the blocks.
CountsFreeBytes ==
  \A i \in Pool : Live(i) =>
    LET p == pools[i] IN
    CountFree(p) = Cardinality({a \in p.start .. End(p) - 1 : Free(p, a, 1)})

\* The two methods of MPCB that search and count do what the reference says.
MatchesReference == AllocatesFirstFit /\ CountsFreeBytes

\* The pools together implement an arena each.
Extent(p) == IF p = NULL THEN NULL ELSE [start |-> p.start, size |-> p.size]
Used(p) == IF p = NULL THEN {}
           ELSE {p.allocated[k] : k \in DOMAIN p.allocated}

Arenas == INSTANCE Arena
  WITH extent <- [i \in Pool |-> Extent(pools[i])],
       used   <- [i \in Pool |-> Used(pools[i])]

ImplementsArena == Arenas!Spec
=============================================================================
