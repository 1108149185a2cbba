------------------------------- MODULE Arena -------------------------------
(***************************************************************************)
(* What memory pools promise: a pool gives out ranges of its own memory    *)
(* that do not meet, and takes each back once.  extent[i] is the memory of *)
(* pool i, NULL when there is no such pool; used[i] is the set of ranges   *)
(* it has given out.  A pool appears and disappears with none.             *)
(***************************************************************************)
EXTENDS Integers

CONSTANTS Pool, NULL

VARIABLES extent, used

vars == <<extent, used>>

\* A range of memory: its first address and its length.
Block == [start : Nat, size : Nat]

Within(r, e) == e.start <= r.start /\ r.start + r.size <= e.start + e.size

Apart(r, q) == r.start + r.size <= q.start \/ q.start + q.size <= r.start

SafelyUsed(i) ==
  /\ extent[i] = NULL => used[i] = {}
  /\ \A r \in used[i] : Within(r, extent[i])
  /\ \A r, q \in used[i] : r # q => Apart(r, q)

Init ==
  /\ extent \in [Pool -> Block \cup {NULL}]
  /\ used \in [Pool -> SUBSET Block]
  /\ \A i \in Pool : SafelyUsed(i)

Create(i) ==
  /\ extent[i] = NULL
  /\ extent'[i] \in Block
  /\ extent' = [extent EXCEPT ![i] = extent'[i]]
  /\ UNCHANGED used

Delete(i) ==
  /\ extent[i] # NULL
  /\ used[i] = {}
  /\ extent' = [extent EXCEPT ![i] = NULL]
  /\ UNCHANGED used

Allocate(i) ==
  /\ extent[i] # NULL
  /\ \E r \in used'[i] \ used[i] :
       /\ r \in Block
       /\ r.size > 0
       /\ Within(r, extent[i])
       /\ \A q \in used[i] : Apart(r, q)
       /\ used' = [used EXCEPT ![i] = @ \cup {r}]
  /\ UNCHANGED extent

Deallocate(i) ==
  /\ \E r \in used[i] : used' = [used EXCEPT ![i] = @ \ {r}]
  /\ UNCHANGED extent

Next == \E i \in Pool : Create(i) \/ Delete(i) \/ Allocate(i) \/ Deallocate(i)

Spec == Init /\ [][Next]_vars
=============================================================================
