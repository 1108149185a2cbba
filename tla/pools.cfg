\* Allocation in nested pools.
SPECIFICATION Spec
CONSTANTS
  Align = 4
  Modulus = 64
  HeapSize = 22
  SharedSize = 8
  Heap <- MCHeap
  Shared <- MCShared
  StackSize = 3
  Request = {0, 1, 4, 7, 9}
  MaxPools = 4
  NULL = NULL
INVARIANTS
  TypeOK
  BlocksInOrder
  ClaimsHold
  MatchesReference
PROPERTIES
  ImplementsArena
