---------------------------- MODULE MCMemoryPool ----------------------------
(***************************************************************************)
(* MemoryPool for TLC: a heap of HeapSize bytes and, right after it, a     *)
(* shared pool of SharedSize bytes.                                        *)
(***************************************************************************)
EXTENDS MemoryPool

CONSTANTS HeapSize, SharedSize

MCHeap   == [start |-> 1, size |-> HeapSize]
MCShared == [start |-> 1 + HeapSize, size |-> SharedSize]
=============================================================================
