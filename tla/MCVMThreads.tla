---------------------------- MODULE MCVMThreads ----------------------------
(***************************************************************************)
(* VMThreads for TLC.  A thread that is awakened twice stays twice in its  *)
(* ready queue (see SleepsItsTicks), and the duplicates can accumulate:    *)
(* no thread makes a call while a ready queue holds more than QueueBound   *)
(* entries.  The timer is not bounded.                                     *)
(***************************************************************************)
EXTENDS VMThreads, TLC

CONSTANT QueueBound

Bounded == \A p \in Priority : Len(vm.readyQ[p]) <= QueueBound

MCNext ==
  \/ Bounded /\ \E t \in Thread : ThreadCall(t) \/ MutexCall(t)
  \/ TimerISR
  \/ Halted

MCSpec == Init /\ [][MCNext]_vars

MCFairSpec == MCSpec /\ WF_vars(TimerISR)

Symmetry == Permutations(AppThread) \cup Permutations(Mutex)
=============================================================================
