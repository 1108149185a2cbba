----------------------------- MODULE MCFileIO ------------------------------
(***************************************************************************)
(* FileIO for TLC.  No thread makes a call while a ready queue holds more  *)
(* than QueueBound entries, and no file call while RequestBound requests   *)
(* are outstanding.                                                        *)
(***************************************************************************)
EXTENDS FileIO, TLC

CONSTANTS QueueBound, RequestBound

Bounded == \A p \in Priority : Len(vm.readyQ[p]) <= QueueBound
FewRequests ==
  Len(asked["now"]) + Len(asked["read"]) + Len(answers) < RequestBound

MCFileNext ==
  \/ \E t \in Thread :
       \/ handler[t] = NULL /\ Bounded /\ FewRequests /\ FileCall(t)
       \/ handler[t] = NULL /\ Bounded /\ OtherCall(t)
       \/ handler[t] = NULL /\ FileStep(t)
       \/ ReplySignal(t) \/ Callback(t)
  \/ TimerISR /\ UNCHANGED fileVars
  \/ MachineAnswers
  \/ Halted /\ UNCHANGED fileVars

MCFileSpec == FileInit /\ [][MCFileNext]_allVars

MCFileFairSpec == MCFileSpec /\ FileFairness

Symmetry == Permutations(AppThread) \cup Permutations(Mutex) \cup Permutations(Buffer)
=============================================================================
