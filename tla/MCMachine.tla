----------------------------- MODULE MCMachine -----------------------------
(***************************************************************************)
(* Machine for TLC.  When MaxRequests < Modulus, at most MaxRequests file   *)
(* requests are made; otherwise there is no bound and identifiers wrap.    *)
(***************************************************************************)
EXTENDS Machine, TLC

CONSTANTS MaxRequests, Terminates

MCNext ==
  \/ (requestID < MaxRequests /\ \E c \in Client, class \in Class : MachineFile(c, class))
  \/ Terminates /\ MachineTerminate
  \/ KillChild \/ WaitReturns \/ ParentDies
  \/ ReplySignal \/ Receive \/ HandlerReturn
  \/ Child \/ Stopped

MCSpec == Init /\ [][MCNext]_vars

MCFairSpec == MCSpec /\ Fairness

Symmetry == Permutations(Client) \cup Permutations(FD)
=============================================================================
