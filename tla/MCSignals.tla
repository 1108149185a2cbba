------------------------------ MODULE MCSignals ------------------------------
(***************************************************************************)
(* Instances of Signals for TLC: main, idle and one more thread.           *)
(***************************************************************************)
EXTENDS Signals

MCPriority == {VM_THREAD_PRIORITY_NORMAL}

\* Every function.
AllCalls == {"VMThreadID", "VMThreadState", "VMThreadActivate", "VMThreadSleep",
             "VMThreadTerminate", "VMThreadCreate", "VMMutexAcquire",
             "VMMutexRelease", "VMFileOpen", "VMFileRead", "VMFileWrite"}

\* Enough to wait for a reply with the signal of replies blocked.
FewCalls == {"VMThreadCreate", "VMThreadActivate", "VMThreadSleep", "VMFileOpen"}

RECURSIVE Total(_, _)
Total(f, S) ==
  IF S = {} THEN 0
  ELSE LET x == CHOOSE y \in S : TRUE IN f[x] + Total(f, S \ {x})

\* Three calls in all: two threads in functions and a handler, or a function
\* and two handlers, one in the other.
FewFrames == Total([t \in Thread |-> Len(stack[t])], Thread) <= 3

\* One request at a time, and not while the mutex is in use.
FewRequests ==
  /\ Total(asked, Thread) + Len(replies) <= 1
  /\ \/ \A m \in Mutex : vm.owner[m] = NULL /\ vm.QTex[m] = << >>
     \/ Total(asked, Thread) + Len(replies) = 0 /\ ~pending

\* While the mutex is in use no call is a transfer or a creation.
FewUsers ==
  (\E m \in Mutex : vm.owner[m] # NULL \/ vm.QTex[m] # << >>) =>
    \A t \in Thread : \A i \in DOMAIN stack[t] :
      stack[t][i].kind \notin {"alloc", "write", "read", "create"}

\* A read, which the signals interrupt as they do a write, and one other call.
Reading == \E t \in Thread : \E i \in DOMAIN stack[t] : stack[t][i].kind = "read"
FewReads == Reading => Total([t \in Thread |-> Len(stack[t])], Thread) <= 2

\* Two entries in a ready queue, which may be of one thread; one waiter.
ShortQueues == /\ \A p \in Priority : Len(vm.readyQ[p]) <= 2
               /\ \A m \in Mutex : Len(vm.QTex[m]) <= 1

\* States after the first race or leak are checked, but not continued.
Undisturbed == ~raced /\ ~leaked
=============================================================================
