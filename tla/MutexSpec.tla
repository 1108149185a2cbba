----------------------------- MODULE MutexSpec -----------------------------
(***************************************************************************)
(* What the mutexes of the virtual machine promise: each is a lock with a  *)
(* first-come first-served queue.  A free lock is taken; a busy one is     *)
(* waited for at the end of the queue; a release gives the lock to the     *)
(* head of the queue or frees it; waiters leave the queue when they time   *)
(* out.  Only the timer (time-outs of several threads) and the termination *)
(* of a thread (release of several locks) change more than one lock.       *)
(***************************************************************************)
EXTENDS Sequences, Naturals

CONSTANTS Thread, Mutex, NULL

VARIABLES owner, queue

vars == <<owner, queue>>

Init ==
  /\ owner = [m \in Mutex |-> NULL]
  /\ queue = [m \in Mutex |-> << >>]

Keep(m) == owner'[m] = owner[m] /\ queue'[m] = queue[m]

Take(m) ==
  /\ owner[m] = NULL
  /\ queue[m] = << >>
  /\ owner'[m] \in Thread
  /\ queue'[m] = << >>

Enqueue(m) ==
  /\ owner[m] # NULL
  /\ owner'[m] = owner[m]
  /\ \E t \in Thread : /\ \A i \in DOMAIN queue[m] : queue[m][i] # t
                       /\ queue'[m] = Append(queue[m], t)

Free(m) ==
  /\ queue[m] = << >>
  /\ owner'[m] = NULL
  /\ queue'[m] = << >>

HandOver(m) ==
  /\ queue[m] # << >>
  /\ owner'[m] = Head(queue[m])
  /\ queue'[m] = Tail(queue[m])

Release(m) == owner[m] # NULL /\ (Free(m) \/ HandOver(m))

\* r is what is left of q when some elements go: the others keep their order.
Thinned(q, r) ==
  \E at \in [DOMAIN r -> DOMAIN q] :
    \A i, j \in DOMAIN r : r[i] = q[at[i]] /\ (i < j => at[i] < at[j])

Withdraw(m) == owner'[m] = owner[m] /\ Thinned(queue[m], queue'[m])

OneLock == \E m \in Mutex : /\ Take(m) \/ Enqueue(m) \/ Release(m)
                            /\ \A n \in Mutex \ {m} : Keep(n)

TimeOuts == \A m \in Mutex : Withdraw(m)

\* All releases of a termination are of locks of one thread.
Termination ==
  \E t \in Thread : \A m \in Mutex : \/ Keep(m)
                                     \/ owner[m] = t /\ Release(m)

Next == OneLock \/ TimeOuts \/ Termination

Spec == Init /\ [][Next]_vars
=============================================================================
