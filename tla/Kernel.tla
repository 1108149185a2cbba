------------------------------- MODULE Kernel -------------------------------
(***************************************************************************)
(* The methods of Thread (Thread.cpp) and Mutex (Mutex.cpp) and the        *)
(* scheduler of VirtualMachine.cpp, as operators on the state of the       *)
(* virtual machine.  The state is one record s:                            *)
(*                                                                         *)
(*   threads, mutexes   the two registries (the vectors of VirtualMachine) *)
(*   freed              the objects that have been deleted                 *)
(*   id, state, prio, ticks, held, waiting     the fields of each Thread   *)
(*   owner, QTex                               the fields of each Mutex    *)
(*   readyQ             the four ready queues                              *)
(*   tr                 the running thread                                 *)
(*   nextID             the static counter Thread::nextID                  *)
(*   halt               "no" while the program is running, "undefined"     *)
(*                      after an undefined operation of C++ (a call on a   *)
(*                      deleted object, front() of an empty queue),        *)
(*                      "abort" after abort()                              *)
(*                                                                         *)
(* The code calls these methods one inside the other with the signals      *)
(* suspended, so a caller composes them on s: no step separates them.      *)
(***************************************************************************)
EXTENDS Integers, Sequences, FiniteSets

CONSTANTS
  AppThread,   \* the Thread objects that applications create
  Main,        \* the Thread object of VMMain
  Idle,        \* the Thread object of idle()
  Mutex,       \* the Mutex objects
  NULL         \* the null pointer

Thread == AppThread \cup {Main, Idle}

ASSUME ObjectAssumption ==
  /\ Main \notin AppThread
  /\ Idle \notin AppThread
  /\ Main # Idle
  /\ NULL \notin Thread \cup Mutex
  /\ Thread \cap Mutex = {}

-----------------------------------------------------------------------------
VM_THREAD_PRIORITY_NIL    == 0
VM_THREAD_PRIORITY_LOW    == 1
VM_THREAD_PRIORITY_NORMAL == 2
VM_THREAD_PRIORITY_HIGH   == 3
Priority == VM_THREAD_PRIORITY_NIL .. VM_THREAD_PRIORITY_HIGH

VM_TIMEOUT_INFINITE  == 0
VM_TIMEOUT_IMMEDIATE == -1

ThreadState == {"DEAD", "RUNNING", "READY", "WAITING"}

\* The type of the state.
VMState ==
  [threads : Seq(Thread),
   mutexes : SUBSET Mutex,
   freed   : SUBSET (Thread \cup Mutex),
   id      : [Thread -> Nat],
   state   : [Thread -> ThreadState],
   prio    : [Thread -> Priority],
   ticks   : [Thread -> Int],
   held    : [Thread -> Seq(Mutex)],
   waiting : [Thread -> Mutex \cup {NULL}],
   owner   : [Mutex -> Thread \cup {NULL}],
   QTex    : [Mutex -> Seq(Thread)],
   readyQ  : [Priority -> Seq(Thread)],
   tr      : Thread,
   nextID  : Nat,
   halt    : {"no", "undefined", "abort"}]

\* The objects in a queue or a vector.
Elems(q) == {q[i] : i \in DOMAIN q}

\* vector::erase of the k-th element.
Erase(q, k) == [j \in 1 .. Len(q) - 1 |-> IF j < k THEN q[j] ELSE q[j + 1]]

\* An undefined operation: nothing is known of what follows.
Undefined(s) == [s EXCEPT !.halt = "undefined"]

-----------------------------------------------------------------------------
(* Ready queues                                                            *)

\* Mutant of PushReady: the thread jumps its queue.
PushReadyFront(s, t) == [s EXCEPT !.readyQ[s.prio[t]] = <<t>> \o @]

PushReady(s, t) == [s EXCEPT !.readyQ[s.prio[t]] = Append(@, t)]

\* The loop that cycles a queue once to flush x from it.
Without(q, x) ==
  LET kept[i \in 0 .. Len(q)] ==
        IF i = 0 THEN << >>
        ELSE IF q[i] = x THEN kept[i - 1] ELSE Append(kept[i - 1], q[i])
  IN  kept[Len(q)]

StopWaiting(s, t) ==
  PushReady([s EXCEPT !.waiting[t] = NULL, !.state[t] = "READY"], t)

\* Mutant of Highest: the tests of scheduler() in the opposite order.
Lowest(s) == CHOOSE p \in Priority : /\ s.readyQ[p] # << >>
                                     /\ \A r \in Priority : s.readyQ[r] # << >> => p <= r

\* The highest priority that has a ready thread.
Highest(s) == CHOOSE p \in Priority : /\ s.readyQ[p] # << >>
                                      /\ \A r \in Priority : s.readyQ[r] # << >> => r <= p

\* Mutants of Requeue: the state is not updated; idle is not pushed.
RequeueOnly(s) ==
  IF s.state[s.tr] = "RUNNING" THEN PushReady(s, s.tr) ELSE s

RequeueNotIdle(s) ==
  IF s.state[s.tr] = "RUNNING" /\ s.prio[s.tr] # VM_THREAD_PRIORITY_NIL
  THEN PushReady([s EXCEPT !.state[s.tr] = "READY"], s.tr)
  ELSE s

\* The running thread goes back to its queue, unless it blocked or died, and
\* the head of the highest non-empty queue becomes the running thread.
Requeue(s) ==
  IF s.state[s.tr] = "RUNNING"
  THEN PushReady([s EXCEPT !.state[s.tr] = "READY"], s.tr)
  ELSE s

Dispatch(s, p) ==
  [s EXCEPT !.tr = Head(s.readyQ[p]),
            !.state[Head(s.readyQ[p])] = "RUNNING",
            !.readyQ[p] = Tail(@)]

Scheduler(s) ==
  LET r == Requeue(s)
  IN  IF \A p \in Priority : r.readyQ[p] = << >>
      THEN Undefined(r)
      ELSE Dispatch(r, Highest(r))

-----------------------------------------------------------------------------
(* Mutexes                                                                 *)

\* isInQueue compares thread identifiers, not objects.
IsInQueue(s, m, t) == \E u \in Elems(s.QTex[m]) : s.id[u] = s.id[t]

\* Mutant of Queues: only finite time-outs wait.
QueuesIfFinite(s, m, t, timeout) ==
  s.owner[m] # NULL /\ ~ IsInQueue(s, m, t) /\ timeout > VM_TIMEOUT_INFINITE

\* Mutex::acquire pushes the caller on QTex only in this case.
Queues(s, m, t, timeout) ==
  /\ s.owner[m] # NULL
  /\ ~ IsInQueue(s, m, t)
  /\ timeout # VM_TIMEOUT_IMMEDIATE

\* Thread::acquireMutex returns ACQUIRE_SUCCESS.
Acquires(s, t, m) == m \notin Elems(s.held[t]) /\ s.owner[m] = NULL

AcquireMutex(s, t, m, timeout) ==
  IF m \in Elems(s.held[t]) THEN [s EXCEPT !.waiting[t] = NULL]
  ELSE IF s.owner[m] = NULL
       THEN [s EXCEPT !.waiting[t] = NULL,
                      !.owner[m] = t,
                      !.held[t] = Append(@, m)]
  ELSE IF Elems(s.QTex[m]) \cap s.freed # {} THEN Undefined(s)
  ELSE IF Queues(s, m, t, timeout)
       THEN [s EXCEPT !.waiting[t] = m, !.QTex[m] = Append(@, t)]
  ELSE [s EXCEPT !.waiting[t] = m]

\* Mutant of HandOver: the new owner is not popped.
HandOverNoPop(s, m, t) == StopWaiting([s EXCEPT !.owner[m] = t], t)

\* Mutex::release hands the mutex to the longest waiting thread.
HandOver(s, m, t) ==
  StopWaiting([s EXCEPT !.owner[m] = t, !.QTex[m] = Tail(@)], t)

\* Mutant of Release: the head is awakened but does not get the mutex.
ReleaseToNobody(s, m) ==
  IF s.QTex[m] = << >> THEN [s EXCEPT !.owner[m] = NULL]
  ELSE StopWaiting([s EXCEPT !.owner[m] = NULL, !.QTex[m] = Tail(@)],
                   Head(s.QTex[m]))

Release(s, m) ==
  IF s.QTex[m] = << >> THEN [s EXCEPT !.owner[m] = NULL]
  ELSE IF Head(s.QTex[m]) \in s.freed THEN Undefined(s)
  ELSE HandOver(s, m, Head(s.QTex[m]))

\* Mutant of ReleaseMutex: heldMutex is not updated.
ReleaseMutexKeeps(s, t, m) == Release(s, m)

\* Mutex k of heldMutex is released, then erased from the vector.
ReleaseAt(s, t, k) ==
  [Release(s, s.held[t][k]) EXCEPT !.held[t] = Erase(@, k)]

\* Thread::releaseMutex releases the first match.
ReleaseMutex(s, t, m) ==
  ReleaseAt(s, t, CHOOSE k \in DOMAIN s.held[t] :
                    /\ s.held[t][k] = m
                    /\ \A j \in DOMAIN s.held[t] : s.held[t][j] = m => k <= j)

\* Thread::releaseAllMutex, from the mutex acquired last to the first.
ReleaseAllMutex(s, t) ==
  LET after[i \in 0 .. Len(s.held[t])] ==
        IF i = 0 THEN s
        ELSE ReleaseAt(after[i - 1], t, Len(after[i - 1].held[t]))
  IN  after[Len(s.held[t])]

-----------------------------------------------------------------------------
(* The timer                                                               *)

WaitTimeout(s, m, t) == StopWaiting([s EXCEPT !.QTex[m] = Without(@, t)], t)

\* Mutant of WakeUp: a thread that only slept is not pushed.
WakeUpNoPush(s, t) ==
  IF s.waiting[t] = NULL THEN [s EXCEPT !.state[t] = "READY"]
  ELSE WaitTimeout(s, s.waiting[t], t)

\* The part of Thread::decrementTicks under "no need to be asleep".
WakeUp(s, t) ==
  IF s.waiting[t] = NULL THEN PushReady([s EXCEPT !.state[t] = "READY"], t)
  ELSE IF s.waiting[t] \in s.freed THEN Undefined(s)
  ELSE PushReady(WaitTimeout(s, s.waiting[t], t), t)

\* Mutants of CountDown: no floor; a floor that skips zero.
CountDownNoFloor(n) == n - 1

CountDownSkipsZero(n) == IF n - 1 <= 0 THEN -5 ELSE n - 1

CountDown(n) == IF n - 1 < 0 THEN -5 ELSE n - 1

DecrementTicks(s, t) ==
  LET d == [s EXCEPT !.ticks[t] = CountDown(@)]
  IN  IF CountDown(s.ticks[t]) = 0 /\ s.state[t] = "WAITING"
      THEN WakeUp(d, t) ELSE d

\* The loop of timerISR over the threads vector.
TimerTick(s) ==
  LET after[i \in 0 .. Len(s.threads)] ==
        IF i = 0 THEN s ELSE DecrementTicks(after[i - 1], s.threads[i])
  IN  after[Len(s.threads)]

-----------------------------------------------------------------------------
(* The thread registry                                                     *)

\* The searches of VirtualMachine.cpp through threads keep the last match.
Find(s, i) ==
  LET Matches == {k \in DOMAIN s.threads : s.id[s.threads[k]] = i}
  IN  IF Matches = {} THEN NULL
      ELSE s.threads[CHOOSE k \in Matches : \A j \in Matches : j <= k]

\* Mutants of Terminate: the ready queue is not flushed; the mutexes are not
\* released.
TerminateNoFlush(s, t) == ReleaseAllMutex([s EXCEPT !.state[t] = "DEAD"], t)

TerminateNoRelease(s, t) ==
  [s EXCEPT !.state[t] = "DEAD", !.readyQ[s.prio[t]] = Without(@, t)]

\* VMThreadTerminate up to its call of scheduler().
Terminate(s, t) ==
  LET r == ReleaseAllMutex([s EXCEPT !.state[t] = "DEAD"], t)
  IN  [r EXCEPT !.readyQ[s.prio[t]] = Without(@, t)]

\* setTicks, setState: what precedes scheduler() in the calls that block.
Block(s, t, timeout) ==
  [s EXCEPT !.ticks[t] = timeout, !.state[t] = "WAITING"]

\* Mutant of Wait: the state is not updated.
WaitNot(s, t) == s

\* setState in the file functions: no tick count is set.
Wait(s, t) == [s EXCEPT !.state[t] = "WAITING"]
=============================================================================
