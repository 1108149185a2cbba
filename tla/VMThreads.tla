----------------------------- MODULE VMThreads -----------------------------
(***************************************************************************)
(* The thread and mutex API of the virtual machine (VirtualMachine.cpp),   *)
(* the timer interrupt and the applications that call the API.             *)
(*                                                                         *)
(* Every API function suspends the signals on entry, so it runs without    *)
(* interruption up to its return or to its call of scheduler(), which      *)
(* resumes the signals and switches contexts.  An action is such a run.    *)
(* What a function does after scheduler() is a later action of the thread  *)
(* that called it: pc says where its saved context will continue.          *)
(***************************************************************************)
EXTENDS Kernel

CONSTANTS
  MainCalls,    \* the API functions VMMain uses
  AppCalls,     \* the API functions the entry functions of threads use
  AppPriority,  \* the priorities given to VMThreadCreate
  SleepTicks,   \* the tick counts given to VMThreadSleep and VMMutexAcquire
  MainTicks     \* what the uninitialized ticks of the main thread may hold

Call == {"create", "activate", "terminate", "delete", "return", "sleep",
         "yield", "mutex_create", "mutex_delete", "acquire", "try_acquire",
         "release"}

ASSUME CallAssumption ==
  /\ MainCalls \subseteq Call
  /\ AppCalls \subseteq Call
  /\ AppPriority \subseteq Priority
  /\ SleepTicks \subseteq Nat \ {0}
  /\ MainTicks \subseteq Int

VARIABLES
  vm,      \* the state of the virtual machine, a record as in Kernel
  pc,      \* where the context of each thread continues
  frame    \* the locals of the API call each thread is in

vars == <<vm, pc, frame>>

\* "none" before the object is created, "app" in the application, "exit" in
\* skeleton() after VMThreadTerminate, the others inside an API function.
Location == {"none", "app", "sleep", "acquire", "alloc", "newid", "incid",
             "exit"}

\* mtx: the mutex VMMutexAcquire waits for.  id, next: what the constructor
\* of Thread has read from nextID so far.
EmptyFrame == [mtx |-> NULL, id |-> 0, next |-> 0]

-----------------------------------------------------------------------------
\* VMStart just before it calls VMMain: the main thread runs, idle is ready.
Init ==
  /\ \E n \in MainTicks :
       vm = [threads |-> <<Main, Idle>>,
             mutexes |-> {},
             freed   |-> {},
             id      |-> [t \in Thread |-> IF t = Idle THEN 1 ELSE 0],
             state   |-> [t \in Thread |-> CASE t = Main -> "RUNNING"
                                             [] t = Idle -> "READY"
                                             [] OTHER    -> "DEAD"],
             prio    |-> [t \in Thread |-> IF t = Main
                                           THEN VM_THREAD_PRIORITY_NORMAL
                                           ELSE VM_THREAD_PRIORITY_NIL],
             ticks   |-> [t \in Thread |-> IF t = Main THEN n ELSE -1],
             held    |-> [t \in Thread |-> << >>],
             waiting |-> [t \in Thread |-> NULL],
             owner   |-> [m \in Mutex |-> NULL],
             QTex    |-> [m \in Mutex |-> << >>],
             readyQ  |-> [p \in Priority |->
                            IF p = VM_THREAD_PRIORITY_NIL THEN <<Idle>>
                            ELSE << >>],
             tr      |-> Main,
             nextID  |-> 2,
             halt    |-> "no"]
  /\ pc = [t \in Thread |-> IF t \in {Main, Idle} THEN "app" ELSE "none"]
  /\ frame = [t \in Thread |-> EmptyFrame]

-----------------------------------------------------------------------------
\* Thread t executes at l.
At(t, l) == vm.halt = "no" /\ vm.tr = t /\ pc[t] = l

\* Thread t, which is not idle, calls an API function.
Calling(t, call) ==
  /\ \/ t = Main /\ call \in MainCalls
     \/ t \in AppThread /\ call \in AppCalls
  /\ At(t, "app")

\* An application names the threads it created, and the main thread, by the
\* identifiers it was given: never the idle thread.
Target(i) == IF Find(vm, i) = Idle THEN NULL ELSE Find(vm, i)
GivenID == {vm.id[t] : t \in Elems(vm.threads) \ {Idle}}

Unborn == {t \in AppThread : t \notin Elems(vm.threads) \cup vm.freed}

-----------------------------------------------------------------------------
(* VMThreadCreate                                                          *)

\* One round of the loop "try to allocate until it works": the allocation,
\* then scheduler(), which leaves the signals enabled for all that follows.
CreateAllocate(t) ==
  /\ Calling(t, "create")
  /\ Unborn # {}
  /\ vm' = Scheduler(vm)
  /\ pc' = [pc EXCEPT ![t] = "alloc"]
  /\ UNCHANGED frame

\* The local variable test is read before it is written: when it happens to
\* be VM_STATUS_SUCCESS the loop is skipped and the stack is a wild pointer.
CreateSkipsLoop(t) ==
  /\ Calling(t, "create")
  /\ vm' = Undefined(vm)
  /\ UNCHANGED <<pc, frame>>

CreateRetry(t) ==
  /\ At(t, "alloc")
  /\ vm' = Scheduler(vm)
  /\ UNCHANGED <<pc, frame>>

\* Thread::Thread: id = nextID; nextID++, with the signals enabled.
CreateReadID(t) ==
  /\ At(t, "alloc")
  /\ pc' = [pc EXCEPT ![t] = "newid"]
  /\ frame' = [frame EXCEPT ![t].id = vm.nextID]
  /\ UNCHANGED vm

CreateLoadNext(t) ==
  /\ At(t, "newid")
  /\ pc' = [pc EXCEPT ![t] = "incid"]
  /\ frame' = [frame EXCEPT ![t].next = vm.nextID + 1]
  /\ UNCHANGED vm

CreateStore(t) ==
  /\ At(t, "incid")
  /\ \E u \in Unborn, p \in AppPriority :
       /\ vm' = [vm EXCEPT !.nextID = frame[t].next,
                           !.threads = Append(@, u),
                           !.id[u] = frame[t].id,
                           !.state[u] = "DEAD",
                           !.prio[u] = p,
                           !.ticks[u] = -1,
                           !.held[u] = << >>,
                           !.waiting[u] = NULL]
       /\ pc' = [pc EXCEPT ![t] = "app", ![u] = "app"]
  /\ frame' = [frame EXCEPT ![t] = EmptyFrame]

-----------------------------------------------------------------------------
(* The other thread functions                                              *)

Activate(t) ==
  /\ Calling(t, "activate")
  /\ \E i \in GivenID :
       LET u == Target(i) IN
       /\ u # NULL
       /\ vm.state[u] = "DEAD"
       /\ vm' = PushReady([vm EXCEPT !.state[u] = "READY"], u)
  /\ UNCHANGED <<pc, frame>>

ThreadTerminate(t) ==
  /\ Calling(t, "terminate")
  /\ \E i \in GivenID :
       LET u == Target(i) IN
       /\ u # NULL
       /\ vm.state[u] # "DEAD"
       /\ vm' = Scheduler(Terminate(vm, u))
  /\ UNCHANGED <<pc, frame>>

\* The destructor deletes stackBase, which points into a memory pool and not
\* to an object of its own: undefined, and the program may survive it.
ThreadDelete(t) ==
  /\ Calling(t, "delete")
  /\ \E i \in GivenID :
       LET u == Target(i) IN
       /\ u # NULL
       /\ vm.state[u] = "DEAD"
       /\ vm' \in {[vm EXCEPT !.threads = Without(@, u), !.freed = @ \cup {u}],
                   Undefined(vm)}
  /\ UNCHANGED <<pc, frame>>

\* The entry function returns to skeleton(), which terminates the thread
\* with the identifier of tr.
EntryReturn(t) ==
  /\ Calling(t, "return")
  /\ t # Main
  /\ LET u == Target(vm.id[t]) IN
       vm' = IF u = NULL \/ vm.state[u] = "DEAD" THEN vm
             ELSE Scheduler(Terminate(vm, u))
  /\ pc' = [pc EXCEPT ![t] = "exit"]
  /\ UNCHANGED frame

\* skeleton() returns to MachineContextBoot, which calls abort().
BootReturn(t) ==
  /\ At(t, "exit")
  /\ vm' = [vm EXCEPT !.halt = "abort"]
  /\ UNCHANGED <<pc, frame>>

Sleep(t) ==
  /\ Calling(t, "sleep")
  /\ \E n \in SleepTicks : vm' = Scheduler(Block(vm, t, n))
  /\ pc' = [pc EXCEPT ![t] = "sleep"]
  /\ UNCHANGED frame

SleepReturn(t) ==
  /\ At(t, "sleep")
  /\ pc' = [pc EXCEPT ![t] = "app"]
  /\ UNCHANGED <<vm, frame>>

\* VMThreadSleep(VM_TIMEOUT_IMMEDIATE).
Yield(t) ==
  /\ Calling(t, "yield")
  /\ vm' = Scheduler(PushReady([vm EXCEPT !.state[t] = "READY"], t))
  /\ UNCHANGED <<pc, frame>>

-----------------------------------------------------------------------------
(* The mutex functions                                                     *)

MutexCreate(t) ==
  /\ Calling(t, "mutex_create")
  /\ \E m \in Mutex \ (vm.mutexes \cup vm.freed) :
       vm' = [vm EXCEPT !.mutexes = @ \cup {m},
                        !.owner[m] = NULL,
                        !.QTex[m] = << >>]
  /\ UNCHANGED <<pc, frame>>

TryAcquire(t) ==
  /\ Calling(t, "try_acquire")
  /\ \E m \in vm.mutexes : vm' = AcquireMutex(vm, t, m, VM_TIMEOUT_IMMEDIATE)
  /\ UNCHANGED <<pc, frame>>

\* VMMutexAcquire when acquireMutex succeeds at once.
AcquireFree(t) ==
  /\ Calling(t, "acquire")
  /\ \E m \in vm.mutexes, n \in SleepTicks \cup {VM_TIMEOUT_INFINITE} :
       /\ Acquires(vm, t, m)
       /\ vm' = AcquireMutex(vm, t, m, n)
  /\ UNCHANGED <<pc, frame>>

\* VMMutexAcquire when it does not: the caller blocks even if it was not
\* queued (ACQUIRE_UNNECESSARY).
AcquireBlock(t) ==
  /\ Calling(t, "acquire")
  /\ \E m \in vm.mutexes, n \in SleepTicks \cup {VM_TIMEOUT_INFINITE} :
       /\ ~ Acquires(vm, t, m)
       /\ vm' = Scheduler(Block(AcquireMutex(vm, t, m, n), t, n))
       /\ frame' = [frame EXCEPT ![t].mtx = m]
  /\ pc' = [pc EXCEPT ![t] = "acquire"]

\* The test of findMutex after scheduler(), and the return.
AcquireReturn(t) ==
  /\ At(t, "acquire")
  /\ pc' = [pc EXCEPT ![t] = "app"]
  /\ frame' = [frame EXCEPT ![t] = EmptyFrame]
  /\ UNCHANGED vm

MutexRelease(t) ==
  /\ Calling(t, "release")
  /\ \E m \in vm.mutexes \cap Elems(vm.held[t]) :
       vm' = Scheduler(ReleaseMutex(vm, t, m))
  /\ UNCHANGED <<pc, frame>>

MutexDelete(t) ==
  /\ Calling(t, "mutex_delete")
  /\ \E m \in vm.mutexes :
       /\ vm.owner[m] = NULL
       /\ vm' = [vm EXCEPT !.mutexes = @ \ {m}, !.freed = @ \cup {m}]
  /\ UNCHANGED <<pc, frame>>

\* With no mutex of that identifier the iterator compared with end() is
\* uninitialized: INVALID_ID by luck, or erase() of a wild iterator.
MutexDeleteUnknown(t) ==
  /\ Calling(t, "mutex_delete")
  /\ vm.freed \cap Mutex # {}
  /\ vm' = Undefined(vm)
  /\ UNCHANGED <<pc, frame>>

-----------------------------------------------------------------------------
(* The timer interrupt                                                     *)

TimerISR ==
  /\ vm.halt = "no"
  /\ \E ticked \in {TimerTick(vm)} : vm' = Scheduler(ticked)
  /\ UNCHANGED <<pc, frame>>

\* The program has stopped.
Halted == vm.halt # "no" /\ UNCHANGED vars

Create(t) ==
  \/ CreateAllocate(t) \/ CreateSkipsLoop(t) \/ CreateRetry(t)
  \/ CreateReadID(t) \/ CreateLoadNext(t) \/ CreateStore(t)

ThreadCall(t) ==
  \/ Create(t) \/ Activate(t) \/ ThreadTerminate(t) \/ ThreadDelete(t)
  \/ EntryReturn(t) \/ BootReturn(t)
  \/ Sleep(t) \/ SleepReturn(t) \/ Yield(t)

MutexCall(t) ==
  \/ MutexCreate(t) \/ TryAcquire(t) \/ AcquireFree(t) \/ AcquireBlock(t)
  \/ AcquireReturn(t) \/ MutexRelease(t)
  \/ MutexDelete(t) \/ MutexDeleteUnknown(t)

Next ==
  \/ \E t \in Thread : ThreadCall(t) \/ MutexCall(t)
  \/ TimerISR
  \/ Halted

Spec == Init /\ [][Next]_vars

\* The alarm is periodic (setitimer in MachineRequestAlarm).
FairSpec == Spec /\ WF_vars(TimerISR)

-----------------------------------------------------------------------------
(* Type invariant                                                          *)

\* The variables have their types, whatever the order of calls, interrupts
\* and undefined operations, and the tick counters, decremented at every
\* interrupt, do not run below -5.
TypeOK ==
  /\ vm \in VMState
  /\ pc \in [Thread -> Location]
  /\ frame \in [Thread -> [mtx : Mutex \cup {NULL}, id : Nat, next : Nat]]
  /\ \A t \in AppThread : vm.ticks[t] >= -5

-----------------------------------------------------------------------------
(* Safety of the scheduler                                                 *)

\* Between two steps exactly one thread is in state RUNNING, and it is tr:
\* every path that takes the processor from a thread gives it to another.
OneRunning ==
  vm.halt = "no" => \A t \in Thread : vm.state[t] = "RUNNING" <=> t = vm.tr

\* No ready thread is lost: whatever made it ready (activation, time-out,
\* hand-over of a mutex, preemption) also put it in the queue scheduler()
\* will look for it in.
ReadyIsQueued ==
  \A t \in Thread :
    vm.state[t] = "READY" => t \in Elems(vm.readyQ[vm.prio[t]])

\* What scheduler() may pop is a live thread of that queue's priority: no
\* terminated and no deleted thread is left in a ready queue.
QueuedIsRunnable ==
  \A p \in Priority : \A t \in Elems(vm.readyQ[p]) :
    /\ vm.prio[t] = p
    /\ vm.state[t] # "DEAD"
    /\ t \notin vm.freed

\* scheduler() never calls front() on an empty queue: when idle does not run
\* it is ready.
IdleAvailable ==
  vm.tr = Idle \/ Idle \in Elems(vm.readyQ[VM_THREAD_PRIORITY_NIL])

\* A context switch gives the processor to a thread no ready thread outranks.
SwitchesToHighest ==
  [][vm'.tr # vm.tr =>
       \A t \in Thread : vm'.state[t] = "READY"
                           => vm'.prio[t] <= vm'.prio[vm'.tr]]_vars

-----------------------------------------------------------------------------
(* Safety of the mutexes                                                   *)

\* Mutual exclusion: a mutex in a thread's heldMutex names that thread as its
\* owner, so it is in no other thread's, and it has not been deleted.
HeldByOwner ==
  \A t \in Thread : \A m \in Elems(vm.held[t]) :
    vm.owner[m] = t /\ m \in vm.mutexes

\* A free mutex has no waiters: release() hands over when QTex is not empty,
\* and no time-out, termination or late acquire() leaves a queue behind.
FreeHasNoWaiters ==
  \A m \in Mutex : vm.owner[m] = NULL => vm.QTex[m] = << >>

\* A thread waits at most once in a mutex's queue, and not for one it holds.
WaitsOnce ==
  \A m \in Mutex :
    /\ Cardinality(Elems(vm.QTex[m])) = Len(vm.QTex[m])
    /\ \A t \in Elems(vm.QTex[m]) : m \notin Elems(vm.held[t])

\* A thread that dies gives up every mutex of its heldMutex: each goes to its
\* longest waiter, or is free.  A mutex that was handed over to the thread is
\* not in its heldMutex, and nothing is said of it: it stays the dead thread's.
DeathReleases ==
  [][\A t \in Thread :
       /\ vm.state[t] # "DEAD"
       /\ vm'.state[t] = "DEAD"
       /\ vm'.halt = "no"
       => \A m \in Elems(vm.held[t]) :
            vm'.owner[m] = IF vm.QTex[m] = << >> THEN NULL
                           ELSE Head(vm.QTex[m])]_vars

\* A thread blocked in VMMutexAcquire is in the queue of its mutex, where
\* release() will find it (unless it asked for a mutex it already holds).
NoLostWaiter ==
  \A t \in Thread :
    /\ vm.halt = "no"
    /\ pc[t] = "acquire"
    /\ vm.state[t] = "WAITING"
    /\ frame[t].mtx \notin Elems(vm.held[t])
    => t \in Elems(vm.QTex[frame[t].mtx])

\* Whoever waits for a mutex is queued for it, once: the release that is to
\* wake it finds it, and no later one does.
WaitersQueued == WaitsOnce /\ NoLostWaiter

\* The mutexes are FIFO locks: owners and queues change as MutexSpec says.
Lock == INSTANCE MutexSpec WITH owner <- vm.owner, queue <- vm.QTex
ImplementsMutexSpec == Lock!Spec

-----------------------------------------------------------------------------
(* Liveness                                                                *)

\* A thread that waits with ticks left is woken: by the mutex, by its
\* termination or at the latest when the timer has counted its ticks down.
TimeoutsExpire ==
  \A t \in AppThread :
    (vm.state[t] = "WAITING" /\ vm.ticks[t] > 0)
      ~> (vm.state[t] # "WAITING" \/ vm.halt # "no")

\* Round robin: a ready thread of the highest priority eventually leaves its
\* queue, however many threads share the priority.
HighPriorityRuns ==
  \A t \in AppThread :
    (vm.state[t] = "READY" /\ vm.prio[t] = VM_THREAD_PRIORITY_HIGH)
      ~> (vm.state[t] # "READY" \/ vm.halt # "no")

-----------------------------------------------------------------------------
(* What comments of the code say and the code does not do                  *)

\* VirtualMachine.cpp:349 calls the FAILURE of VMMutexAcquire the "case:
\* timeout failure": so the new owner of the mutex does not take that path.
FailsOnlyOnTimeout ==
  \A t \in Thread :
    /\ pc[t] = "acquire"
    /\ vm.state[t] = "RUNNING"
    /\ vm.owner[frame[t].mtx] = t
    => frame[t].mtx \in Elems(vm.held[t])

\* VirtualMachine.cpp:449 says VMThreadSleep "does nothing while the number of
\* ticks that have passed ... is less than the number to sleep on".
SleepsItsTicks ==
  [][\A t \in Thread :
       pc[t] = "sleep" /\ pc'[t] = "app" => vm.ticks[t] <= 0]_vars

\* Thread.h:32 says of nextID "increment every time a thread is created.
\* Decrement never."
NextIDGrows == [][vm'.nextID >= vm.nextID]_vars
=============================================================================
