-------------------------- MODULE VMThreads_proofs --------------------------
(***************************************************************************)
(* Theorems about VMThreads.  The inductive invariant IInv is that of the  *)
(* kernel, for the state between two API calls, with the types of the      *)
(* locals of the threads.  Each call is a composition of operators of      *)
(* Kernel, so its step composes the lemmas of KernelInv.                   *)
(***************************************************************************)
EXTENDS VMThreads, KernelInv, FiniteSetTheorems

VMInv == KernelInv(vm, NULL) /\ vm.state[vm.tr] = "RUNNING"

FrameType == [mtx : Mutex \cup {NULL}, id : Nat, next : Nat]

\* What the calls of threads rely on, wherever the contexts of other threads
\* continue.
CallInv == VMInv /\ frame \in [Thread -> FrameType]

IInv == CallInv /\ pc \in [Thread -> Location]

\* What a step does to the virtual machine: the invariant holds again, and
\* if the processor changed hands no ready thread outranks the new one.
Outranked(s) ==
  \A t \in Thread : s.state[t] = "READY" => s.prio[t] <= s.prio[s.tr]

VMStep == VMInv' /\ (vm'.tr # vm.tr => Outranked(vm'))

-----------------------------------------------------------------------------
(* Steps of the virtual machine                                            *)

\* The thread that runs is registered and is in no queue of dead threads.
LEMMA Running ==
  ASSUME VMInv
  PROVE  /\ vm \in VMState /\ vm.tr \in Thread /\ vm.tr \in Elems(vm.threads)
         /\ vm.state[vm.tr] = "RUNNING"
         /\ NULL \in Thread \cup {NULL} /\ vm.tr # NULL
<1>1. vm \in VMState /\ vm.tr \in Thread
  BY DEF VMInv, KernelInv, Typed, VMState
<1> QED BY <1>1, ObjectAssumption DEF VMInv, KernelInv, Registered

\* A call that ends in scheduler() makes a good step.
LEMMA SwitchStep ==
  ASSUME NEW s, KernelInv(s, NULL), vm' = Scheduler(s)
  PROVE  VMStep
<1>1. /\ KernelInv(Scheduler(s), NULL)
      /\ Scheduler(s).state[Scheduler(s).tr] = "RUNNING"
      /\ Outranked(Scheduler(s))
  BY SchedulerInv DEF Outranked
<1> QED BY <1>1 DEF VMStep, VMInv

\* A call that keeps the processor and preserves the invariant does too.
LEMMA KeepStep ==
  ASSUME VMInv, KernelInv(vm', NULL), vm'.state[vm.tr] = vm.state[vm.tr],
         vm'.tr = vm.tr
  PROVE  VMStep
BY DEF VMStep, VMInv

\* An undefined operation in the middle of a call.
LEMMA UndefinedStep ==
  ASSUME VMInv, vm' = Undefined(vm)
  PROVE  VMStep
<1>1. KernelInv(vm', NULL)
  BY UndefinedInv DEF VMInv
<1>2. vm'.state = vm.state /\ vm'.tr = vm.tr
  BY Running DEF Undefined, VMState
<1> QED BY <1>1, <1>2, KeepStep

\* The searches through the vector find one of its threads with the
\* identifier, if any.
LEMMA FindType ==
  ASSUME NEW s, s.threads \in Seq(Thread), NEW i
  PROVE  \/ Find(s, i) = NULL /\ \A u \in Elems(s.threads) : s.id[u] # i
         \/ Find(s, i) \in Elems(s.threads) /\ s.id[Find(s, i)] = i
<1> DEFINE n == Len(s.threads)
           Matches == {k \in DOMAIN s.threads : s.id[s.threads[k]] = i}
           Last(k) == \A j \in Matches : j <= k
<1>1. n \in Nat /\ DOMAIN s.threads = 1 .. n
  BY QueueType
<1>2. CASE Matches = {}
  BY <1>2 DEF Find, Elems
<1>3. CASE Matches # {}
  <2> DEFINE D == {d \in Nat : n - d \in Matches}
  <2>1. Matches \subseteq 1 .. n
    BY <1>1
  <2> HIDE DEF Matches
  <2>2. D # {} /\ D \in SUBSET Nat
    <3>1. PICK k \in Matches : TRUE
      BY <1>3
    <3>2. n - k \in Nat /\ n - (n - k) = k
      BY <1>1, <2>1, <3>1
    <3> QED BY <3>1, <3>2
  <2>3. PICK d \in D : \A e \in D : d <= e
    <3> HIDE DEF D
    <3> QED BY <2>2, LeastNatural
  <2>4. n - d \in Matches /\ d \in Nat
    BY <2>3
  <2>5. ASSUME NEW j \in Matches PROVE j <= n - d
    <3>1. j \in Nat /\ n - j \in Nat /\ n - (n - j) = j
      BY <1>1, <2>1
    <3>2. n - j \in D
      BY <3>1
    <3>3. d <= n - j
      <4> HIDE DEF D
      <4> QED BY <2>3, <3>2
    <3> QED BY <1>1, <2>4, <3>1, <3>3
  <2>6. Last(n - d)
    BY <2>5
  <2> DEFINE c == CHOOSE k \in Matches : Last(k)
  <2>7. Find(s, i) = s.threads[c]
    BY <1>3 DEF Find, Matches
  <2> HIDE DEF Last
  <2>8. c \in Matches
    BY <2>4, <2>6
  <2> HIDE DEF c
  <2>9. c \in DOMAIN s.threads /\ s.id[s.threads[c]] = i
    BY <2>8 DEF Matches
  <2> QED BY <2>7, <2>9 DEF Elems
<1> QED BY <1>2, <1>3

\* The threads applications name are registered, and never idle.
LEMMA TargetType ==
  ASSUME VMInv, NEW i, Target(i) # NULL
  PROVE  Target(i) \in Elems(vm.threads) /\ Target(i) \in Thread \ {Idle}
<1>1. vm.threads \in Seq(Thread)
  BY Running DEF VMState
<1>2. Find(vm, i) \in Elems(vm.threads) \cup {NULL}
  BY <1>1, FindType
<1>3. Elems(vm.threads) \subseteq Thread
  BY <1>1, QueueType
<1> QED BY <1>2, <1>3 DEF Target

\* The threads that call API functions are not idle.
LEMMA Caller ==
  ASSUME NEW t \in Thread, NEW call, Calling(t, call)
  PROVE  t \in Thread \ {Idle} /\ vm.tr = t
BY ObjectAssumption DEF Calling, At

-----------------------------------------------------------------------------
(* Thread calls                                                            *)

\* VMThreadCreate, from its first scheduler() to its last assignment.
LEMMA CreateStoreStep ==
  ASSUME CallInv, NEW t \in Thread, CreateStore(t)
  PROVE  VMStep
<1>1. PICK u \in Unborn, p \in AppPriority :
        /\ vm' = [vm EXCEPT !.nextID = frame[t].next, !.threads = Append(@, u),
                            !.id[u] = frame[t].id, !.state[u] = "DEAD",
                            !.prio[u] = p, !.ticks[u] = -1, !.held[u] = << >>,
                            !.waiting[u] = NULL]
        /\ pc' = [pc EXCEPT ![t] = "app", ![u] = "app"]
  BY ZenonT(40) DEF CreateStore
<1>2. vm \in VMState /\ KernelInv(vm, NULL) /\ vm.state[vm.tr] = "RUNNING"
  BY Running DEF CallInv, VMInv
<1>3. /\ u \in AppThread /\ u \in Thread /\ u \notin Elems(vm.threads)
      /\ u \notin vm.freed /\ u # Idle
  BY ObjectAssumption DEF Unborn, Thread
<1>4. vm.state[u] = "DEAD" /\ vm.held[u] = << >> /\ u # vm.tr
  BY <1>2, <1>3, ObjectAssumption DEF KernelInv, Registered, DeadReleased
<1>5. p \in Priority
  BY CallAssumption
<1>6. /\ Append(vm.threads, u) \in Seq(Thread)
      /\ Elems(Append(vm.threads, u)) = Elems(vm.threads) \cup {u}
  BY <1>2, <1>3, AppendElems DEF VMState
<1>7. << >> \in Seq(Mutex) /\ Elems(<< >>) = {}
  BY EmptySeq DEF Elems
<1>8. vm' \in VMState
  <2> DEFINE next    == frame[t].next
             threads == Append(vm.threads, u)
             id      == [vm.id EXCEPT ![u] = frame[t].id]
             state   == [vm.state EXCEPT ![u] = "DEAD"]
             prio    == [vm.prio EXCEPT ![u] = p]
             ticks   == [vm.ticks EXCEPT ![u] = -1]
             held    == [vm.held EXCEPT ![u] = << >>]
             waiting == [vm.waiting EXCEPT ![u] = NULL]
  <2>1. frame[t].next \in Nat /\ frame[t].id \in Nat
    BY DEF CallInv, FrameType
  <2>2. next \in Nat /\ threads \in Seq(Thread) /\ id \in [Thread -> Nat]
    BY <1>2, <1>6, <2>1 DEF VMState
  <2>3. state \in [Thread -> ThreadState] /\ prio \in [Thread -> Priority]
    BY <1>2, <1>5 DEF VMState, ThreadState
  <2>4. ticks \in [Thread -> Int]
    <3>1. -1 \in Int /\ vm.ticks \in [Thread -> Int]
      BY <1>2 DEF VMState
    <3> QED BY <3>1
  <2>5. held \in [Thread -> Seq(Mutex)] /\ waiting \in [Thread -> Mutex \cup {NULL}]
    BY <1>2, <1>7 DEF VMState
  <2>6. vm' = [vm EXCEPT !.nextID = next, !.threads = threads, !.id = id,
                         !.state = state, !.prio = prio, !.ticks = ticks,
                         !.held = held, !.waiting = waiting]
    BY <1>1
  <2> HIDE DEF next, threads, id, state, prio, ticks, held, waiting
  <2> QED BY <1>2, <2>2, <2>3, <2>4, <2>5, <2>6 DEF VMState
<1>9. /\ vm'.threads = Append(vm.threads, u)
      /\ vm'.prio = [vm.prio EXCEPT ![u] = p]
      /\ vm'.ticks = [vm.ticks EXCEPT ![u] = -1]
      /\ vm'.state = [vm.state EXCEPT ![u] = "DEAD"]
      /\ vm'.held = [vm.held EXCEPT ![u] = << >>]
      /\ vm'.readyQ = vm.readyQ /\ vm'.mutexes = vm.mutexes
      /\ vm'.freed = vm.freed /\ vm'.owner = vm.owner
      /\ vm'.QTex = vm.QTex /\ vm'.tr = vm.tr
  BY <1>1, <1>2 DEF VMState
<1>10. vm'.state = vm.state /\ vm'.held = vm.held
  BY <1>2, <1>4, <1>9 DEF VMState
<1>11. /\ \A w \in Thread : w # u => vm'.prio[w] = vm.prio[w]
       /\ \A w \in Thread : vm'.ticks[w] = IF w = u THEN -1 ELSE vm.ticks[w]
  BY <1>2, <1>9 DEF VMState
<1>12. Typed(vm')
  BY <1>2, <1>8, <1>11 DEF KernelInv, Typed, Thread
<1>13. ReadyQueued(vm') /\ RunningIsTr(vm') /\ IdleRuns(vm')
  BY <1>2, <1>3, <1>4, <1>9, <1>10, <1>11 DEF KernelInv, ReadyQueued, RunningIsTr, IdleRuns, Thread
<1>14. QueuedRunnable(vm', NULL)
  <2>1. \A q \in Priority : Elems(vm.readyQ[q]) \subseteq Thread
    BY <1>2, QueueType DEF VMState
  <2> QED BY <2>1, <1>2, <1>3, <1>6, <1>9, <1>10, <1>11 DEF KernelInv, QueuedRunnable
<1>15. Registered(vm') /\ DeadReleased(vm', NULL) /\ Dying(vm', NULL)
  BY <1>2, <1>3, <1>6, <1>9, <1>10 DEF KernelInv, Registered, DeadReleased, Dying
<1>16. MutexInv(vm')
  BY <1>2, <1>9, <1>10 DEF KernelInv, MutexInv, HeldOwned, HeldOnce, HeldNotAwaited, FreeUnqueued
<1>17. KernelInv(vm', NULL)
  BY <1>12, <1>13, <1>14, <1>15, <1>16 DEF KernelInv
<1> QED BY <1>9, <1>10, <1>17, KeepStep DEF CallInv

\* Every step of VMThreadCreate.
LEMMA CreateStep ==
  ASSUME CallInv, NEW t \in Thread, Create(t)
  PROVE  VMStep
<1>1. VMInv /\ KernelInv(vm, NULL)
  BY DEF CallInv, VMInv
<1>2. CASE CreateAllocate(t) \/ CreateRetry(t)
  BY <1>1, <1>2, SwitchStep DEF CreateAllocate, CreateRetry
<1>3. CASE CreateSkipsLoop(t)
  BY <1>1, <1>3, UndefinedStep DEF CreateSkipsLoop
<1>4. CASE CreateReadID(t) \/ CreateLoadNext(t)
  BY <1>1, <1>4, KeepStep DEF CreateReadID, CreateLoadNext
<1>5. CASE CreateStore(t)
  BY <1>5, CreateStoreStep
<1> QED BY <1>2, <1>3, <1>4, <1>5 DEF Create

\* VMThreadActivate keeps the processor, whatever the priorities.
LEMMA ActivateStep ==
  ASSUME CallInv, NEW t \in Thread, Activate(t)
  PROVE  VMStep
<1>1. PICK i \in GivenID :
        /\ Target(i) # NULL /\ vm.state[Target(i)] = "DEAD"
        /\ vm' = PushReady([vm EXCEPT !.state[Target(i)] = "READY"], Target(i))
  BY DEF Activate
<1> DEFINE u == Target(i)
<1>2. u \in Elems(vm.threads) /\ u \in Thread
  BY <1>1, TargetType DEF CallInv
<1> HIDE DEF u
<1>3. vm' = PushReady([vm EXCEPT !.state[u] = "READY"], u) /\ vm.state[u] = "DEAD"
  BY <1>1 DEF u
<1>4. KernelInv(vm', NULL)
  BY <1>2, <1>3, PushInv, Running, ObjectAssumption DEF CallInv, VMInv
<1>5. vm'.state = [vm.state EXCEPT ![u] = "READY"] /\ vm'.tr = vm.tr
  BY <1>3, Running DEF CallInv, PushReady, VMState
<1>6. vm'.state[vm.tr] = vm.state[vm.tr]
  BY <1>3, <1>5, Running DEF CallInv, VMState
<1> QED BY <1>4, <1>5, <1>6, KeepStep DEF CallInv

\* VMThreadDelete.
LEMMA ThreadDeleteStep ==
  ASSUME CallInv, NEW t \in Thread, ThreadDelete(t)
  PROVE  VMStep
<1>1. PICK i \in GivenID :
        /\ Target(i) # NULL /\ vm.state[Target(i)] = "DEAD"
        /\ vm' \in {[vm EXCEPT !.threads = Without(@, Target(i)),
                               !.freed = @ \cup {Target(i)}],
                    Undefined(vm)}
  BY DEF ThreadDelete
<1> DEFINE u == Target(i)
<1>2. u \in Elems(vm.threads) /\ u \in Thread \ {Idle}
  BY <1>1, TargetType DEF CallInv
<1> HIDE DEF u
<1>3. CASE vm' = Undefined(vm)
  BY <1>3, UndefinedStep DEF CallInv
<1>4. CASE vm' = [vm EXCEPT !.threads = Without(@, u), !.freed = @ \cup {u}]
  <2>1. vm \in VMState /\ KernelInv(vm, NULL)
    BY Running DEF CallInv, VMInv
  <2>2. /\ Without(vm.threads, u) \in Seq(Thread)
        /\ Elems(Without(vm.threads, u)) = Elems(vm.threads) \ {u}
    BY <2>1, WithoutElems DEF VMState
  <2>3. vm' \in VMState
    BY <1>2, <1>4, <2>1, <2>2 DEF VMState
  <2>4. /\ vm'.threads = Without(vm.threads, u) /\ vm'.freed = vm.freed \cup {u}
        /\ vm'.state = vm.state /\ vm'.readyQ = vm.readyQ
        /\ vm'.mutexes = vm.mutexes /\ vm'.prio = vm.prio
        /\ vm'.ticks = vm.ticks /\ vm'.held = vm.held /\ vm'.owner = vm.owner
        /\ vm'.QTex = vm.QTex /\ vm'.tr = vm.tr
    BY <1>4, <2>1 DEF VMState
  <2>5. vm.state[u] = "DEAD"
    BY <1>1 DEF u
  <2>6. Typed(vm') /\ ReadyQueued(vm') /\ RunningIsTr(vm') /\ IdleRuns(vm')
    BY <2>1, <2>3, <2>4 DEF KernelInv, Typed, ReadyQueued, RunningIsTr, IdleRuns
  <2>7. QueuedRunnable(vm', NULL)
    <3>1. \A p \in Priority : Elems(vm.readyQ[p]) \subseteq Thread
      BY <2>1, QueueType DEF VMState
    <3>2. \A w \in Thread : w # NULL
      BY ObjectAssumption
    <3> QED BY <3>1, <3>2, <2>1, <2>2, <2>4, <2>5 DEF KernelInv, QueuedRunnable
  <2>8. Registered(vm') /\ DeadReleased(vm', NULL) /\ Dying(vm', NULL)
    BY <2>1, <2>2, <2>4, <2>5 DEF KernelInv, Registered, DeadReleased, Dying
  <2>9. MutexInv(vm')
    BY <2>1, <2>4 DEF KernelInv, MutexInv, HeldOwned, HeldOnce, HeldNotAwaited, FreeUnqueued
  <2>10. KernelInv(vm', NULL)
    BY <2>6, <2>7, <2>8, <2>9 DEF KernelInv
  <2> QED BY <2>4, <2>10, KeepStep DEF CallInv
<1> QED BY <1>1, <1>3, <1>4 DEF u

\* Termination, by VMThreadTerminate or by the return of the entry function.
LEMMA TerminateStep ==
  ASSUME CallInv, NEW u, u # NULL, NEW i, u = Target(i),
         vm' = Scheduler(Terminate(vm, u))
  PROVE  VMStep
<1>1. u \in Thread \ {Idle}
  BY TargetType DEF CallInv
<1>2. KernelInv(Terminate(vm, u), NULL)
  BY <1>1, TerminateInv DEF CallInv, VMInv
<1> QED BY <1>2, SwitchStep

\* The calls of threads.
LEMMA ThreadCallStep ==
  ASSUME CallInv, NEW t \in Thread, ThreadCall(t)
  PROVE  VMStep
<1>1. VMInv /\ KernelInv(vm, NULL)
  BY DEF CallInv, VMInv
<1>2. CASE Create(t)
  BY <1>2, CreateStep
<1>3. CASE Activate(t)
  BY <1>3, ActivateStep
<1>4. CASE ThreadTerminate(t)
  <2>1. PICK i \in GivenID : Target(i) # NULL /\ vm' = Scheduler(Terminate(vm, Target(i)))
    BY <1>4 DEF ThreadTerminate
  <2> QED BY <2>1, TerminateStep
<1>5. CASE ThreadDelete(t)
  BY <1>5, ThreadDeleteStep
<1>6. CASE EntryReturn(t)
  <2>1. CASE vm' = vm
    BY <1>1, <2>1, KeepStep
  <2>2. CASE vm' # vm
    <3>1. Target(vm.id[t]) # NULL /\ vm' = Scheduler(Terminate(vm, Target(vm.id[t])))
      BY <1>6, <2>2 DEF EntryReturn
    <3> QED BY <3>1, TerminateStep
  <2> QED BY <2>1, <2>2
<1>7. CASE BootReturn(t)
  <2>1. vm' = [vm EXCEPT !.halt = "abort"] /\ vm \in VMState
    BY <1>1, <1>7, Running DEF BootReturn
  <2>2. vm' \in VMState
    BY <2>1 DEF VMState
  <2>3. /\ vm'.state = vm.state /\ vm'.readyQ = vm.readyQ
        /\ vm'.threads = vm.threads /\ vm'.mutexes = vm.mutexes
        /\ vm'.freed = vm.freed /\ vm'.prio = vm.prio /\ vm'.ticks = vm.ticks
        /\ vm'.held = vm.held /\ vm'.owner = vm.owner /\ vm'.QTex = vm.QTex
        /\ vm'.tr = vm.tr
    BY <2>1 DEF VMState
  <2>4. KernelInv(vm', NULL)
    BY <1>1, <2>2, <2>3, SameInv
  <2> QED BY <1>1, <2>3, <2>4, KeepStep
<1>8. CASE Sleep(t)
  <2>1. PICK n \in SleepTicks : vm' = Scheduler(Block(vm, t, n))
    BY <1>8 DEF Sleep
  <2>2. t \in Thread \ {Idle} /\ vm.tr = t
    BY <1>8, Caller DEF Sleep
  <2>3. n \in Nat /\ vm.state[t] \notin {"DEAD", "READY"}
    BY <1>1, <2>2, CallAssumption DEF VMInv
  <2>4. KernelInv(Block(vm, t, n), NULL)
    BY <1>1, <2>2, <2>3, BlockInv
  <2> QED BY <2>1, <2>4, SwitchStep
<1>9. CASE SleepReturn(t)
  BY <1>1, <1>9, KeepStep DEF SleepReturn
<1>10. CASE Yield(t)
  <2>1. vm.tr = t
    BY <1>10, Caller DEF Yield
  <2>2. t \in Elems(vm.threads) /\ t # NULL /\ NULL \in Thread \cup {NULL}
    BY <1>1, <2>1, Running
  <2>3. KernelInv(PushReady([vm EXCEPT !.state[t] = "READY"], t), NULL)
    BY <1>1, <2>2, PushInv
  <2> QED BY <1>10, <2>3, SwitchStep DEF Yield
<1> QED BY <1>2, <1>3, <1>4, <1>5, <1>6, <1>7, <1>8, <1>9, <1>10 DEF ThreadCall

-----------------------------------------------------------------------------
(* Mutex calls                                                             *)

\* VMMutexCreate.
LEMMA MutexCreateStep ==
  ASSUME CallInv, NEW t \in Thread, MutexCreate(t)
  PROVE  VMStep
<1>1. PICK m \in Mutex \ (vm.mutexes \cup vm.freed) :
        vm' = [vm EXCEPT !.mutexes = @ \cup {m}, !.owner[m] = NULL, !.QTex[m] = << >>]
  BY DEF MutexCreate
<1>2. vm \in VMState /\ KernelInv(vm, NULL)
  BY Running DEF CallInv, VMInv
<1>3. << >> \in Seq(Thread) /\ Elems(<< >>) = {}
  BY EmptySeq DEF Elems
<1>4. vm' \in VMState
  BY <1>1, <1>2, <1>3 DEF VMState
<1>5. /\ vm'.mutexes = vm.mutexes \cup {m}
      /\ vm'.owner = [vm.owner EXCEPT ![m] = NULL]
      /\ vm'.QTex = [vm.QTex EXCEPT ![m] = << >>]
      /\ vm'.state = vm.state /\ vm'.readyQ = vm.readyQ
      /\ vm'.threads = vm.threads /\ vm'.freed = vm.freed
      /\ vm'.prio = vm.prio /\ vm'.ticks = vm.ticks /\ vm'.held = vm.held
      /\ vm'.tr = vm.tr
  BY <1>1, <1>2 DEF VMState
<1>6. /\ vm'.owner[m] = NULL /\ \A n \in Mutex : n # m => vm'.owner[n] = vm.owner[n]
      /\ vm'.QTex[m] = << >> /\ \A n \in Mutex : n # m => vm'.QTex[n] = vm.QTex[n]
  BY <1>2, <1>5 DEF VMState
<1>7. Registered(vm') /\ FreeUnqueued(vm')
  BY <1>2, <1>3, <1>5, <1>6 DEF KernelInv, MutexInv, Registered, FreeUnqueued
<1>8. HeldOwned(vm') /\ HeldNotAwaited(vm') /\ HeldOnce(vm')
  <2>1. \A u \in Thread : \A n \in Elems(vm.held[u]) : n \in vm.mutexes /\ n \in Mutex
    BY <1>2 DEF KernelInv, MutexInv, HeldOwned, VMState
  <2> QED BY <2>1, <1>2, <1>5, <1>6 DEF KernelInv, MutexInv, HeldOwned, HeldNotAwaited, HeldOnce
<1>9. Typed(vm') /\ ReadyQueued(vm') /\ QueuedRunnable(vm', NULL) /\ RunningIsTr(vm')
  BY <1>2, <1>4, <1>5 DEF KernelInv, Typed, ReadyQueued, QueuedRunnable, RunningIsTr
<1>10. IdleRuns(vm') /\ DeadReleased(vm', NULL) /\ Dying(vm', NULL)
  BY <1>2, <1>5 DEF KernelInv, IdleRuns, DeadReleased, Dying
<1>11. KernelInv(vm', NULL)
  BY <1>7, <1>8, <1>9, <1>10 DEF KernelInv, MutexInv
<1> QED BY <1>5, <1>11, KeepStep DEF CallInv

\* VMMutexDelete: only a mutex that nobody holds is deleted.
LEMMA MutexDeleteStep ==
  ASSUME CallInv, NEW t \in Thread, MutexDelete(t)
  PROVE  VMStep
<1>1. PICK m \in vm.mutexes :
        /\ vm.owner[m] = NULL
        /\ vm' = [vm EXCEPT !.mutexes = @ \ {m}, !.freed = @ \cup {m}]
  BY DEF MutexDelete
<1>2. vm \in VMState /\ KernelInv(vm, NULL)
  BY Running DEF CallInv, VMInv
<1>3. m \in Mutex /\ Elems(vm.threads) \subseteq Thread
  BY <1>2, QueueType DEF VMState
<1>4. vm' \in VMState
  BY <1>1, <1>2, <1>3 DEF VMState
<1>5. /\ vm'.mutexes = vm.mutexes \ {m} /\ vm'.freed = vm.freed \cup {m}
      /\ vm'.state = vm.state /\ vm'.readyQ = vm.readyQ
      /\ vm'.threads = vm.threads /\ vm'.prio = vm.prio
      /\ vm'.ticks = vm.ticks /\ vm'.held = vm.held /\ vm'.owner = vm.owner
      /\ vm'.QTex = vm.QTex /\ vm'.tr = vm.tr
  BY <1>1, <1>2 DEF VMState
<1>6. HeldOwned(vm')
  <2>1. \A u \in Thread : u # NULL
    BY ObjectAssumption
  <2> QED BY <2>1, <1>1, <1>2, <1>5 DEF KernelInv, MutexInv, HeldOwned
<1>7. Registered(vm')
  BY <1>2, <1>3, <1>5, ObjectAssumption DEF KernelInv, Registered
<1>8. HeldOnce(vm') /\ HeldNotAwaited(vm') /\ FreeUnqueued(vm')
  BY <1>2, <1>5 DEF KernelInv, MutexInv, HeldOnce, HeldNotAwaited, FreeUnqueued
<1>9. Typed(vm') /\ ReadyQueued(vm') /\ QueuedRunnable(vm', NULL) /\ RunningIsTr(vm')
  BY <1>2, <1>4, <1>5 DEF KernelInv, Typed, ReadyQueued, QueuedRunnable, RunningIsTr
<1>10. IdleRuns(vm') /\ DeadReleased(vm', NULL) /\ Dying(vm', NULL)
  BY <1>2, <1>5 DEF KernelInv, IdleRuns, DeadReleased, Dying
<1>11. KernelInv(vm', NULL)
  BY <1>6, <1>7, <1>8, <1>9, <1>10 DEF KernelInv, MutexInv
<1> QED BY <1>5, <1>11, KeepStep DEF CallInv

\* The calls on mutexes.
LEMMA MutexCallStep ==
  ASSUME CallInv, NEW t \in Thread, MutexCall(t)
  PROVE  VMStep
<1>1. VMInv /\ KernelInv(vm, NULL)
  BY DEF CallInv, VMInv
<1>2. ASSUME NEW m \in vm.mutexes, NEW n, vm.tr = t
      PROVE  LET r == AcquireMutex(vm, t, m, n) IN
             KernelInv(r, NULL) /\ r.state = vm.state /\ r.tr = vm.tr
  BY <1>1, <1>2, Running, AcquireInv
<1>3. CASE MutexCreate(t)
  BY <1>3, MutexCreateStep
<1>4. CASE TryAcquire(t)
  <2>1. vm.tr = t
    BY <1>4, Caller DEF TryAcquire
  <2>2. PICK m \in vm.mutexes : vm' = AcquireMutex(vm, t, m, VM_TIMEOUT_IMMEDIATE)
    BY <1>4 DEF TryAcquire
  <2> QED BY <1>1, <1>2, <2>1, <2>2, KeepStep
<1>5. CASE AcquireFree(t)
  <2>1. vm.tr = t
    BY <1>5, Caller DEF AcquireFree
  <2>2. PICK m \in vm.mutexes, n \in SleepTicks \cup {VM_TIMEOUT_INFINITE} :
          vm' = AcquireMutex(vm, t, m, n)
    BY <1>5 DEF AcquireFree
  <2> QED BY <1>1, <1>2, <2>1, <2>2, KeepStep
<1>6. CASE AcquireBlock(t)
  <2>1. t \in Thread \ {Idle} /\ vm.tr = t
    BY <1>6, Caller DEF AcquireBlock
  <2>2. PICK m \in vm.mutexes, n \in SleepTicks \cup {VM_TIMEOUT_INFINITE} :
          vm' = Scheduler(Block(AcquireMutex(vm, t, m, n), t, n))
    BY <1>6 DEF AcquireBlock
  <2> DEFINE r == AcquireMutex(vm, t, m, n)
  <2>3. KernelInv(r, NULL) /\ r.state = vm.state /\ r.tr = vm.tr
    BY <1>2, <2>1
  <2> HIDE DEF r
  <2>4. n \in Nat
    <3>1. SleepTicks \cup {0} \subseteq Nat
      BY CallAssumption
    <3> QED BY <3>1 DEF VM_TIMEOUT_INFINITE
  <2>5. r.state[t] \notin {"DEAD", "READY"}
    BY <1>1, <2>1, <2>3 DEF VMInv
  <2>6. KernelInv(Block(r, t, n), NULL)
    BY <2>1, <2>3, <2>4, <2>5, BlockInv
  <2>7. vm' = Scheduler(Block(r, t, n))
    BY <2>2 DEF r
  <2> QED BY <2>6, <2>7, SwitchStep
<1>7. CASE AcquireReturn(t)
  BY <1>1, <1>7, KeepStep DEF AcquireReturn
<1>8. CASE MutexRelease(t)
  <2>1. PICK m \in vm.mutexes \cap Elems(vm.held[t]) : vm' = Scheduler(ReleaseMutex(vm, t, m))
    BY <1>8 DEF MutexRelease
  <2>2. KernelInv(ReleaseMutex(vm, t, m), NULL)
    BY <1>1, ReleaseMutexInv
  <2> QED BY <2>1, <2>2, SwitchStep
<1>9. CASE MutexDelete(t)
  BY <1>9, MutexDeleteStep
<1>10. CASE MutexDeleteUnknown(t)
  BY <1>1, <1>10, UndefinedStep DEF MutexDeleteUnknown
<1> QED BY <1>3, <1>4, <1>5, <1>6, <1>7, <1>8, <1>9, <1>10 DEF MutexCall

-----------------------------------------------------------------------------
(* The invariant of the specification                                      *)

\* Every step of the system, the timer interrupt included.
LEMMA NextStep ==
  ASSUME IInv, [Next]_vars
  PROVE  VMStep
<1>1. VMInv /\ KernelInv(vm, NULL)
  BY DEF IInv, CallInv, VMInv
<1>2. ASSUME NEW t \in Thread, ThreadCall(t) \/ MutexCall(t) PROVE VMStep
  BY <1>2, ThreadCallStep, MutexCallStep DEF IInv
<1>3. CASE TimerISR
  <2>1. vm' = Scheduler(TimerTick(vm))
    BY <1>3 DEF TimerISR
  <2> QED BY <1>1, <2>1, TimerTickInv, SwitchStep
<1>4. CASE Halted \/ UNCHANGED vars
  BY <1>1, <1>4, KeepStep DEF Halted, vars
<1> QED BY <1>2, <1>3, <1>4 DEF Next

\* A call leaves the contexts and the locals of all threads in their types,
\* and continues at one of the places of Location.
LEMMA CallFrames ==
  ASSUME CallInv, NEW L, Location \subseteq L, pc \in [Thread -> L],
         NEW t \in Thread, ThreadCall(t) \/ MutexCall(t)
  PROVE  pc' \in [Thread -> L] /\ frame' \in [Thread -> FrameType]
<1>1. /\ vm \in VMState /\ pc \in [Thread -> L]
      /\ frame \in [Thread -> FrameType]
  BY Running DEF IInv, CallInv
<1>2. EmptyFrame \in FrameType
  BY DEF EmptyFrame, FrameType
<1>3. vm.nextID \in Nat /\ vm.nextID + 1 \in Nat /\ vm.mutexes \subseteq Mutex
  BY <1>1 DEF VMState
<1>4. {"app", "sleep", "acquire", "alloc", "newid", "incid", "exit"} \subseteq L
  BY DEF Location
<1>5. ASSUME Create(t)
      PROVE  pc' \in [Thread -> L] /\ frame' \in [Thread -> FrameType]
  <2>1. CASE CreateAllocate(t) \/ CreateSkipsLoop(t) \/ CreateRetry(t)
    BY <2>1, <1>1, <1>4 DEF CreateAllocate, CreateSkipsLoop, CreateRetry
  <2>2. CASE CreateReadID(t)
    <3>1. [frame EXCEPT ![t].id = vm.nextID] \in [Thread -> FrameType]
      BY <1>1, <1>3 DEF FrameType
    <3> QED BY <2>2, <3>1, <1>1, <1>4 DEF CreateReadID
  <2>3. CASE CreateLoadNext(t)
    <3>1. [frame EXCEPT ![t].next = vm.nextID + 1] \in [Thread -> FrameType]
      BY <1>1, <1>3 DEF FrameType
    <3> QED BY <2>3, <3>1, <1>1, <1>4 DEF CreateLoadNext
  <2>4. CASE CreateStore(t)
    <3>1. PICK u \in Unborn : pc' = [pc EXCEPT ![t] = "app", ![u] = "app"]
      BY <2>4, ZenonT(40) DEF CreateStore
    <3>2. frame' = [frame EXCEPT ![t] = EmptyFrame]
      BY <2>4 DEF CreateStore
    <3> QED BY <3>1, <3>2, <1>1, <1>2, <1>4
  <2> QED BY <1>5, <2>1, <2>2, <2>3, <2>4 DEF Create
<1>6. ASSUME ThreadCall(t), ~ Create(t)
      PROVE  pc' \in [Thread -> L] /\ frame' \in [Thread -> FrameType]
  BY <1>6, <1>1, <1>4 DEF ThreadCall, Activate, ThreadTerminate, ThreadDelete,
       EntryReturn, BootReturn, Sleep, SleepReturn, Yield
<1>7. ASSUME MutexCall(t)
      PROVE  pc' \in [Thread -> L] /\ frame' \in [Thread -> FrameType]
  <2>1. CASE AcquireBlock(t)
    <3>1. PICK m \in vm.mutexes : frame' = [frame EXCEPT ![t].mtx = m]
      BY <2>1 DEF AcquireBlock
    <3>2. [frame EXCEPT ![t].mtx = m] \in [Thread -> FrameType]
      BY <1>1, <1>3 DEF FrameType
    <3> QED BY <2>1, <3>1, <3>2, <1>1, <1>4 DEF AcquireBlock
  <2>2. CASE AcquireReturn(t)
    BY <2>2, <1>1, <1>2, <1>4 DEF AcquireReturn
  <2>3. CASE ~ AcquireBlock(t) /\ ~ AcquireReturn(t)
    BY <1>7, <2>3, <1>1 DEF MutexCall, MutexCreate, TryAcquire, AcquireFree,
         MutexRelease, MutexDelete, MutexDeleteUnknown
  <2> QED BY <2>1, <2>2, <2>3
<1> QED BY <1>5, <1>6, <1>7

\* The contexts and locals of the threads keep their types.
LEMMA FrameStep ==
  ASSUME IInv, [Next]_vars
  PROVE  pc' \in [Thread -> Location] /\ frame' \in [Thread -> FrameType]
<1>1. CASE TimerISR \/ Halted \/ UNCHANGED vars
  BY <1>1 DEF IInv, CallInv, TimerISR, Halted, vars
<1>2. ASSUME NEW t \in Thread, ThreadCall(t) \/ MutexCall(t)
      PROVE  pc' \in [Thread -> Location] /\ frame' \in [Thread -> FrameType]
  BY <1>2, CallFrames DEF IInv
<1> QED BY <1>1, <1>2 DEF Next

\* The state VMStart leaves satisfies the invariant.
LEMMA InitInv ==
  ASSUME Init
  PROVE  IInv
<1>1. Main \in Thread /\ Idle \in Thread /\ Main # Idle
  BY ObjectAssumption DEF Thread
<1>2. PICK n \in MainTicks :
        vm = [threads |-> <<Main, Idle>>,
              mutexes |-> {},
              freed   |-> {},
              id      |-> [t \in Thread |-> IF t = Idle THEN 1 ELSE 0],
              state   |-> [t \in Thread |-> CASE t = Main -> "RUNNING"
                                              [] t = Idle -> "READY"
                                              [] OTHER    -> "DEAD"],
              prio    |-> [t \in Thread |-> IF t = Main
                                            THEN VM_THREAD_PRIORITY_NORMAL
                                            ELSE VM_THREAD_PRIORITY_NIL],
              ticks   |-> [t \in Thread |-> IF t = Main THEN n ELSE -1],
              held    |-> [t \in Thread |-> << >>],
              waiting |-> [t \in Thread |-> NULL],
              owner   |-> [m \in Mutex |-> NULL],
              QTex    |-> [m \in Mutex |-> << >>],
              readyQ  |-> [p \in Priority |->
                             IF p = VM_THREAD_PRIORITY_NIL THEN <<Idle>>
                             ELSE << >>],
              tr      |-> Main,
              nextID  |-> 2,
              halt    |-> "no"]
  BY DEF Init
<1>3. n \in Int /\ -1 \in Int
  BY CallAssumption
<1>4. /\ \A t \in Thread : vm.state[t] = CASE t = Main -> "RUNNING"
                                           [] t = Idle -> "READY"
                                           [] OTHER    -> "DEAD"
      /\ \A t \in Thread : vm.prio[t] = IF t = Main THEN 2 ELSE 0
      /\ \A t \in Thread : vm.ticks[t] = IF t = Main THEN n ELSE -1
      /\ \A t \in Thread : vm.held[t] = << >>
      /\ \A m \in Mutex : vm.QTex[m] = << >>
      /\ \A p \in Priority : vm.readyQ[p] = IF p = 0 THEN <<Idle>> ELSE << >>
      /\ vm.threads = <<Main, Idle>> /\ vm.freed = {} /\ vm.tr = Main
  BY <1>2 DEF VM_THREAD_PRIORITY_NIL, VM_THREAD_PRIORITY_NORMAL
<1>5. Elems(<< >>) = {} /\ Elems(<<Idle>>) = {Idle} /\ Elems(<<Main, Idle>>) = {Main, Idle}
  BY DEF Elems
<1>6. 0 \in Priority /\ 2 \in Priority
  BY DEF Priority, VM_THREAD_PRIORITY_NIL, VM_THREAD_PRIORITY_HIGH
<1>7. vm \in VMState
  <2>1. <<Main, Idle>> \in Seq(Thread)
    BY <1>1
  <2>2. [t \in Thread |-> CASE t = Main -> "RUNNING"
                            [] t = Idle -> "READY"
                            [] OTHER    -> "DEAD"] \in [Thread -> ThreadState]
    BY DEF ThreadState
  <2>3. [t \in Thread |-> IF t = Main THEN VM_THREAD_PRIORITY_NORMAL
                          ELSE VM_THREAD_PRIORITY_NIL] \in [Thread -> Priority]
    BY <1>6 DEF VM_THREAD_PRIORITY_NIL, VM_THREAD_PRIORITY_NORMAL
  <2>4. [t \in Thread |-> IF t = Main THEN n ELSE -1] \in [Thread -> Int]
    BY <1>3
  <2>5. [p \in Priority |-> IF p = VM_THREAD_PRIORITY_NIL THEN <<Idle>>
                            ELSE << >>] \in [Priority -> Seq(Thread)]
    BY <1>1, EmptySeq
  <2>6. [t \in Thread |-> << >>] \in [Thread -> Seq(Mutex)]
    BY EmptySeq
  <2>7. [m \in Mutex |-> << >>] \in [Mutex -> Seq(Thread)]
    BY EmptySeq
  <2>8. [t \in Thread |-> IF t = Idle THEN 1 ELSE 0] \in [Thread -> Nat]
    OBVIOUS
  <2>9. {} \subseteq Mutex /\ {} \subseteq Thread \cup Mutex /\ 2 \in Nat
    OBVIOUS
  <2> QED BY <1>1, <1>2, <2>1, <2>2, <2>3, <2>4, <2>5, <2>6, <2>7, <2>8, <2>9 DEF VMState
<1>8. Typed(vm)
  BY <1>1, <1>4, <1>7, ObjectAssumption DEF Typed, Thread
<1>9. ReadyQueued(vm) /\ RunningIsTr(vm) /\ IdleRuns(vm)
  BY <1>1, <1>4, <1>5, <1>6 DEF ReadyQueued, RunningIsTr, IdleRuns, VM_THREAD_PRIORITY_NIL
<1>10. QueuedRunnable(vm, NULL)
  BY <1>1, <1>4, <1>5 DEF QueuedRunnable
<1>11. Registered(vm) /\ DeadReleased(vm, NULL) /\ Dying(vm, NULL)
  BY <1>1, <1>4, <1>5 DEF Registered, DeadReleased, Dying
<1>12. MutexInv(vm)
  <2>1. Len(<< >>) = 0
    BY EmptySeq
  <2> QED BY <2>1, <1>4, <1>5 DEF MutexInv, HeldOwned, HeldOnce, HeldNotAwaited, FreeUnqueued
<1>13. VMInv
  BY <1>1, <1>4, <1>8, <1>9, <1>10, <1>11, <1>12 DEF VMInv, KernelInv
<1>14. pc \in [Thread -> Location] /\ frame \in [Thread -> FrameType]
  BY DEF Init, Location, EmptyFrame, FrameType
<1> QED BY <1>13, <1>14 DEF IInv, CallInv

-----------------------------------------------------------------------------
(* Theorems                                                                *)

\* The invariant holds in every state of the program.
THEOREM Invariance == Spec => []IInv
<1>1. Init => IInv
  BY InitInv
<1>2. IInv /\ [Next]_vars => IInv'
  <2> SUFFICES ASSUME IInv, [Next]_vars PROVE IInv'
    OBVIOUS
  <2>1. VMInv'
    BY NextStep DEF VMStep
  <2> QED BY <2>1, FrameStep DEF IInv, CallInv
<1> QED BY <1>1, <1>2, PTL DEF Spec

\* The variables keep their types, and tick counters stop at -5.
THEOREM TypeCorrect == Spec => []TypeOK
<1>1. IInv => TypeOK
  BY DEF IInv, CallInv, VMInv, KernelInv, Typed, TypeOK, FrameType
<1> QED BY <1>1, Invariance, PTL

\* Exactly one thread runs, and it is tr.
THEOREM RunsOneThread == Spec => []OneRunning
<1>1. IInv => OneRunning
  BY Running DEF IInv, CallInv, VMInv, KernelInv, RunningIsTr, OneRunning
<1> QED BY <1>1, Invariance, PTL

\* A ready thread is in the ready queue of its priority.
THEOREM LosesNoReadyThread == Spec => []ReadyIsQueued
<1>1. IInv => ReadyIsQueued
  BY DEF IInv, CallInv, VMInv, KernelInv, ReadyQueued, ReadyIsQueued
<1> QED BY <1>1, Invariance, PTL

\* What scheduler() pops is alive, registered and of the queue's priority.
THEOREM PopsLiveThreads == Spec => []QueuedIsRunnable
<1>1. IInv => QueuedIsRunnable
  <2> SUFFICES ASSUME IInv, NEW p \in Priority, NEW t \in Elems(vm.readyQ[p])
               PROVE  vm.prio[t] = p /\ vm.state[t] # "DEAD" /\ t \notin vm.freed
    BY DEF QueuedIsRunnable
  <2>1. t \in Thread /\ t # NULL
    BY Running, QueueType, ObjectAssumption DEF IInv, CallInv, VMState
  <2> QED BY <2>1 DEF IInv, CallInv, VMInv, KernelInv, QueuedRunnable, Registered
<1> QED BY <1>1, Invariance, PTL

\* There is always a thread to run: idle, if no other.
THEOREM AlwaysAThread == Spec => []IdleAvailable
<1>1. IInv => IdleAvailable
  <2> SUFFICES ASSUME IInv PROVE IdleAvailable
    OBVIOUS
  <2>1. Idle \in Thread
    BY DEF Thread
  <2> QED BY <2>1 DEF IInv, CallInv, VMInv, KernelInv, IdleRuns, RunningIsTr, ReadyQueued, IdleAvailable
<1> QED BY <1>1, Invariance, PTL

\* A mutex is held by its owner alone, and is not deleted while it is held.
THEOREM MutualExclusion == Spec => []HeldByOwner
<1>1. IInv => HeldByOwner
  BY DEF IInv, CallInv, VMInv, KernelInv, MutexInv, HeldOwned, HeldByOwner
<1> QED BY <1>1, Invariance, PTL

\* Nobody waits for a mutex that nobody owns.
THEOREM NobodyWaitsForFree == Spec => []FreeHasNoWaiters
<1>1. IInv => FreeHasNoWaiters
  BY DEF IInv, CallInv, VMInv, KernelInv, MutexInv, FreeUnqueued, FreeHasNoWaiters
<1> QED BY <1>1, Invariance, PTL

\* A context switch runs a thread that no ready thread outranks.
THEOREM PriorityScheduling == Spec => SwitchesToHighest
<1>1. IInv /\ [Next]_vars
        => [vm'.tr # vm.tr => \A t \in Thread : vm'.state[t] = "READY"
                                => vm'.prio[t] <= vm'.prio[vm'.tr]]_vars
  BY NextStep DEF VMStep, Outranked
<1> QED BY <1>1, Invariance, PTL DEF Spec, SwitchesToHighest

-----------------------------------------------------------------------------
(* Mutexes as locks, and their waiters                                     *)

\* A mutex that is not registered has no owner.
Unowned == \A m \in Mutex \ vm.mutexes : vm.owner[m] = NULL

\* From s to r, nothing is named by thread t and only t can begin to wait.
Moves(s, r, t) ==
  \A u \in Thread \ {t} : r.state[u] = "WAITING" =>
       /\ s.state[u] = "WAITING" /\ r.held[u] = s.held[u]
       /\ \A m \in Mutex : u \in Elems(s.QTex[m]) => u \in Elems(r.QTex[m])

\* The same, for calls that create no thread.
Names(s, r) ==
  /\ r.id = s.id /\ r.nextID = s.nextID
  /\ Elems(r.threads) \subseteq Elems(s.threads)

LockStep == Unowned' /\ [Lock!Next]_(Lock!vars)

\* A step that is not about locks.
LEMMA NoLockStep ==
  ASSUME Unowned, vm'.owner = vm.owner, vm'.QTex = vm.QTex, vm'.mutexes = vm.mutexes
  PROVE  LockStep
BY DEF Unowned, LockStep, Lock!vars

\* An operator that registers nobody and lets nobody begin to wait.
LEMMA OnwardMoves ==
  ASSUME NEW t, Onward(vm, vm')
  PROVE  Moves(vm, vm', t) /\ Names(vm, vm')
BY DEF Onward, Moves, Names

\* Nobody dies but those who give up all they hold.
NoDeath(s, r) == \A t \in Thread : r.state[t] = "DEAD" => s.state[t] = "DEAD"

GivesAllUp(s, r, t) ==
  r.halt = "no" => \A m \in Elems(s.held[t]) : LockReleased(s, r, m)

DeathStep ==
  \A t \in Thread : vm.state[t] # "DEAD" /\ vm'.state[t] = "DEAD"
                       => GivesAllUp(vm, vm', t)

\* Termination: the locks of one thread are released, and it alone dies.
LEMMA TerminateLocks ==
  ASSUME CallInv, Unowned, NEW u, u # NULL, NEW i, u = Target(i), NEW t,
         vm' = Scheduler(Terminate(vm, u))
  PROVE  Moves(vm, vm', t) /\ Names(vm, vm') /\ LockStep /\ DeathStep
<1> DEFINE r == Terminate(vm, u)
           d == [vm EXCEPT !.state[u] = "DEAD"]
<1>1. u \in Thread \ {Idle} /\ KernelInv(vm, NULL) /\ vm \in VMState
  BY TargetType, Running DEF CallInv, VMInv
<1>2. KernelInv(r, NULL)
  BY <1>1, TerminateInv
<1>3. /\ Onward(d, r)
      /\ \A m \in Mutex : \/ LockKept(vm, r, m)
                          \/ vm.owner[m] = u /\ LockReleased(vm, r, m)
      /\ GivesAllUp(vm, r, u)
  BY <1>1, TerminateOnward DEF GivesAllUp
<1>4. /\ d.threads = vm.threads /\ d.mutexes = vm.mutexes /\ d.id = vm.id
      /\ d.nextID = vm.nextID /\ d.held = vm.held /\ d.QTex = vm.QTex
      /\ d.state = [vm.state EXCEPT ![u] = "DEAD"]
  BY <1>1 DEF VMState
<1> HIDE DEF r, d
<1>5. Onward(r, vm') /\ vm'.owner = r.owner /\ vm'.QTex = r.QTex
  <2>1. vm' = Scheduler(r)
    BY DEF r
  <2> QED BY <2>1, <1>2, SchedulerOnward
<1>6. Onward(d, vm')
  BY <1>3, <1>5, OnwardTwice
<1>7. \A w \in Thread : /\ d.state[w] = "WAITING" => vm.state[w] = "WAITING"
                       /\ w # u /\ d.state[w] = "DEAD" => vm.state[w] = "DEAD"
  BY <1>1, <1>4 DEF VMState
<1>8. Moves(vm, vm', t) /\ Names(vm, vm')
  BY <1>4, <1>6, <1>7 DEF Onward, Moves, Names
<1>9. \A m : /\ LockKept(vm, r, m) => LockKept(vm, vm', m)
             /\ LockReleased(vm, r, m) => LockReleased(vm, vm', m)
  BY <1>5 DEF LockKept, LockReleased
<1>10. \A m \in Mutex : \/ LockKept(vm, vm', m)
                        \/ vm.owner[m] = u /\ LockReleased(vm, vm', m)
  BY <1>3, <1>9
<1>11. GivesAllUp(vm, vm', u)
  <2>1. vm'.halt = "no" => r.halt = "no"
    BY <1>5 DEF Onward
  <2> QED BY <1>3, <1>9, <2>1 DEF GivesAllUp
<1>12. DeathStep
  <2>1. \A w \in Thread : w # u /\ vm'.state[w] = "DEAD" => vm.state[w] = "DEAD"
    BY <1>6, <1>7 DEF Onward
  <2> QED BY <1>11, <2>1 DEF DeathStep
<1>13. Lock!Termination
  <2>1. \A m \in Mutex : \/ Lock!Keep(m)
                         \/ vm.owner[m] = u /\ Lock!Release(m)
    BY <1>10 DEF LockKept, LockReleased, Lock!Keep, Lock!Release, Lock!Free, Lock!HandOver
  <2> QED BY <1>1, <2>1 DEF Lock!Termination
<1>14. Unowned'
  BY <1>4, <1>6, <1>10 DEF Unowned, LockKept, LockReleased, Onward
<1> QED BY <1>8, <1>12, <1>13, <1>14 DEF LockStep, Lock!Next

\* The calls of threads but the creation of one.
LEMMA ThreadCallLocks ==
  ASSUME CallInv, Unowned, NEW t \in Thread, ThreadCall(t), ~ CreateStore(t)
  PROVE  Moves(vm, vm', t) /\ Names(vm, vm') /\ LockStep
<1>1. KernelInv(vm, NULL) /\ vm \in VMState
  BY Running DEF CallInv, VMInv
<1>2. ASSUME NEW s, KernelInv(s, NULL), vm' = Scheduler(s), s.owner = vm.owner,
             s.QTex = vm.QTex, s.mutexes = vm.mutexes, Names(vm, s), Moves(vm, s, t)
      PROVE  Moves(vm, vm', t) /\ Names(vm, vm') /\ LockStep
  <2>1. Onward(s, vm') /\ vm'.owner = s.owner /\ vm'.QTex = s.QTex
    BY <1>2, SchedulerOnward
  <2>2. Moves(vm, vm', t) /\ Names(vm, vm') /\ vm'.mutexes = vm.mutexes
    BY <1>2, <2>1 DEF Moves, Names, Onward
  <2> QED BY <1>2, <2>1, <2>2, NoLockStep
<1>3. Moves(vm, vm, t) /\ Names(vm, vm)
  BY DEF Moves, Names
<1>4. ASSUME vm'.owner = vm.owner, vm'.QTex = vm.QTex, vm'.mutexes = vm.mutexes,
             vm'.id = vm.id, vm'.nextID = vm.nextID, vm'.held = vm.held,
             Elems(vm'.threads) \subseteq Elems(vm.threads),
             \A u \in Thread : vm'.state[u] = "WAITING" => vm.state[u] = "WAITING"
      PROVE  Moves(vm, vm', t) /\ Names(vm, vm') /\ LockStep
  <2>1. Moves(vm, vm', t) /\ Names(vm, vm')
    BY <1>4 DEF Moves, Names
  <2> QED BY <1>4, <2>1, NoLockStep
<1>5. CASE CreateAllocate(t) \/ CreateRetry(t)
  BY <1>1, <1>2, <1>3, <1>5 DEF CreateAllocate, CreateRetry
<1>6. CASE CreateSkipsLoop(t) \/ BootReturn(t)
  BY <1>1, <1>4, <1>6 DEF CreateSkipsLoop, BootReturn, Undefined, VMState
<1>7. CASE CreateReadID(t) \/ CreateLoadNext(t) \/ SleepReturn(t)
  BY <1>4, <1>7 DEF CreateReadID, CreateLoadNext, SleepReturn
<1>8. CASE Activate(t)
  <2>1. PICK i \in GivenID :
          /\ Target(i) # NULL
          /\ vm' = PushReady([vm EXCEPT !.state[Target(i)] = "READY"], Target(i))
    BY <1>8 DEF Activate
  <2>2. Target(i) \in Thread
    BY <2>1, TargetType DEF CallInv
  <2>3. Onward(vm, vm') /\ vm'.owner = vm.owner /\ vm'.QTex = vm.QTex
    BY <1>1, <2>1, <2>2, PushOnward
  <2>4. vm'.mutexes = vm.mutexes
    BY <2>3 DEF Onward
  <2> QED BY <2>3, <2>4, OnwardMoves, NoLockStep
<1>9. CASE ThreadTerminate(t)
  <2>1. PICK i \in GivenID : Target(i) # NULL /\ vm' = Scheduler(Terminate(vm, Target(i)))
    BY <1>9 DEF ThreadTerminate
  <2> QED BY <2>1, TerminateLocks
<1>10. CASE ThreadDelete(t)
  <2>1. PICK u : \/ vm' = [vm EXCEPT !.threads = Without(@, u), !.freed = @ \cup {u}]
                 \/ vm' = Undefined(vm)
    BY <1>10 DEF ThreadDelete
  <2>2. Elems(Without(vm.threads, u)) = Elems(vm.threads) \ {u}
    BY <1>1, WithoutElems DEF VMState
  <2> QED BY <1>1, <1>4, <2>1, <2>2 DEF Undefined, VMState
<1>11. CASE EntryReturn(t)
  <2>1. CASE vm' = vm
    BY <1>4, <2>1
  <2>2. CASE vm' # vm
    <3>1. Target(vm.id[t]) # NULL /\ vm' = Scheduler(Terminate(vm, Target(vm.id[t])))
      BY <1>11, <2>2 DEF EntryReturn
    <3> QED BY <3>1, TerminateLocks
  <2> QED BY <2>1, <2>2
<1>12. CASE Sleep(t)
  <2>1. PICK n \in SleepTicks : vm' = Scheduler(Block(vm, t, n))
    BY <1>12 DEF Sleep
  <2>2. t \in Thread \ {Idle} /\ vm.tr = t
    BY <1>12, Caller DEF Sleep
  <2>3. n \in Nat /\ vm.state[t] \notin {"DEAD", "READY"}
    BY <2>2, CallAssumption DEF CallInv, VMInv
  <2> DEFINE b == Block(vm, t, n)
  <2>4. KernelInv(b, NULL)
    BY <1>1, <2>2, <2>3, BlockInv
  <2>5. /\ b.owner = vm.owner /\ b.QTex = vm.QTex /\ b.mutexes = vm.mutexes
        /\ b.id = vm.id /\ b.nextID = vm.nextID /\ b.threads = vm.threads
        /\ b.held = vm.held /\ b.state = [vm.state EXCEPT ![t] = "WAITING"]
    BY <1>1 DEF Block, VMState
  <2> HIDE DEF b
  <2>6. \A u \in Thread \ {t} : b.state[u] = vm.state[u]
    BY <1>1, <2>5 DEF VMState
  <2>7. Names(vm, b) /\ Moves(vm, b, t)
    BY <2>5, <2>6 DEF Names, Moves
  <2>8. vm' = Scheduler(b)
    BY <2>1 DEF b
  <2> QED BY <1>2, <2>4, <2>5, <2>7, <2>8
<1>13. CASE Yield(t)
  <2> DEFINE b == PushReady([vm EXCEPT !.state[t] = "READY"], t)
  <2>1. vm.tr = t
    BY <1>13, Caller DEF Yield
  <2>2. t \in Elems(vm.threads) /\ t # NULL /\ NULL \in Thread \cup {NULL}
    BY <2>1, Running DEF CallInv
  <2>3. KernelInv(b, NULL)
    BY <1>1, <2>2, PushInv
  <2>4. Onward(vm, b) /\ b.owner = vm.owner /\ b.QTex = vm.QTex
    BY <1>1, PushOnward
  <2>5. vm' = Scheduler(b)
    BY <1>13 DEF Yield
  <2> HIDE DEF b
  <2>6. Names(vm, b) /\ Moves(vm, b, t) /\ b.mutexes = vm.mutexes
    BY <2>4 DEF Onward, Names, Moves
  <2> QED BY <1>2, <2>3, <2>4, <2>5, <2>6
<1> QED BY <1>5, <1>6, <1>7, <1>8, <1>9, <1>10, <1>11, <1>12, <1>13 DEF ThreadCall, Create

\* The constructor of Thread: nobody waits that did not, and no lock changes.
LEMMA CreateStoreLocks ==
  ASSUME CallInv, Unowned, NEW t \in Thread, CreateStore(t)
  PROVE  Moves(vm, vm', t) /\ LockStep
<1>1. PICK u \in Unborn, p \in AppPriority :
        /\ vm' = [vm EXCEPT !.nextID = frame[t].next, !.threads = Append(@, u),
                            !.id[u] = frame[t].id, !.state[u] = "DEAD",
                            !.prio[u] = p, !.ticks[u] = -1, !.held[u] = << >>,
                            !.waiting[u] = NULL]
        /\ pc' = [pc EXCEPT ![t] = "app", ![u] = "app"]
  BY ZenonT(40) DEF CreateStore
<1>2. vm \in VMState
  BY Running DEF CallInv
<1>3. /\ vm'.state = [vm.state EXCEPT ![u] = "DEAD"]
      /\ vm'.held = [vm.held EXCEPT ![u] = << >>]
      /\ vm'.mutexes = vm.mutexes /\ vm'.owner = vm.owner /\ vm'.QTex = vm.QTex
  BY <1>1, <1>2 DEF VMState
<1>4. \A w \in Thread : vm'.state[w] = "WAITING"
                          => vm.state[w] = "WAITING" /\ vm'.held[w] = vm.held[w]
  BY <1>2, <1>3 DEF VMState
<1>5. Moves(vm, vm', t)
  BY <1>3, <1>4 DEF Moves
<1> QED BY <1>3, <1>5, NoLockStep

\* Thread::acquireMutex, by the running thread, in the terms of MutexSpec.
LEMMA AcquireLocks ==
  ASSUME CallInv, Unowned, NEW t \in Thread, vm.tr = t, NEW m \in vm.mutexes,
         NEW n, LET r == AcquireMutex(vm, t, m, n) IN
                /\ vm'.owner = r.owner /\ vm'.QTex = r.QTex
                /\ vm'.mutexes = r.mutexes
  PROVE  LockStep
<1> DEFINE r == AcquireMutex(vm, t, m, n)
<1>1. KernelInv(vm, NULL) /\ vm \in VMState /\ m \in Mutex /\ vm.state[t] # "WAITING"
  BY Running DEF CallInv, VMInv, VMState
<1>2. /\ Onward(vm, r)
      /\ \A k \in Mutex : k # m => LockKept(vm, r, k)
      /\ \/ LockKept(vm, r, m) \/ LockTaken(vm, r, m, t)
         \/ LockQueued(vm, r, m, t)
  BY <1>1, AcquireOnward
<1>3. vm'.owner = r.owner /\ vm'.QTex = r.QTex /\ vm'.mutexes = r.mutexes
  OBVIOUS
<1>4. KernelInv(r, NULL)
  BY <1>1, AcquireInv, Running DEF CallInv
<1> HIDE DEF r
<1>5. Unowned'
  BY <1>2, <1>3 DEF Unowned, LockKept, Onward
<1>6. \A k \in Mutex \ {m} : Lock!Keep(k)
  BY <1>2, <1>3 DEF LockKept, Lock!Keep
<1>7. CASE LockKept(vm, r, m)
  <2>1. vm'.owner = vm.owner /\ vm'.QTex = vm.QTex
    <3>1. r \in VMState
      BY <1>4 DEF KernelInv, Typed
    <3>2. \A k \in Mutex : r.owner[k] = vm.owner[k] /\ r.QTex[k] = vm.QTex[k]
      BY <1>2, <1>7 DEF LockKept
    <3>3. r.owner \in [Mutex -> Thread \cup {NULL}] /\ vm.owner \in [Mutex -> Thread \cup {NULL}]
      BY <1>1, <3>1 DEF VMState
    <3>4. r.QTex \in [Mutex -> Seq(Thread)] /\ vm.QTex \in [Mutex -> Seq(Thread)]
      BY <1>1, <3>1 DEF VMState
    <3>5. r.owner = vm.owner
      BY <3>2, <3>3
    <3>6. r.QTex = vm.QTex
      BY <3>2, <3>4
    <3> QED BY <1>3, <3>5, <3>6
  <2> QED BY <1>5, <2>1 DEF LockStep, Lock!vars
<1>8. CASE LockTaken(vm, r, m, t)
  <2>1. Lock!Take(m)
    BY <1>3, <1>8 DEF LockTaken, Lock!Take
  <2> QED BY <1>1, <1>5, <1>6, <2>1 DEF LockStep, Lock!Next, Lock!OneLock
<1>9. CASE LockQueued(vm, r, m, t)
  <2>1. \A i \in DOMAIN vm.QTex[m] : vm.QTex[m][i] # t
    BY <1>9 DEF LockQueued, Elems
  <2>2. Lock!Enqueue(m)
    BY <1>3, <1>9, <2>1 DEF LockQueued, Lock!Enqueue
  <2> QED BY <1>1, <1>5, <1>6, <2>2 DEF LockStep, Lock!Next, Lock!OneLock
<1> QED BY <1>2, <1>7, <1>8, <1>9

\* The calls on mutexes.
LEMMA MutexCallLocks ==
  ASSUME CallInv, Unowned, NEW t \in Thread, MutexCall(t)
  PROVE  Moves(vm, vm', t) /\ Names(vm, vm') /\ LockStep
<1>1. KernelInv(vm, NULL) /\ vm \in VMState
  BY Running DEF CallInv, VMInv
<1>2. ASSUME vm.tr = t PROVE vm.state[t] \notin {"DEAD", "READY", "WAITING"}
  BY <1>2, Running DEF CallInv
<1>3. CASE MutexCreate(t)
  <2>1. PICK m \in Mutex \ (vm.mutexes \cup vm.freed) :
          vm' = [vm EXCEPT !.mutexes = @ \cup {m}, !.owner[m] = NULL, !.QTex[m] = << >>]
    BY <1>3 DEF MutexCreate
  <2>2. vm.owner[m] = NULL /\ vm.QTex[m] = << >>
    BY <1>1, <2>1 DEF Unowned, KernelInv, MutexInv, FreeUnqueued
  <2>3. /\ vm'.owner = [vm.owner EXCEPT ![m] = NULL]
        /\ vm'.QTex = [vm.QTex EXCEPT ![m] = << >>]
        /\ vm'.mutexes = vm.mutexes \cup {m}
        /\ vm'.state = vm.state /\ vm'.held = vm.held /\ vm'.id = vm.id
        /\ vm'.nextID = vm.nextID /\ vm'.threads = vm.threads
    BY <1>1, <2>1 DEF VMState
  <2>4. vm'.owner = vm.owner
    BY <1>1, <2>2, <2>3 DEF VMState
  <2>5. vm'.QTex = vm.QTex
    BY <1>1, <2>2, <2>3 DEF VMState
  <2>6. Unowned'
    BY <2>3, <2>4 DEF Unowned
  <2>7. Moves(vm, vm', t) /\ Names(vm, vm')
    BY <2>3, <2>5 DEF Moves, Names
  <2> QED BY <2>4, <2>5, <2>6, <2>7 DEF LockStep, Lock!vars
<1>4. CASE TryAcquire(t) \/ AcquireFree(t)
  <2>1. vm.tr = t
    BY <1>4, Caller DEF TryAcquire, AcquireFree
  <2>2. PICK m \in vm.mutexes : \E n : vm' = AcquireMutex(vm, t, m, n)
    BY <1>4 DEF TryAcquire, AcquireFree
  <2>3. m \in Mutex
    BY <1>1 DEF VMState
  <2>4. Onward(vm, vm')
    BY <1>1, <1>2, <2>1, <2>2, <2>3, AcquireOnward
  <2>5. LockStep
    BY <2>1, <2>2, AcquireLocks
  <2> QED BY <2>4, <2>5, OnwardMoves
<1>5. CASE AcquireBlock(t)
  <2>1. t \in Thread \ {Idle} /\ vm.tr = t
    BY <1>5, Caller DEF AcquireBlock
  <2>2. PICK m \in vm.mutexes, n \in SleepTicks \cup {VM_TIMEOUT_INFINITE} :
          vm' = Scheduler(Block(AcquireMutex(vm, t, m, n), t, n))
    BY <1>5 DEF AcquireBlock
  <2> DEFINE r == AcquireMutex(vm, t, m, n)
             b == Block(r, t, n)
  <2>3. m \in Mutex
    BY <1>1 DEF VMState
  <2>4. KernelInv(r, NULL) /\ r.state = vm.state
    BY <1>1, <2>1, <2>2, Running, AcquireInv DEF CallInv
  <2>5. Onward(vm, r)
    BY <1>1, <1>2, <2>1, <2>3, AcquireOnward
  <2>6. n \in Nat
    <3>1. SleepTicks \cup {0} \subseteq Nat
      BY CallAssumption
    <3> QED BY <3>1 DEF VM_TIMEOUT_INFINITE
  <2> HIDE DEF r
  <2>7. r.state[t] \notin {"DEAD", "READY"} /\ r \in VMState
    BY <1>2, <2>1, <2>4 DEF KernelInv, Typed
  <2>8. KernelInv(b, NULL)
    BY <2>1, <2>4, <2>6, <2>7, BlockInv
  <2>9. /\ b.owner = r.owner /\ b.QTex = r.QTex /\ b.mutexes = r.mutexes
        /\ b.id = r.id /\ b.nextID = r.nextID /\ b.threads = r.threads
        /\ b.held = r.held /\ b.state = [r.state EXCEPT ![t] = "WAITING"]
    BY <2>7 DEF Block, VMState
  <2> HIDE DEF b
  <2>10. vm' = Scheduler(b)
    BY <2>2 DEF b, r
  <2>11. Onward(b, vm') /\ vm'.owner = b.owner /\ vm'.QTex = b.QTex
    BY <2>8, <2>10, SchedulerOnward
  <2>12. \A u \in Thread \ {t} : b.state[u] = r.state[u]
    BY <2>7, <2>9 DEF VMState
  <2>13. Moves(vm, b, t) /\ Names(vm, b)
    BY <2>5, <2>9, <2>12 DEF Onward, Moves, Names
  <2>14. Moves(vm, vm', t) /\ Names(vm, vm') /\ vm'.mutexes = r.mutexes
    BY <2>9, <2>11, <2>13 DEF Onward, Moves, Names
  <2>15. LockStep
    BY <2>1, <2>9, <2>11, <2>14, AcquireLocks DEF r
  <2> QED BY <2>14, <2>15
<1>6. CASE AcquireReturn(t)
  <2>1. vm' = vm
    BY <1>6 DEF AcquireReturn
  <2> QED BY <2>1, NoLockStep DEF Moves, Names
<1>7. CASE MutexRelease(t)
  <2>1. PICK m \in vm.mutexes \cap Elems(vm.held[t]) : vm' = Scheduler(ReleaseMutex(vm, t, m))
    BY <1>7 DEF MutexRelease
  <2> DEFINE r == ReleaseMutex(vm, t, m)
  <2>2. vm.tr = t /\ m \in Mutex
    BY <1>1, <1>7, <2>1, Caller DEF MutexRelease, VMState
  <2>3. /\ Onward(vm, r)
        /\ \A n \in Mutex : n # m => LockKept(vm, r, n)
        /\ LockKept(vm, r, m) \/ LockReleased(vm, r, m)
    BY <1>1, <1>2, <2>1, <2>2, ReleaseMutexOnward
  <2>4. KernelInv(r, NULL)
    BY <1>1, <2>1, ReleaseMutexInv
  <2> HIDE DEF r
  <2>5. Onward(r, vm') /\ vm'.owner = r.owner /\ vm'.QTex = r.QTex
    BY <2>1, <2>4, SchedulerOnward DEF r
  <2>6. Onward(vm, vm')
    BY <2>3, <2>5, OnwardTwice
  <2>7. Unowned'
    BY <2>3, <2>5, <2>6 DEF Unowned, LockKept, LockReleased, Onward
  <2>8. \A n \in Mutex \ {m} : Lock!Keep(n)
    BY <2>3, <2>5 DEF LockKept, Lock!Keep
  <2>9. CASE LockKept(vm, r, m)
    <3>1. Lock!Termination
      BY <2>5, <2>8, <2>9 DEF LockKept, Lock!Keep, Lock!Termination
    <3> QED BY <2>6, <2>7, <3>1, OnwardMoves DEF LockStep, Lock!Next
  <2>10. CASE LockReleased(vm, r, m)
    <3>1. Lock!Release(m)
      BY <2>5, <2>10 DEF LockReleased, Lock!Release, Lock!Free, Lock!HandOver
    <3> QED BY <2>2, <2>6, <2>7, <2>8, <3>1, OnwardMoves DEF LockStep, Lock!Next, Lock!OneLock
  <2> QED BY <2>3, <2>9, <2>10
<1>8. CASE MutexDelete(t)
  <2>1. PICK m \in vm.mutexes :
          /\ vm.owner[m] = NULL
          /\ vm' = [vm EXCEPT !.mutexes = @ \ {m}, !.freed = @ \cup {m}]
    BY <1>8 DEF MutexDelete
  <2>2. /\ vm'.owner = vm.owner /\ vm'.QTex = vm.QTex
        /\ vm'.mutexes = vm.mutexes \ {m}
        /\ vm'.state = vm.state /\ vm'.held = vm.held /\ vm'.id = vm.id
        /\ vm'.nextID = vm.nextID /\ vm'.threads = vm.threads
    BY <1>1, <2>1 DEF VMState
  <2>3. Unowned'
    BY <2>1, <2>2 DEF Unowned
  <2>4. Moves(vm, vm', t) /\ Names(vm, vm')
    BY <2>2 DEF Moves, Names
  <2> QED BY <2>2, <2>3, <2>4 DEF LockStep, Lock!vars
<1>9. CASE MutexDeleteUnknown(t)
  <2>1. vm' = Undefined(vm)
    BY <1>9 DEF MutexDeleteUnknown
  <2>2. /\ vm'.owner = vm.owner /\ vm'.QTex = vm.QTex /\ vm'.mutexes = vm.mutexes
        /\ vm'.state = vm.state /\ vm'.held = vm.held /\ vm'.id = vm.id
        /\ vm'.nextID = vm.nextID /\ vm'.threads = vm.threads
    BY <1>1, <2>1 DEF Undefined, VMState
  <2> QED BY <2>2, NoLockStep DEF Moves, Names
<1> QED BY <1>3, <1>4, <1>5, <1>6, <1>7, <1>8, <1>9 DEF MutexCall

\* The timer interrupt.
LEMMA TimerLocks ==
  ASSUME KernelInv(vm, NULL), Unowned, TimerISR
  PROVE  Onward(vm, vm') /\ LockStep
<1> DEFINE r == TimerTick(vm)
<1>1. vm' = Scheduler(r)
  BY DEF TimerISR
<1>2. KernelInv(r, NULL)
  BY <1>1, TimerTickInv
<1>3. Onward(vm, r) /\ \A m \in Mutex : LockThinned(vm, r, m)
  BY <1>1, TimerTickOnward
<1> HIDE DEF r
<1>4. Onward(r, vm') /\ vm'.owner = r.owner /\ vm'.QTex = r.QTex
  BY <1>1, <1>2, SchedulerOnward
<1>5. Onward(vm, vm')
  BY <1>3, <1>4, OnwardTwice
<1>6. Lock!TimeOuts
  <2>1. \A m \in Mutex : Lock!Withdraw(m)
    BY <1>3, <1>4 DEF LockThinned, Thinned, Lock!Withdraw, Lock!Thinned
  <2> QED BY <2>1 DEF Lock!TimeOuts
<1>7. Unowned'
  BY <1>3, <1>4, <1>5 DEF Unowned, LockThinned, Onward
<1> QED BY <1>5, <1>6, <1>7 DEF LockStep, Lock!Next

\* Every step does to owners and queues what MutexSpec allows.
LEMMA NextLocks ==
  ASSUME IInv, Unowned, [Next]_vars
  PROVE  LockStep
<1>1. ASSUME NEW t \in Thread, ThreadCall(t) \/ MutexCall(t) PROVE LockStep
  BY <1>1, ThreadCallLocks, CreateStoreLocks, MutexCallLocks DEF IInv
<1>2. CASE TimerISR
  BY <1>2, TimerLocks DEF IInv, CallInv, VMInv
<1>3. CASE Halted \/ UNCHANGED vars
  BY <1>3, NoLockStep DEF Halted, vars
<1> QED BY <1>1, <1>2, <1>3 DEF Next

\* VMStart makes no mutex.
LEMMA InitLocks ==
  ASSUME Init
  PROVE  Unowned /\ Lock!Init
BY DEF Init, Unowned, Lock!Init

\* The mutexes are first-come first-served locks.
THEOREM MutexesAreLocks == Spec => ImplementsMutexSpec
<1>1. Init => Unowned /\ Lock!Init
  BY InitLocks
<1>2. IInv /\ Unowned /\ [Next]_vars => LockStep
  BY NextLocks
<1>3. LockStep => Unowned' /\ [Lock!Next]_(Lock!vars)
  BY DEF LockStep
<1> QED BY <1>1, <1>2, <1>3, Invariance, PTL DEF Spec, ImplementsMutexSpec, Lock!Spec

-----------------------------------------------------------------------------
(* Termination                                                             *)

\* A call that ends in scheduler() kills nobody if its own part does not.
LEMMA SwitchDeaths ==
  ASSUME NEW s, KernelInv(s, NULL), NoDeath(vm, s), vm' = Scheduler(s)
  PROVE  DeathStep
BY SchedulerOnward DEF Onward, NoDeath, DeathStep

\* The calls of threads.
LEMMA ThreadCallDeaths ==
  ASSUME CallInv, Unowned, NEW t \in Thread, ThreadCall(t)
  PROVE  DeathStep
<1>1. KernelInv(vm, NULL) /\ vm \in VMState
  BY Running DEF CallInv, VMInv
<1>2. ASSUME vm'.state = vm.state PROVE DeathStep
  BY <1>2 DEF DeathStep
<1>3. CASE CreateAllocate(t) \/ CreateRetry(t)
  BY <1>1, <1>3, SwitchDeaths DEF CreateAllocate, CreateRetry, NoDeath
<1>4. CASE CreateSkipsLoop(t) \/ BootReturn(t)
  BY <1>1, <1>2, <1>4 DEF CreateSkipsLoop, BootReturn, Undefined, VMState
<1>5. CASE CreateReadID(t) \/ CreateLoadNext(t) \/ SleepReturn(t)
  BY <1>2, <1>5 DEF CreateReadID, CreateLoadNext, SleepReturn
<1>6. CASE CreateStore(t)
  <2>1. PICK u \in Unborn, p \in AppPriority :
          vm' = [vm EXCEPT !.nextID = frame[t].next, !.threads = Append(@, u),
                           !.id[u] = frame[t].id, !.state[u] = "DEAD",
                           !.prio[u] = p, !.ticks[u] = -1, !.held[u] = << >>,
                           !.waiting[u] = NULL]
    BY <1>6, ZenonT(40) DEF CreateStore
  <2>2. u \in Thread /\ vm.state[u] = "DEAD"
    BY <1>1 DEF Unborn, Thread, KernelInv, Registered
  <2>3. vm'.state = [vm.state EXCEPT ![u] = "DEAD"]
    BY <1>1, <2>1 DEF VMState
  <2> QED BY <1>1, <2>2, <2>3 DEF DeathStep, VMState
<1>7. CASE Activate(t)
  <2>1. PICK i \in GivenID :
          /\ Target(i) # NULL
          /\ vm' = PushReady([vm EXCEPT !.state[Target(i)] = "READY"], Target(i))
    BY <1>7 DEF Activate
  <2>2. Target(i) \in Thread
    BY <2>1, TargetType DEF CallInv
  <2>3. Onward(vm, vm')
    BY <1>1, <2>1, <2>2, PushOnward
  <2> QED BY <2>3 DEF Onward, DeathStep
<1>8. CASE ThreadTerminate(t)
  <2>1. PICK i \in GivenID : Target(i) # NULL /\ vm' = Scheduler(Terminate(vm, Target(i)))
    BY <1>8 DEF ThreadTerminate
  <2> QED BY <2>1, TerminateLocks
<1>9. CASE ThreadDelete(t)
  <2>1. vm'.state = vm.state
    BY <1>1, <1>9 DEF ThreadDelete, Undefined, VMState
  <2> QED BY <1>2, <2>1
<1>10. CASE EntryReturn(t)
  <2>1. CASE vm' = vm
    BY <1>2, <2>1
  <2>2. CASE vm' # vm
    <3>1. Target(vm.id[t]) # NULL /\ vm' = Scheduler(Terminate(vm, Target(vm.id[t])))
      BY <1>10, <2>2 DEF EntryReturn
    <3> QED BY <3>1, TerminateLocks
  <2> QED BY <2>1, <2>2
<1>11. CASE Sleep(t)
  <2>1. PICK n \in SleepTicks : vm' = Scheduler(Block(vm, t, n))
    BY <1>11 DEF Sleep
  <2>2. t \in Thread \ {Idle} /\ vm.tr = t
    BY <1>11, Caller DEF Sleep
  <2>3. n \in Nat /\ vm.state[t] \notin {"DEAD", "READY"}
    BY <2>2, CallAssumption DEF CallInv, VMInv
  <2>4. KernelInv(Block(vm, t, n), NULL) /\ NoDeath(vm, Block(vm, t, n))
    BY <1>1, <2>2, <2>3, BlockInv DEF Block, NoDeath, VMState
  <2> QED BY <2>1, <2>4, SwitchDeaths
<1>12. CASE Yield(t)
  <2> DEFINE b == PushReady([vm EXCEPT !.state[t] = "READY"], t)
  <2>1. vm.tr = t
    BY <1>12, Caller DEF Yield
  <2>2. t \in Elems(vm.threads) /\ t # NULL /\ NULL \in Thread \cup {NULL}
    BY <2>1, Running DEF CallInv
  <2>3. KernelInv(b, NULL)
    BY <1>1, <2>2, PushInv
  <2>4. Onward(vm, b)
    BY <1>1, PushOnward
  <2>5. vm' = Scheduler(b)
    BY <1>12 DEF Yield
  <2> HIDE DEF b
  <2> QED BY <2>3, <2>4, <2>5, SwitchDeaths DEF Onward, NoDeath
<1> QED BY <1>3, <1>4, <1>5, <1>6, <1>7, <1>8, <1>9, <1>10, <1>11, <1>12 DEF ThreadCall, Create

\* The calls on mutexes.
LEMMA MutexCallDeaths ==
  ASSUME CallInv, NEW t \in Thread, MutexCall(t)
  PROVE  DeathStep
<1>1. KernelInv(vm, NULL) /\ vm \in VMState
  BY Running DEF CallInv, VMInv
<1>2. ASSUME vm'.state = vm.state PROVE DeathStep
  BY <1>2 DEF DeathStep
<1>3. ASSUME vm.tr = t PROVE vm.state[t] \notin {"DEAD", "READY", "WAITING"}
  BY <1>3, Running DEF CallInv
<1>4. CASE MutexCreate(t) \/ AcquireReturn(t) \/ MutexDelete(t) \/ MutexDeleteUnknown(t)
  <2>1. vm'.state = vm.state
    BY <1>1, <1>4 DEF MutexCreate, AcquireReturn, MutexDelete, MutexDeleteUnknown, Undefined, VMState
  <2> QED BY <1>2, <2>1
<1>5. CASE TryAcquire(t) \/ AcquireFree(t)
  <2>1. vm.tr = t
    BY <1>5, Caller DEF TryAcquire, AcquireFree
  <2>2. PICK m \in vm.mutexes : \E n : vm' = AcquireMutex(vm, t, m, n)
    BY <1>5 DEF TryAcquire, AcquireFree
  <2>3. m \in Mutex
    BY <1>1 DEF VMState
  <2> QED BY <1>1, <1>2, <1>3, <2>1, <2>2, <2>3, AcquireOnward
<1>6. CASE AcquireBlock(t)
  <2>1. t \in Thread \ {Idle} /\ vm.tr = t
    BY <1>6, Caller DEF AcquireBlock
  <2>2. PICK m \in vm.mutexes, n \in SleepTicks \cup {VM_TIMEOUT_INFINITE} :
          vm' = Scheduler(Block(AcquireMutex(vm, t, m, n), t, n))
    BY <1>6 DEF AcquireBlock
  <2> DEFINE r == AcquireMutex(vm, t, m, n)
             b == Block(r, t, n)
  <2>3. KernelInv(r, NULL) /\ r.state = vm.state
    BY <1>1, <2>1, <2>2, Running, AcquireInv DEF CallInv
  <2>4. n \in Nat
    <3>1. SleepTicks \cup {0} \subseteq Nat
      BY CallAssumption
    <3> QED BY <3>1 DEF VM_TIMEOUT_INFINITE
  <2> HIDE DEF r
  <2>5. r.state[t] \notin {"DEAD", "READY"} /\ r \in VMState
    BY <1>3, <2>1, <2>3 DEF KernelInv, Typed
  <2>6. KernelInv(b, NULL)
    BY <2>1, <2>3, <2>4, <2>5, BlockInv
  <2>7. NoDeath(vm, b)
    BY <2>3, <2>5 DEF Block, NoDeath, VMState
  <2> QED BY <2>2, <2>6, <2>7, SwitchDeaths DEF r
<1>7. CASE MutexRelease(t)
  <2>1. PICK m \in vm.mutexes \cap Elems(vm.held[t]) : vm' = Scheduler(ReleaseMutex(vm, t, m))
    BY <1>7 DEF MutexRelease
  <2>2. vm.tr = t
    BY <1>7, Caller DEF MutexRelease
  <2>3. Onward(vm, ReleaseMutex(vm, t, m)) /\ KernelInv(ReleaseMutex(vm, t, m), NULL)
    BY <1>1, <1>3, <2>1, <2>2, ReleaseMutexOnward, ReleaseMutexInv
  <2> QED BY <2>1, <2>3, SwitchDeaths DEF Onward, NoDeath
<1> QED BY <1>4, <1>5, <1>6, <1>7 DEF MutexCall

\* Every step.
LEMMA NextDeaths ==
  ASSUME IInv, Unowned, [Next]_vars
  PROVE  DeathStep
<1>1. ASSUME NEW t \in Thread, ThreadCall(t) \/ MutexCall(t) PROVE DeathStep
  BY <1>1, ThreadCallDeaths, MutexCallDeaths DEF IInv
<1>2. CASE TimerISR
  BY <1>2, TimerLocks DEF IInv, CallInv, VMInv, Onward, DeathStep
<1>3. CASE Halted \/ UNCHANGED vars
  BY <1>3 DEF Halted, vars, DeathStep
<1> QED BY <1>1, <1>2, <1>3 DEF Next

\* A thread that is terminated, or returns, gives up all it holds.
THEOREM TerminationReleases == Spec => DeathReleases
<1> DEFINE A == \A t \in Thread :
                  /\ vm.state[t] # "DEAD"
                  /\ vm'.state[t] = "DEAD"
                  /\ vm'.halt = "no"
                  => \A m \in Elems(vm.held[t]) :
                       vm'.owner[m] = IF vm.QTex[m] = << >> THEN NULL
                                      ELSE Head(vm.QTex[m])
<1>1. DeathStep => A
  BY DEF DeathStep, GivesAllUp, LockReleased
<1>2. Init => Unowned
  BY InitLocks
<1>3. IInv /\ Unowned /\ [Next]_vars => DeathStep /\ Unowned'
  BY NextDeaths, NextLocks DEF LockStep
<1> QED BY <1>1, <1>2, <1>3, Invariance, PTL DEF Spec, DeathReleases

-----------------------------------------------------------------------------
(* Waiters                                                                 *)

\* Registered threads have identifiers of their own.
UniqueIDs ==
  \A t, u \in Elems(vm.threads) : vm.id[t] = vm.id[u] => t = u

QueuesDistinct == \A m \in Mutex : Distinct(vm.QTex[m])

AwaitsMutex == \A t \in Thread : pc[t] = "acquire" => frame[t].mtx \in Mutex

\* Whatever MutexSpec allows leaves the queues without duplicates.
LEMMA DistinctStep ==
  ASSUME IInv, IInv', QueuesDistinct, LockStep
  PROVE  QueuesDistinct'
<1>1. vm \in VMState /\ vm' \in VMState
  BY DEF IInv, CallInv, VMInv, KernelInv, Typed
<1>2. SUFFICES ASSUME NEW m \in Mutex PROVE Distinct(vm'.QTex[m])
  BY DEF QueuesDistinct
<1> DEFINE q == vm.QTex[m]
           r == vm'.QTex[m]
<1>3. q \in Seq(Thread) /\ r \in Seq(Thread) /\ Distinct(q)
  BY <1>1 DEF VMState, QueuesDistinct
<1>4. Distinct(<< >>)
  BY DEF Distinct
<1>5. CASE r = q
  BY <1>3, <1>5
<1>6. CASE Lock!Release(m)
  <2>1. r = << >> \/ (q # << >> /\ r = Tail(q))
    BY <1>6 DEF Lock!Release, Lock!Free, Lock!HandOver
  <2> HIDE DEF q, r
  <2>2. CASE q # << >> /\ r = Tail(q)
    <3>1. Len(r) = Len(q) - 1 /\ \A i \in 1 .. Len(r) : r[i] = q[i + 1]
      BY <1>3, <2>2, HeadTailProperties
    <3>2. DOMAIN r = 1 .. Len(r) /\ DOMAIN q = 1 .. Len(q) /\ Len(q) \in Nat /\ Len(r) \in Nat
      BY <1>3, LenProperties
    <3>3. ASSUME NEW i \in DOMAIN r, NEW j \in DOMAIN r, r[i] = r[j] PROVE i = j
      <4>1. i \in Nat /\ j \in Nat /\ i + 1 \in DOMAIN q /\ j + 1 \in DOMAIN q
        BY <3>1, <3>2
      <4>2. q[i + 1] = q[j + 1]
        BY <3>1, <3>2, <3>3
      <4>3. i + 1 = j + 1
        BY <1>3, <4>1, <4>2 DEF Distinct
      <4> QED BY <4>1, <4>3
    <3> QED BY <3>3 DEF Distinct, r
  <2> QED BY <1>4, <2>1, <2>2 DEF r
<1>7. CASE Lock!Take(m)
  BY <1>4, <1>7 DEF Lock!Take
<1>8. CASE Lock!Enqueue(m)
  <2>1. PICK t \in Thread : (\A i \in DOMAIN q : q[i] # t) /\ r = Append(q, t)
    BY <1>8 DEF Lock!Enqueue
  <2> HIDE DEF q, r
  <2>2. /\ DOMAIN r = 1 .. Len(q) + 1 /\ r[Len(q) + 1] = t
        /\ \A i \in 1 .. Len(q) : r[i] = q[i]
    BY <1>3, <2>1, AppendProperties
  <2>3. DOMAIN q = 1 .. Len(q) /\ Len(q) \in Nat
    BY <1>3, LenProperties
  <2>4. ASSUME NEW i \in DOMAIN r, NEW j \in DOMAIN r, r[i] = r[j] PROVE i = j
    <3>1. CASE i \in DOMAIN q /\ j \in DOMAIN q
      BY <3>1, <1>3, <2>2, <2>3, <2>4 DEF Distinct
    <3>2. CASE i \notin DOMAIN q /\ j \notin DOMAIN q
      BY <3>2, <2>2, <2>3
    <3>3. CASE i \in DOMAIN q /\ j \notin DOMAIN q
      <4>1. j = Len(q) + 1
        BY <3>3, <2>2, <2>3
      <4> QED BY <3>3, <4>1, <2>1, <2>2, <2>3, <2>4
    <3>4. CASE i \notin DOMAIN q /\ j \in DOMAIN q
      <4>1. i = Len(q) + 1
        BY <3>4, <2>2, <2>3
      <4> QED BY <3>4, <4>1, <2>1, <2>2, <2>3, <2>4
    <3> QED BY <3>1, <3>2, <3>3, <3>4
  <2> QED BY <2>4 DEF Distinct, r
<1>9. CASE Lock!Withdraw(m)
  <2>1. Thinned(q, r)
    BY <1>9 DEF Lock!Withdraw, Lock!Thinned, Thinned
  <2> QED BY <1>3, <2>1, ThinDistinct
<1>10. \/ r = q \/ Lock!Release(m) \/ Lock!Take(m) \/ Lock!Enqueue(m)
       \/ Lock!Withdraw(m)
  <2>1. CASE Lock!Next
    BY <2>1 DEF Lock!Next, Lock!OneLock, Lock!TimeOuts, Lock!Termination, Lock!Keep
  <2>2. CASE UNCHANGED Lock!vars
    BY <2>2 DEF Lock!vars
  <2> QED BY <2>1, <2>2 DEF LockStep
<1> QED BY <1>5, <1>6, <1>7, <1>8, <1>9, <1>10

\* Where the threads are in the code: only VMMutexAcquire leads a thread to
\* wait for a mutex, and no call moves another thread there.
LEMMA WaitingPlaces ==
  ASSUME IInv, NEW t \in Thread, ThreadCall(t) \/ MutexCall(t)
  PROVE  /\ vm.halt = "no"
         /\ pc'[t] = "acquire" => AcquireBlock(t)
         /\ \A u \in Thread \ {t} : pc'[u] = "acquire"
                                      => pc[u] = "acquire" /\ frame'[u] = frame[u]
<1>1. pc \in [Thread -> Location] /\ frame \in [Thread -> FrameType]
  BY DEF IInv, CallInv
<1>2. CASE Create(t)
  <2>1. CASE CreateStore(t)
    <3>1. PICK u \in Unborn : pc' = [pc EXCEPT ![t] = "app", ![u] = "app"]
      BY <2>1, ZenonT(40) DEF CreateStore
    <3>2. frame' = [frame EXCEPT ![t] = EmptyFrame]
      BY <2>1 DEF CreateStore
    <3>3. vm.halt = "no"
      BY <2>1 DEF CreateStore, At
    <3> QED BY <1>1, <3>1, <3>2, <3>3
  <2>2. CASE ~ CreateStore(t)
    BY <1>1, <1>2, <2>2 DEF Create, CreateAllocate, CreateSkipsLoop, CreateRetry,
         CreateReadID, CreateLoadNext, Calling, At
  <2> QED BY <2>1, <2>2
<1>3. CASE ThreadCall(t) /\ ~ Create(t)
  BY <1>1, <1>3 DEF ThreadCall, Activate, ThreadTerminate, ThreadDelete,
       EntryReturn, BootReturn, Sleep, SleepReturn, Yield, Calling, At
<1>4. CASE AcquireBlock(t)
  <2>1. PICK m \in vm.mutexes : frame' = [frame EXCEPT ![t].mtx = m]
    BY <1>4 DEF AcquireBlock
  <2>2. pc' = [pc EXCEPT ![t] = "acquire"] /\ vm.halt = "no"
    BY <1>4 DEF AcquireBlock, Calling, At
  <2> QED BY <1>1, <1>4, <2>1, <2>2
<1>5. CASE MutexCall(t) /\ ~ AcquireBlock(t)
  BY <1>1, <1>5 DEF MutexCall, MutexCreate, TryAcquire, AcquireFree,
       AcquireReturn, MutexRelease, MutexDelete, MutexDeleteUnknown, Calling, At
<1> QED BY <1>2, <1>3, <1>4, <1>5

\* VMMutexAcquire leaves a thread that waits in the queue it waits for.
LEMMA BlockedIsQueued ==
  ASSUME IInv, UniqueIDs, NEW t \in Thread, AcquireBlock(t), vm'.halt = "no",
         frame'[t].mtx \notin Elems(vm'.held[t]), vm'.state[t] = "WAITING"
  PROVE  frame'[t].mtx \in Mutex /\ t \in Elems(vm'.QTex[frame'[t].mtx])
<1>1. KernelInv(vm, NULL) /\ vm \in VMState /\ frame \in [Thread -> FrameType]
  BY Running DEF IInv, CallInv, VMInv
<1>2. t \in Thread \ {Idle} /\ vm.tr = t
  BY Caller DEF AcquireBlock
<1>3. /\ vm.state[t] \notin {"DEAD", "READY", "WAITING"}
      /\ t \in Elems(vm.threads)
  BY <1>2, Running DEF IInv, CallInv
<1>4. PICK m \in vm.mutexes, n \in SleepTicks \cup {VM_TIMEOUT_INFINITE} :
        /\ ~ Acquires(vm, t, m)
        /\ vm' = Scheduler(Block(AcquireMutex(vm, t, m, n), t, n))
        /\ frame' = [frame EXCEPT ![t].mtx = m]
  BY DEF AcquireBlock
<1> DEFINE r == AcquireMutex(vm, t, m, n)
           b == Block(r, t, n)
<1>5. m \in Mutex /\ frame'[t].mtx = m
  BY <1>1, <1>4 DEF VMState, FrameType
<1>6. n \in Nat
  <2>1. SleepTicks \cup {0} \subseteq Nat
    BY CallAssumption
  <2> QED BY <2>1 DEF VM_TIMEOUT_INFINITE
<1>7. KernelInv(r, NULL) /\ r.state = vm.state
  BY <1>1, <1>2, <1>4, Running, AcquireInv DEF IInv, CallInv
<1>8. Onward(vm, r)
  BY <1>1, <1>3, <1>5, AcquireOnward
<1>9. r.halt = "no" /\ m \notin Elems(vm.held[t])
        => /\ r.held = vm.held
           /\ \/ t \in Elems(r.QTex[m])
              \/ \E u \in Elems(vm.threads) : u \in Elems(r.QTex[m]) /\ vm.id[u] = vm.id[t]
  <2>1. n # VM_TIMEOUT_IMMEDIATE
    BY <1>6 DEF VM_TIMEOUT_IMMEDIATE
  <2> QED BY <1>1, <1>4, <1>5, <2>1, AcquireQueues
<1>10. m \in Elems(vm.held[t]) => r.held = vm.held
  <2> SUFFICES ASSUME m \in Elems(vm.held[t]) PROVE r.held = vm.held
    OBVIOUS
  <2>1. r = [vm EXCEPT !.waiting[t] = NULL]
    BY DEF AcquireMutex
  <2> QED BY <1>1, <2>1 DEF VMState
<1> HIDE DEF r
<1>11. r.state[t] \notin {"DEAD", "READY"} /\ r \in VMState
  BY <1>3, <1>7 DEF KernelInv, Typed
<1>12. KernelInv(b, NULL)
  BY <1>2, <1>6, <1>7, <1>11, BlockInv
<1>13. b.QTex = r.QTex /\ b.held = r.held /\ b.halt = r.halt
  BY <1>11 DEF Block, VMState
<1> HIDE DEF b
<1>14. vm' = Scheduler(b)
  BY <1>4 DEF b, r
<1>15. Onward(b, vm') /\ vm'.QTex = b.QTex
  BY <1>12, <1>14, SchedulerOnward
<1>16. r.halt = "no" /\ vm'.held[t] = r.held[t]
  BY <1>13, <1>15 DEF Onward
<1>17. m \notin Elems(vm.held[t])
  BY <1>5, <1>10, <1>16
<1>18. t \in Elems(r.QTex[m])
  BY <1>3, <1>9, <1>16, <1>17 DEF UniqueIDs
<1> QED BY <1>5, <1>13, <1>15, <1>18

\* Every step leaves waiting threads where release() finds them, while no two
\* threads have one identifier.
LEMMA WaitersStep ==
  ASSUME IInv, Unowned, UniqueIDs, AwaitsMutex, NoLostWaiter, [Next]_vars
  PROVE  AwaitsMutex' /\ NoLostWaiter'
<1>1. pc \in [Thread -> Location] /\ frame \in [Thread -> FrameType]
  BY DEF IInv, CallInv
<1>2. CASE UNCHANGED <<pc, frame>> /\ (Onward(vm, vm') \/ vm' = vm)
  <2>1. AwaitsMutex'
    BY <1>2 DEF AwaitsMutex
  <2>2. ASSUME NEW u \in Thread, vm'.halt = "no", pc[u] = "acquire",
               vm'.state[u] = "WAITING", frame[u].mtx \notin Elems(vm'.held[u])
        PROVE  u \in Elems(vm'.QTex[frame[u].mtx])
    <3>1. frame[u].mtx \in Mutex
      BY <2>2 DEF AwaitsMutex
    <3> QED BY <1>2, <2>2, <3>1 DEF Onward, NoLostWaiter
  <2>3. NoLostWaiter'
    BY <1>2, <2>2 DEF NoLostWaiter
  <2> QED BY <2>1, <2>3
<1>3. CASE TimerISR
  <2>1. Onward(vm, vm') /\ UNCHANGED <<pc, frame>>
    BY <1>3, TimerLocks DEF IInv, CallInv, VMInv, TimerISR
  <2> QED BY <1>2, <2>1
<1>4. CASE Halted \/ UNCHANGED vars
  BY <1>2, <1>4 DEF Halted, vars
<1>5. ASSUME NEW t \in Thread, ThreadCall(t) \/ MutexCall(t)
      PROVE  AwaitsMutex' /\ NoLostWaiter'
  <2>1. Moves(vm, vm', t)
    BY <1>5, ThreadCallLocks, CreateStoreLocks, MutexCallLocks DEF IInv
  <2>2. /\ vm.halt = "no"
        /\ pc'[t] = "acquire" => AcquireBlock(t)
        /\ \A u \in Thread \ {t} : pc'[u] = "acquire"
                                     => pc[u] = "acquire" /\ frame'[u] = frame[u]
    BY <1>5, WaitingPlaces
  <2>3. AwaitsMutex'
    <3>1. ASSUME AcquireBlock(t) PROVE frame'[t].mtx \in Mutex
      <4>1. PICK m \in vm.mutexes : frame' = [frame EXCEPT ![t].mtx = m]
        BY <3>1 DEF AcquireBlock
      <4>2. vm.mutexes \subseteq Mutex
        BY Running DEF IInv, CallInv, VMState
      <4> QED BY <1>1, <4>1, <4>2 DEF FrameType
    <3> QED BY <2>2, <3>1 DEF AwaitsMutex
  <2>4. ASSUME NEW u \in Thread, vm'.halt = "no", pc'[u] = "acquire",
               vm'.state[u] = "WAITING", frame'[u].mtx \notin Elems(vm'.held[u])
        PROVE  u \in Elems(vm'.QTex[frame'[u].mtx])
    <3>1. CASE u = t
      BY <2>2, <2>4, <3>1, BlockedIsQueued
    <3>2. CASE u # t
      <4>1. pc[u] = "acquire" /\ frame'[u] = frame[u] /\ frame[u].mtx \in Mutex
        BY <2>2, <2>4, <3>2 DEF AwaitsMutex
      <4>2. /\ vm.state[u] = "WAITING" /\ vm'.held[u] = vm.held[u]
            /\ \A m \in Mutex : u \in Elems(vm.QTex[m]) => u \in Elems(vm'.QTex[m])
        BY <2>1, <2>4, <3>2 DEF Moves
      <4>3. u \in Elems(vm.QTex[frame[u].mtx])
        BY <2>2, <2>4, <4>1, <4>2 DEF NoLostWaiter
      <4> QED BY <4>1, <4>2, <4>3
    <3> QED BY <3>1, <3>2
  <2> QED BY <2>3, <2>4 DEF NoLostWaiter
<1> QED BY <1>3, <1>4, <1>5 DEF Next

\* The elements of a queue without duplicates are as many as its length.
LEMMA DistinctCount ==
  ASSUME NEW S, NEW q \in Seq(S), Distinct(q)
  PROVE  Cardinality(Elems(q)) = Len(q)
<1>1. Len(q) \in Nat /\ DOMAIN q = 1 .. Len(q) /\ q = [i \in 1 .. Len(q) |-> q[i]]
  BY LenProperties
<1>2. q \in [1 .. Len(q) -> Elems(q)]
  BY <1>1 DEF Elems
<1>3. q \in Bijection(1 .. Len(q), Elems(q))
  <2>1. \A i, j \in 1 .. Len(q) : q[i] = q[j] => i = j
    BY <1>1 DEF Distinct
  <2>2. \A e \in Elems(q) : \E i \in 1 .. Len(q) : q[i] = e
    BY <1>1 DEF Elems
  <2> QED BY <1>2, <2>1, <2>2 DEF Bijection, Injection, Surjection, IsInjective
<1>4. ExistsBijection(1 .. Len(q), Elems(q))
  BY <1>3 DEF ExistsBijection
<1> QED BY <1>1, <1>4, FS_CountingElements

\* A thread is at most once in the queue of a mutex, and not of its own.
THEOREM NobodyQueuesTwice == Spec => []WaitsOnce
<1>1. Init => Unowned /\ QueuesDistinct
  <2>1. Init => Unowned
    BY InitLocks
  <2>2. Distinct(<< >>)
    BY DEF Distinct
  <2>3. Init => \A m \in Mutex : vm.QTex[m] = << >>
    BY DEF Init
  <2> QED BY <2>1, <2>2, <2>3 DEF QueuesDistinct
<1>2. IInv /\ IInv' /\ Unowned /\ QueuesDistinct /\ [Next]_vars
        => Unowned' /\ QueuesDistinct'
  <2> SUFFICES ASSUME IInv, IInv', Unowned, QueuesDistinct, [Next]_vars
               PROVE  Unowned' /\ QueuesDistinct'
    OBVIOUS
  <2>1. LockStep
    BY NextLocks
  <2>2. Unowned'
    BY <2>1 DEF LockStep
  <2> QED BY <2>1, <2>2, DistinctStep
<1>3. IInv /\ QueuesDistinct => WaitsOnce
  <2> SUFFICES ASSUME IInv, QueuesDistinct, NEW m \in Mutex
               PROVE  /\ Cardinality(Elems(vm.QTex[m])) = Len(vm.QTex[m])
                      /\ \A t \in Elems(vm.QTex[m]) : m \notin Elems(vm.held[t])
    BY DEF WaitsOnce
  <2>1. vm.QTex[m] \in Seq(Thread)
    BY Running DEF IInv, CallInv, VMState
  <2>2. Elems(vm.QTex[m]) \subseteq Thread
    BY <2>1, QueueType
  <2>3. Cardinality(Elems(vm.QTex[m])) = Len(vm.QTex[m])
    BY <2>1, DistinctCount DEF QueuesDistinct
  <2> QED BY <2>2, <2>3 DEF IInv, CallInv, VMInv, KernelInv, MutexInv, HeldNotAwaited
<1> QED BY <1>1, <1>2, <1>3, Invariance, PTL DEF Spec

\* Who waits for a mutex is queued for it, once, in every behaviour in which
\* no two threads have one identifier.
THEOREM WaitersFound == Spec /\ []UniqueIDs => []WaitersQueued
<1>1. Init => Unowned /\ AwaitsMutex /\ NoLostWaiter
  <2>1. Init => Unowned
    BY InitLocks
  <2>2. Init => \A t \in Thread : pc[t] # "acquire"
    BY DEF Init
  <2> QED BY <2>1, <2>2 DEF AwaitsMutex, NoLostWaiter
<1>2. IInv /\ Unowned /\ UniqueIDs /\ AwaitsMutex /\ NoLostWaiter /\ [Next]_vars
        => Unowned' /\ AwaitsMutex' /\ NoLostWaiter'
  BY WaitersStep, NextLocks DEF LockStep
<1>3. WaitsOnce /\ NoLostWaiter => WaitersQueued
  BY DEF WaitersQueued
<1> QED BY <1>1, <1>2, <1>3, Invariance, NobodyQueuesTwice, PTL DEF Spec

-----------------------------------------------------------------------------
(* Identifiers                                                             *)

IDsBelowNext == \A t \in Elems(vm.threads) : vm.id[t] < vm.nextID

\* Only main is inside VMThreadCreate, and what it has read is still true.
MainCreates ==
  /\ \A t \in Thread \ {Main} : pc[t] \notin {"alloc", "newid", "incid"}
  /\ pc[Main] \in {"newid", "incid"} => frame[Main].id = vm.nextID
  /\ pc[Main] = "incid" => frame[Main].next = vm.nextID + 1

IDInv == UniqueIDs /\ IDsBelowNext /\ MainCreates

\* What a step of one thread does to the identifiers, when only main creates.
LEMMA IDStep ==
  ASSUME "create" \notin AppCalls, CallInv, NEW L, pc \in [Thread -> L],
         Unowned, IDInv, NEW t \in Thread, ThreadCall(t) \/ MutexCall(t)
  PROVE  IDInv' /\ vm'.nextID >= vm.nextID
<1>1. /\ pc \in [Thread -> L] /\ frame \in [Thread -> FrameType]
      /\ vm \in VMState /\ Main \in Thread /\ Main \notin AppThread
      /\ Elems(vm.threads) \subseteq Thread
  BY Running, QueueType, ObjectAssumption DEF CallInv, Thread, VMState
<1>2. vm.nextID \in Nat /\ vm.id \in [Thread -> Nat]
  BY <1>1 DEF VMState
<1>3. ASSUME Names(vm, vm') PROVE UniqueIDs' /\ IDsBelowNext'
  BY <1>3 DEF Names, IDInv, UniqueIDs, IDsBelowNext
<1>4. CASE CreateStore(t)
  <2>1. PICK u \in Unborn, p \in AppPriority :
          /\ vm' = [vm EXCEPT !.nextID = frame[t].next, !.threads = Append(@, u),
                              !.id[u] = frame[t].id, !.state[u] = "DEAD",
                              !.prio[u] = p, !.ticks[u] = -1, !.held[u] = << >>,
                              !.waiting[u] = NULL]
          /\ pc' = [pc EXCEPT ![t] = "app", ![u] = "app"]
    BY <1>4, ZenonT(40) DEF CreateStore
  <2>2. pc[t] = "incid"
    BY <1>4 DEF CreateStore, At
  <2>3. t = Main
    BY <2>2 DEF IDInv, MainCreates
  <2>4. frame[t].id = vm.nextID /\ frame[t].next = vm.nextID + 1
    BY <2>2, <2>3 DEF IDInv, MainCreates
  <2>5. u \in Thread /\ u \notin Elems(vm.threads)
    BY DEF Unborn, Thread
  <2>6. Elems(Append(vm.threads, u)) = Elems(vm.threads) \cup {u}
    BY <1>1, <2>5, AppendElems DEF VMState
  <2>7. /\ vm'.nextID = vm.nextID + 1
        /\ vm'.id = [vm.id EXCEPT ![u] = vm.nextID]
        /\ vm'.threads = Append(vm.threads, u)
    BY <1>1, <2>1, <2>4 DEF VMState
  <2>8. /\ vm'.id[u] = vm.nextID
        /\ \A w \in Thread : w # u => vm'.id[w] = vm.id[w]
    BY <1>2, <2>5, <2>7
  <2>9. ASSUME NEW w \in Elems(vm.threads) PROVE vm'.id[w] = vm.id[w] /\ vm.id[w] < vm.nextID
    BY <1>1, <2>5, <2>8 DEF IDInv, IDsBelowNext
  <2>10. UniqueIDs'
    BY <1>1, <1>2, <2>6, <2>7, <2>8, <2>9 DEF IDInv, UniqueIDs
  <2>11. IDsBelowNext'
    BY <1>1, <1>2, <2>6, <2>7, <2>8, <2>9 DEF IDsBelowNext
  <2>12. pc'[Main] = "app" /\ \A w \in Thread : pc'[w] = pc[w] \/ pc'[w] = "app"
    BY <1>1, <2>1, <2>3
  <2>13. MainCreates'
    BY <2>12 DEF IDInv, MainCreates
  <2> QED BY <1>2, <2>7, <2>10, <2>11, <2>13 DEF IDInv
<1>5. ASSUME vm'.nextID = vm.nextID, t # Main,
             \A w \in Thread : w # t => pc'[w] = pc[w] /\ frame'[w] = frame[w],
             pc'[t] \notin {"alloc", "newid", "incid"}
      PROVE  MainCreates'
  BY <1>1, <1>5 DEF IDInv, MainCreates
<1>6. CASE Create(t) /\ ~ CreateStore(t)
  <2>1. Names(vm, vm')
    BY <1>6, ThreadCallLocks DEF ThreadCall
  <2>2. t = Main
    BY <1>6 DEF Create, CreateAllocate, CreateSkipsLoop, CreateRetry,
         CreateReadID, CreateLoadNext, Calling, At, IDInv, MainCreates
  <2>3. vm'.nextID = vm.nextID
    BY <2>1 DEF Names
  <2>4. \A w \in Thread \ {Main} : pc'[w] = pc[w]
    BY <1>1, <1>6, <2>2 DEF Create, CreateAllocate, CreateSkipsLoop, CreateRetry,
         CreateReadID, CreateLoadNext
  <2>5. CASE CreateAllocate(t)
    <3>1. pc'[Main] = "alloc"
      BY <1>1, <2>2, <2>5 DEF CreateAllocate
    <3>2. MainCreates'
      BY <2>4, <3>1 DEF IDInv, MainCreates
    <3> QED BY <1>2, <1>3, <2>1, <2>3, <3>2 DEF IDInv
  <2>6. CASE CreateSkipsLoop(t) \/ CreateRetry(t)
    <3>1. UNCHANGED <<pc, frame>>
      BY <2>6 DEF CreateSkipsLoop, CreateRetry
    <3>2. MainCreates'
      BY <2>3, <3>1 DEF IDInv, MainCreates
    <3> QED BY <1>2, <1>3, <2>1, <2>3, <3>2 DEF IDInv
  <2>7. CASE CreateReadID(t)
    <3>1. pc'[Main] = "newid" /\ frame'[Main].id = vm.nextID
      BY <1>1, <2>2, <2>7 DEF CreateReadID, FrameType
    <3>2. MainCreates'
      BY <2>3, <2>4, <3>1 DEF IDInv, MainCreates
    <3> QED BY <1>2, <1>3, <2>1, <2>3, <3>2 DEF IDInv
  <2>8. CASE CreateLoadNext(t)
    <3>1. pc[Main] = "newid" /\ pc'[Main] = "incid"
      BY <1>1, <2>2, <2>8 DEF CreateLoadNext, At
    <3>2. frame'[Main].id = frame[Main].id /\ frame'[Main].next = vm.nextID + 1
      BY <1>1, <2>2, <2>8 DEF CreateLoadNext, FrameType
    <3>3. MainCreates'
      BY <2>3, <2>4, <3>1, <3>2 DEF IDInv, MainCreates
    <3> QED BY <1>2, <1>3, <2>1, <2>3, <3>3 DEF IDInv
  <2> QED BY <1>6, <2>5, <2>6, <2>7, <2>8 DEF Create
<1>7. CASE (ThreadCall(t) \/ MutexCall(t)) /\ ~ Create(t)
  <2>1. Names(vm, vm')
    <3>1. ~ CreateStore(t)
      BY <1>7 DEF Create
    <3> QED BY <1>7, <3>1, ThreadCallLocks, MutexCallLocks
  <2>2. vm'.nextID = vm.nextID
    BY <2>1 DEF Names
  <2>3. /\ \A w \in Thread : w # t => pc'[w] = pc[w] /\ frame'[w] = frame[w]
        /\ \/ pc'[t] \notin {"alloc", "newid", "incid"}
           \/ UNCHANGED <<pc, frame>>
    <3>1. CASE ThreadCall(t)
      BY <1>1, <1>7, <3>1 DEF ThreadCall, Activate, ThreadTerminate,
           ThreadDelete, EntryReturn, BootReturn, Sleep, SleepReturn, Yield
    <3>2. CASE AcquireBlock(t)
      <4>1. PICK m \in vm.mutexes : frame' = [frame EXCEPT ![t].mtx = m]
        BY <3>2 DEF AcquireBlock
      <4>2. pc' = [pc EXCEPT ![t] = "acquire"]
        BY <3>2 DEF AcquireBlock
      <4> QED BY <1>1, <4>1, <4>2
    <3>3. CASE MutexCall(t) /\ ~ AcquireBlock(t)
      BY <1>1, <3>3 DEF MutexCall, MutexCreate, TryAcquire, AcquireFree,
           AcquireReturn, MutexRelease, MutexDelete, MutexDeleteUnknown
    <3> QED BY <1>7, <3>1, <3>2, <3>3
  <2>4. MainCreates'
    <3>1. CASE UNCHANGED <<pc, frame>>
      BY <2>2, <3>1 DEF IDInv, MainCreates
    <3>2. CASE pc'[t] \notin {"alloc", "newid", "incid"} /\ t = Main
      BY <2>3, <3>2 DEF IDInv, MainCreates
    <3>3. CASE pc'[t] \notin {"alloc", "newid", "incid"} /\ t # Main
      <4>1. UNCHANGED <<pc[Main], frame[Main]>>
        BY <2>3, <3>3 DEF Thread
      <4>2. \A w \in Thread : pc'[w] = pc[w] \/ pc'[w] = pc'[t]
        BY <2>3
      <4> QED BY <2>2, <3>3, <4>1, <4>2 DEF IDInv, MainCreates
    <3> QED BY <2>3, <3>1, <3>2, <3>3
  <2> QED BY <1>2, <1>3, <2>1, <2>2, <2>4 DEF IDInv
<1> QED BY <1>4, <1>6, <1>7 DEF Create

\* At the start: main is 0, idle 1, and the next is 2.
LEMMA InitIDs ==
  ASSUME Init
  PROVE  IDInv
<1>1. /\ vm.threads = <<Main, Idle>> /\ vm.nextID = 2
      /\ vm.id = [t \in Thread |-> IF t = Idle THEN 1 ELSE 0]
  BY DEF Init
<1>2. Elems(vm.threads) = {Main, Idle} /\ Main # Idle /\ {Main, Idle} \subseteq Thread
  BY <1>1, ObjectAssumption DEF Elems, Thread
<1>3. vm.id[Main] = 0 /\ vm.id[Idle] = 1
  BY <1>1, <1>2
<1>4. UniqueIDs /\ IDsBelowNext
  BY <1>1, <1>2, <1>3 DEF UniqueIDs, IDsBelowNext
<1>5. \A t \in Thread : pc[t] \in {"app", "none"}
  BY DEF Init
<1>6. MainCreates
  BY <1>2, <1>5 DEF MainCreates
<1> QED BY <1>4, <1>6 DEF IDInv

\* Every step keeps the identifiers apart and nextID ahead of them.
LEMMA NextIDs ==
  ASSUME "create" \notin AppCalls, IInv, Unowned, IDInv, [Next]_vars
  PROVE  Unowned' /\ IDInv' /\ vm'.nextID >= vm.nextID
<1>1. Unowned'
  BY NextLocks DEF LockStep
<1>2. ASSUME UNCHANGED <<pc, frame>>, Onward(vm, vm') \/ vm' = vm
      PROVE  IDInv' /\ vm'.nextID >= vm.nextID
  <2>1. vm'.nextID = vm.nextID /\ vm.nextID \in Nat
    BY <1>2, Running DEF Onward, IInv, CallInv, VMState
  <2>2. IDInv'
    BY <1>2 DEF IDInv, UniqueIDs, IDsBelowNext, MainCreates, Onward
  <2> QED BY <2>1, <2>2
<1>3. CASE TimerISR
  BY <1>1, <1>2, <1>3, TimerLocks DEF IInv, CallInv, VMInv, TimerISR
<1>4. CASE Halted \/ UNCHANGED vars
  BY <1>1, <1>2, <1>4 DEF Halted, vars
<1> QED BY <1>1, <1>3, <1>4, IDStep DEF Next, IInv

\* While only main creates threads, no creation comes between the accesses of
\* another to nextID.
LEMMA OneCreatorIDs ==
  ASSUME "create" \notin AppCalls
  PROVE  Spec => [](IInv /\ Unowned /\ IDInv)
<1>1. Init => Unowned /\ IDInv
  BY InitLocks, InitIDs
<1>2. IInv /\ Unowned /\ IDInv /\ [Next]_vars => Unowned' /\ IDInv'
  BY NextIDs
<1> QED BY <1>1, <1>2, Invariance, PTL DEF Spec

\* No two threads have one identifier when only main creates threads.
THEOREM OneCreatorUniqueIDs ==
  ASSUME "create" \notin AppCalls
  PROVE  Spec => []UniqueIDs
<1>1. IInv /\ Unowned /\ IDInv => UniqueIDs
  BY DEF IDInv
<1> QED BY <1>1, OneCreatorIDs, PTL

\* "Decrement never" (Thread.h:32) is true of nextID when only main creates
\* threads.
THEOREM OneCreatorNextIDGrows ==
  ASSUME "create" \notin AppCalls
  PROVE  Spec => NextIDGrows
<1>1. IInv /\ Unowned /\ IDInv /\ [Next]_vars => [vm'.nextID >= vm.nextID]_vars
  BY NextIDs
<1> QED BY <1>1, OneCreatorIDs, PTL DEF Spec, NextIDGrows

\* Then no waiter is forgotten, either.
COROLLARY OneCreatorWaitersFound ==
  ASSUME "create" \notin AppCalls
  PROVE  Spec => []WaitersQueued
BY WaitersFound, OneCreatorUniqueIDs, PTL
=============================================================================
