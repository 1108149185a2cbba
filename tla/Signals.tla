------------------------------- MODULE Signals -------------------------------
(***************************************************************************)
(* Signals and context switches: what VirtualMachine.cpp and Machine.cpp   *)
(* do with the signal mask, the calls on each stack and the jump buffers.  *)
(*                                                                         *)
(* The process has one signal mask. setjmp and longjmp do not touch it: a  *)
(* switch of contexts takes the mask along. A handler that returns puts    *)
(* back the mask it interrupted, on whichever stack that was. The global   *)
(* sigs holds "the" saved mask of MachineSuspendSignals for all threads.   *)
(*                                                                         *)
(* stack[t] are the active calls of t, oldest first, above the code of the *)
(* application. cpu is the thread whose calls execute, vm.tr the one the   *)
(* scheduler says executes. A call has a kind:                             *)
(*   api          a function of the VM                                     *)
(*   alloc        one in its loop "try to allocate until it works"         *)
(*   write, read  VMFileWrite and VMFileRead after that loop               *)
(*   create       VMThreadCreate after that loop                           *)
(*   isr          the handler of the alarm                                 *)
(*   usr2         the handler of replies                                   *)
(* and of is the thread it is about: the one VMThreadCreate makes, or the  *)
(* one whose reply the handler has fetched. What MachineContextCreate runs *)
(* in the memory of a new stack is a part of the creator's call.           *)
(*                                                                         *)
(* The threads, mutexes and ready queues are those of Kernel.              *)
(*                                                                         *)
(* Bounds and abstractions: MaxFrames calls on a stack; MaxRequests        *)
(* requests of a thread and as many replies; sleeps and time-outs of one   *)
(* tick; threads and mutexes are not deleted, entry functions do not       *)
(* return, VMThreadCreate does not skip its loop and nextID is not         *)
(* interrupted (VMThreads has all that); the process that serves requests  *)
(* is external (Machine models it). The model stops when vm.halt # "no"    *)
(* or contexts are crossed.                                                *)
(***************************************************************************)
EXTENDS Kernel

CONSTANTS NewPriority,  \* the priorities given to VMThreadCreate
          Calls,        \* the functions the application calls
          MaxFrames, MaxRequests

ASSUME SignalsAssumption ==
  /\ NewPriority \subseteq Priority
  /\ MaxFrames \in Nat \ {0} /\ MaxRequests \in Nat

VARIABLES mask,      \* the blocked signals of the process
          sigs, pt,
          cpu, stack,
          contexts,  \* the threads that have a context to switch to
          vm,
          asked,     \* how many requests of each thread are not yet served
          replies,   \* the reply channel: whose request each answers
          pending,   \* SIGUSR2 is pending
          leaked,    \* history: a function returned without resuming
          raced,     \* history: see SwitchesWhole
          crossed    \* a switch did not save or find the right context
masks == <<mask, sigs>>
switches == <<pt, cpu, contexts>>
io == <<asked, replies, pending>>
history == <<leaked, raced, crossed>>
vars == <<masks, switches, stack, vm, io, history>>

ALRM == "SIGALRM"
USR2 == "SIGUSR2"
Signal == {ALRM, USR2}

Frame == [kind : {"api", "alloc", "write", "read", "create", "isr", "usr2"},
          at : {"body", "alloc", "request", "wait", "new", "create", "made",
                "tick", "reply", "answer", "sched", "pick", "switch", "back",
                "done"},
          saved : SUBSET Signal,
          of : Thread \cup {NULL}]

\* VMStart calls the application's main: idle is ready, the signals are on.
\* The mutexes are there.
Init ==
  /\ mask = {} /\ sigs = {}
  /\ pt = Main /\ cpu = Main
  /\ stack = [t \in Thread |-> << >>]
  /\ contexts = {Main, Idle}
  /\ vm = [threads |-> <<Main, Idle>>,
           mutexes |-> Mutex,
           freed   |-> {},
           id      |-> [t \in Thread |-> IF t = Idle THEN 1 ELSE 0],
           state   |-> [t \in Thread |-> CASE t = Main -> "RUNNING"
                                           [] t = Idle -> "READY"
                                           [] OTHER    -> "DEAD"],
           prio    |-> [t \in Thread |-> IF t = Main
                                         THEN VM_THREAD_PRIORITY_NORMAL
                                         ELSE VM_THREAD_PRIORITY_NIL],
           ticks   |-> [t \in Thread |-> -1],
           held    |-> [t \in Thread |-> << >>],
           waiting |-> [t \in Thread |-> NULL],
           owner   |-> [m \in Mutex |-> NULL],
           QTex    |-> [m \in Mutex |-> << >>],
           readyQ  |-> [p \in Priority |->
                          IF p = VM_THREAD_PRIORITY_NIL THEN <<Idle>>
                          ELSE << >>],
           tr      |-> Main,
           nextID  |-> 2,
           halt    |-> "no"]
  /\ asked = [t \in Thread |-> 0] /\ replies = << >> /\ pending = FALSE
  /\ leaked = FALSE /\ raced = FALSE /\ crossed = FALSE

-----------------------------------------------------------------------------
(* The executing stack                                                     *)

Top(q) == q[Len(q)]
Below(q) == SubSeq(q, 1, Len(q) - 1)

\* The program runs.
Runs == vm.halt = "no" /\ ~crossed

\* The innermost call on the executing stack, of a kind, at a point.
Innermost(kinds) == stack[cpu] # << >> /\ Top(stack[cpu]).kind \in kinds
At(point) == Runs /\ stack[cpu] # << >> /\ Top(stack[cpu]).at = point

Enter(kind, point, saved) ==
  stack' = [stack EXCEPT ![cpu] =
              Append(@, [kind |-> kind, at |-> point, saved |-> saved, of |-> NULL])]

Becomes(frame) == stack' = [stack EXCEPT ![cpu][Len(stack[cpu])] = frame]

GoTo(point) == Becomes([Top(stack[cpu]) EXCEPT !.at = point])

\* A call of a function goes on as one of another kind.
GoOnAs(kind, point) ==
  Becomes([kind |-> kind, at |-> point, saved |-> {}, of |-> NULL])

Leave == stack' = [stack EXCEPT ![cpu] = Below(@)]

\* A stack has an active call at one of some points.
Active(t, points) == \E i \in DOMAIN stack[t] : stack[t][i].at \in points

\* scheduler() has begun and has not switched yet.
Scheduling(t) == Active(t, {"pick", "switch"})

-----------------------------------------------------------------------------
(* The signal mask                                                         *)

MachineSuspendSignals == sigs' = mask /\ mask' = Signal
MachineResumeSignals == mask' = sigs /\ UNCHANGED sigs

\* Mutant of Interrupted: sa_mask is full.
AllBlocked(signal) == Signal

\* The mask in a handler. MachineRequestAlarm fills sa_mask, but for the
\* alarm, which SA_NODEFER leaves enabled in its own handler; the handler of
\* replies has an empty sa_mask.
Interrupted(signal) ==
  IF signal = ALRM THEN mask \cup (Signal \ {ALRM}) ELSE mask \cup {signal}

-----------------------------------------------------------------------------
(* Functions of the VM that are not interrupted until they return or call  *)
(* scheduler()                                                             *)

\* The application calls a function, which begins by suspending the signals.
Call ==
  /\ Runs /\ cpu # Idle /\ stack[cpu] = << >>
  /\ MachineSuspendSignals
  /\ Enter("api", "body", {})
  /\ UNCHANGED <<switches, vm, io, history>>

Executes(name) == name \in Calls /\ At("body")

\* A function that resumes the signals and returns.
Completes(s) ==
  /\ vm' = s
  /\ MachineResumeSignals
  /\ Leave
  /\ UNCHANGED <<switches, io, leaked, crossed>>

\* VMThreadID and the others that change nothing.
VMThreadID == Executes("VMThreadID") /\ Completes(vm) /\ UNCHANGED raced

\* VMThreadState of a null pointer returns with the signals suspended.
VMThreadStateNull ==
  /\ Executes("VMThreadState")
  /\ Leave
  /\ leaked' = TRUE
  /\ UNCHANGED <<masks, switches, vm, io, raced, crossed>>

VMThreadActivate(t) ==
  /\ Executes("VMThreadActivate")
  /\ t \in Elems(vm.threads) /\ vm.state[t] = "DEAD"
  /\ Completes(PushReady([vm EXCEPT !.state[t] = "READY"], t))
  /\ raced' = (raced \/ t \notin contexts)

\* VMMutexAcquire that succeeds or does not wait.
VMMutexAcquire(m, timeout) ==
  /\ Executes("VMMutexAcquire")
  /\ Acquires(vm, vm.tr, m) \/ timeout = VM_TIMEOUT_IMMEDIATE
  /\ Completes(AcquireMutex(vm, vm.tr, m, timeout))
  /\ UNCHANGED raced

\* A function that calls scheduler() in a state.
Schedules(s) ==
  /\ vm' = s
  /\ GoTo("sched")
  /\ UNCHANGED <<masks, switches, io, history>>

VMMutexWait(m, timeout) ==
  /\ Executes("VMMutexAcquire")
  /\ ~Acquires(vm, vm.tr, m) /\ timeout # VM_TIMEOUT_IMMEDIATE
  /\ Schedules(Block(AcquireMutex(vm, vm.tr, m, timeout), vm.tr, timeout))

VMMutexRelease(m) ==
  /\ Executes("VMMutexRelease")
  /\ m \in Elems(vm.held[vm.tr])
  /\ Schedules(ReleaseMutex(vm, vm.tr, m))

VMThreadSleep == Executes("VMThreadSleep") /\ Schedules(Block(vm, vm.tr, 1))

\* The application does not know the idle thread.
VMThreadTerminate(t) ==
  /\ Executes("VMThreadTerminate")
  /\ t # Idle /\ vm.state[t] # "DEAD"
  /\ Schedules(Terminate(vm, t))

\* MachineFileOpen and the others that send a request of the running thread.
SendsRequest ==
  /\ asked[vm.tr] < MaxRequests
  /\ asked' = [asked EXCEPT ![vm.tr] = @ + 1]
  /\ UNCHANGED <<replies, pending>>

\* VMFileOpen, VMFileClose and VMFileSeek.
VMFileOpen ==
  /\ Executes("VMFileOpen")
  /\ SendsRequest
  /\ vm' = Wait(vm, vm.tr)
  /\ GoTo("sched")
  /\ UNCHANGED <<masks, switches, history>>

-----------------------------------------------------------------------------
(* VMFileWrite, VMFileRead and VMThreadCreate                              *)

Transfers == Calls \cap {"VMFileWrite", "VMFileRead"} # {}
Creates == "VMThreadCreate" \in Calls /\ AppThread \ Elems(vm.threads) # {}

\* A round of the loop of allocation resumes the signals, ...
Allocates ==
  /\ \/ At("body") /\ (Transfers \/ Creates)
     \/ At("back") /\ Innermost({"alloc"})
  /\ MachineResumeSignals
  /\ GoOnAs("alloc", "alloc")
  /\ UNCHANGED <<switches, vm, io, history>>

\* ... calls VMMemoryPoolAllocate, which leaves sigs and the mask as they are,
\* suspends the signals and calls scheduler(), which resumes them.
AllocateSchedules ==
  /\ At("alloc")
  /\ MachineSuspendSignals
  /\ GoTo("sched")
  /\ UNCHANGED <<switches, vm, io, history>>

\* The loop is left, with the signals enabled. VMFileRead of a FAT file sends
\* no request.
Allocated ==
  /\ At("back") /\ Innermost({"alloc"})
  /\ \/ "VMFileWrite" \in Calls /\ GoOnAs("write", "request")
     \/ "VMFileRead" \in Calls /\ (GoOnAs("read", "request") \/ GoOnAs("read", "done"))
     \/ Creates /\ GoOnAs("create", "new")
  /\ UNCHANGED <<masks, switches, vm, io, history>>

\* A piece of 512 bytes is requested, ...
Requests ==
  /\ At("request")
  /\ SendsRequest
  /\ GoTo("wait")
  /\ UNCHANGED <<masks, switches, vm, history>>

\* ... setState follows, then scheduler().
Waits == At("wait") /\ Schedules(Wait(vm, vm.tr))

NextPiece ==
  /\ At("back") /\ Innermost({"write", "read"})
  /\ GoTo("request")
  /\ UNCHANGED <<masks, switches, vm, io, history>>

\* VMFileWrite ends with VMMemoryPoolDeallocate, which suspends and resumes.
LastPiece ==
  /\ At("back") /\ Innermost({"write", "read"})
  /\ sigs' = IF Innermost({"write"}) THEN mask ELSE sigs
  /\ GoTo("done")
  /\ UNCHANGED <<mask, switches, vm, io, history>>

\* The new Thread is in the vector before it has a context.
NewThread(t, p) ==
  /\ At("new")
  /\ t \notin Elems(vm.threads)
  /\ vm' = [vm EXCEPT !.threads = Append(@, t),
                      !.id[t] = vm.nextID,
                      !.nextID = @ + 1,
                      !.prio[t] = p]
  /\ Becomes([kind |-> "create", at |-> "create", saved |-> mask, of |-> t])
  /\ UNCHANGED <<masks, switches, io, history>>

\* MachineContextCreate works through static variables, the action of SIGUSR1
\* and the alternative stack of the process, and puts back the mask it began
\* with. After an interruption it may have made a context of another stack.
MachineContextCreate ==
  /\ At("create")
  /\ mask' = Top(stack[cpu]).saved
  /\ crossed' \in {FALSE, raced}
  /\ GoTo("made")
  /\ UNCHANGED <<sigs, switches, vm, io, leaked, raced>>

setContext ==
  /\ At("made")
  /\ contexts' = contexts \cup {Top(stack[cpu]).of}
  /\ GoOnAs("create", "done")
  /\ UNCHANGED <<masks, pt, cpu, vm, io, history>>

-----------------------------------------------------------------------------
(* scheduler(). The handler of the alarm, VMFileWrite and VMFileRead call   *)
(* it with the alarm enabled.                                               *)

SchedulerRequeues ==
  /\ At("sched")
  /\ pt' = vm.tr
  /\ vm' = Requeue(vm)
  /\ GoTo("pick")
  /\ UNCHANGED <<masks, cpu, contexts, io, history>>

\* The signals are resumed before the contexts are switched.
SchedulerPicks ==
  /\ At("pick")
  /\ IF \A p \in Priority : vm.readyQ[p] = << >>
     THEN vm' = Undefined(vm) /\ UNCHANGED <<masks, stack>>
     ELSE /\ vm' = Dispatch(vm, Highest(vm))
          /\ MachineResumeSignals
          /\ GoTo("switch")
  /\ UNCHANGED <<switches, io, history>>

\* MachineContextSwitch saves what executes as the context of pt and restores
\* that of tr. The stack of pt is lost for good when something else executes:
\* two contexts lead into one stack.
SchedulerSwitches ==
  /\ At("switch")
  /\ IF pt # cpu \/ vm.tr \notin contexts
     THEN crossed' = TRUE /\ UNCHANGED <<cpu, stack>>
     ELSE cpu' = vm.tr /\ GoTo("back") /\ UNCHANGED crossed
  /\ UNCHANGED <<masks, pt, contexts, vm, io, leaked, raced>>

\* A function of the VM resumes the signals, as sigs says now, and returns; a
\* handler returns to the mask it interrupted.
Return ==
  /\ At("done") \/ (At("back") /\ Innermost({"api", "isr", "usr2"}))
  /\ mask' = IF Innermost({"isr", "usr2"}) THEN Top(stack[cpu]).saved ELSE sigs
  /\ Leave
  /\ UNCHANGED <<sigs, switches, vm, io, history>>

-----------------------------------------------------------------------------
(* Handlers                                                                *)

Alarm ==
  /\ Runs /\ ALRM \notin mask /\ Len(stack[cpu]) < MaxFrames
  /\ Enter("isr", "tick", mask)
  /\ mask' = Interrupted(ALRM)
  /\ raced' = (raced \/ Active(cpu, {"pick", "switch", "create"}))
  /\ UNCHANGED <<sigs, switches, vm, io, leaked, crossed>>

\* The ticks are counted between suspending the signals and resuming them.
timerISR ==
  /\ At("tick")
  /\ sigs' = mask
  /\ vm' = TimerTick(vm)
  /\ GoTo("sched")
  /\ UNCHANGED <<mask, switches, io, history>>

ReplySignal ==
  /\ Runs /\ pending /\ USR2 \notin mask /\ Len(stack[cpu]) < MaxFrames
  /\ pending' = FALSE
  /\ Enter("usr2", "reply", mask)
  /\ mask' = Interrupted(USR2)
  /\ UNCHANGED <<sigs, switches, vm, asked, replies, history>>

\* The handler of replies fetches every reply there is, ...
FetchReply ==
  /\ At("reply") /\ replies # << >>
  /\ replies' = Tail(replies)
  /\ Becomes([Top(stack[cpu]) EXCEPT !.at = "answer", !.of = Head(replies)])
  /\ UNCHANGED <<masks, switches, vm, asked, pending, history>>

\* Mutant of FileCallback: the thread is not pushed.
FileCallbackNoPush ==
  LET t == Top(stack[cpu]).of
  IN /\ At("answer") /\ vm.state[t] = "WAITING"
     /\ vm' = [vm EXCEPT !.state[t] = "READY"]
     /\ Becomes([Top(stack[cpu]) EXCEPT !.at = "reply", !.of = NULL])
     /\ UNCHANGED <<masks, switches, io, history>>

\* ... and fileCallback spins until the thread waits, then makes it ready.
FileCallback ==
  LET t == Top(stack[cpu]).of
  IN /\ At("answer") /\ vm.state[t] = "WAITING"
     /\ vm' = PushReady([vm EXCEPT !.state[t] = "READY"], t)
     /\ Becomes([Top(stack[cpu]) EXCEPT !.at = "reply", !.of = NULL])
     /\ UNCHANGED <<masks, switches, io, history>>

NoMoreReplies ==
  /\ At("reply") /\ replies = << >>
  /\ GoTo("back")
  /\ UNCHANGED <<masks, switches, vm, io, history>>

\* The machine process completes a request (modelled in Machine). The reply
\* channel holds so many messages.
MachineSendReply(t) ==
  /\ Runs /\ asked[t] > 0 /\ Len(replies) < MaxRequests
  /\ asked' = [asked EXCEPT ![t] = @ - 1]
  /\ replies' = Append(replies, t)
  /\ pending' = TRUE
  /\ UNCHANGED <<masks, switches, stack, vm, history>>

-----------------------------------------------------------------------------
Timeouts == {VM_TIMEOUT_IMMEDIATE, VM_TIMEOUT_INFINITE, 1}

Body == \/ VMThreadID \/ VMThreadStateNull \/ VMThreadSleep \/ VMFileOpen
        \/ \E t \in Thread : VMThreadActivate(t) \/ VMThreadTerminate(t)
        \/ \E m \in Mutex : \/ VMMutexRelease(m)
                            \/ \E n \in Timeouts : VMMutexAcquire(m, n) \/ VMMutexWait(m, n)

Transfer == Requests \/ Waits \/ NextPiece \/ LastPiece

Create == \/ \E t \in AppThread, p \in NewPriority : NewThread(t, p)
          \/ MachineContextCreate \/ setContext

\* What the executing code does next, in the VM.
Execute == \/ Body \/ Return
           \/ Allocates \/ AllocateSchedules \/ Allocated \/ Transfer \/ Create
           \/ SchedulerRequeues \/ SchedulerPicks \/ SchedulerSwitches
           \/ timerISR \/ FetchReply \/ FileCallback \/ NoMoreReplies

Next == Call \/ Execute \/ Alarm \/ ReplySignal
        \/ \E t \in Thread : MachineSendReply(t)

Spec == Init /\ [][Next]_vars

\* The process runs, the application goes on calling, the timer is periodic,
\* the machine process answers, an allocation succeeds in the end, and the
\* system delivers a signal that is pending and not blocked before the
\* interrupted code goes on.
FairSpec == /\ Spec
            /\ WF_vars(Execute) /\ WF_vars(Alarm)
            /\ SF_vars(Call) /\ SF_vars(ReplySignal) /\ SF_vars(Allocated)
            /\ \A t \in Thread : WF_vars(MachineSendReply(t))

-----------------------------------------------------------------------------
SignalsTypeOK ==
  /\ mask \subseteq Signal /\ sigs \subseteq Signal
  /\ pt \in Thread /\ cpu \in Thread /\ contexts \subseteq Thread
  /\ stack \in [Thread -> Seq(Frame)]
  /\ \A t \in Thread : Len(stack[t]) <= MaxFrames
  /\ vm \in VMState /\ \A t \in Thread : vm.ticks[t] >= -5
  /\ asked \in [Thread -> 0 .. MaxRequests]
  /\ replies \in Seq(Thread) /\ Len(replies) <= MaxRequests
  /\ {pending, leaked, raced, crossed} \subseteq BOOLEAN

\* The executing call is one that has suspended the signals itself.
Suspended == /\ Innermost({"api", "alloc"})
             /\ Top(stack[cpu]).at \in {"body", "sched", "pick"}

\* The mask wanders from thread to thread through sigs and the switches, but
\* the alarm is never left blocked: outside the stretch between
\* MachineSuspendSignals and MachineResumeSignals of the executing function
\* time goes on, whatever was interrupted by what, unless VMThreadState was
\* given a null pointer.
TimeGoesOn == leaked \/ Suspended \/ ALRM \notin mask

\* Three interleavings break the switches, and nothing else does: an alarm in
\* the middle of scheduler(), an alarm in MachineContextCreate, the activation
\* of a thread whose creator has not come to setContext.  Until one of them
\* happens the executing stack is that of the running thread whenever
\* scheduler() is not at work on it, no two contexts share a stack, and there
\* is always a thread to switch to, with a context of its own.
SwitchesWhole == raced \/ (Runs /\ (cpu = vm.tr \/ Scheduling(cpu)))

\* As long, every way to wake a thread - a tick in any handler, a reply in the
\* middle of a call or of another handler, a mutex, an activation - leaves it
\* in its ready queue, and no dead thread is in one.
WokenAreQueued ==
  raced \/ /\ \A t \in Thread : vm.state[t] = "READY" => t \in Elems(vm.readyQ[vm.prio[t]])
           /\ \A p \in Priority : \A t \in Elems(vm.readyQ[p]) :
                vm.prio[t] = p /\ vm.state[t] # "DEAD"

\* The reply to a request is handled in the end, once it is there: the thread
\* that made it does not wait for ever.
ReplyHandled ==
  \A t \in Thread :
    t \in Elems(replies) ~> (t \notin Elems(replies) \/ raced \/ leaked \/ ~Runs)
=============================================================================
