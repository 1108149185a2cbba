# Verification of the Tibia virtual machine

The repository is a user-level "virtual machine" in C++: a library that gives
one application module threads with priorities, mutexes, memory pools, file
and directory functions, on top of a `Machine` layer that provides contexts,
an alarm signal and a helper process for I/O. This directory models its core
in TLA+, model-checks it with TLC and proves theorems about it with TLAPS.

`PROJECT.json` is the index: components, runs, the source lines of every
definition, findings, hazards, mutants and theorems. To repeat a check:

    tlc -config mutex.cfg MCVMThreads     (run "mutex")
    tlapm VMThreads_proofs.tla            (after Loops and KernelInv)
    tlapm FileIO_proofs.tla               (after VMThreads_proofs)
    tlapm Signals_proofs.tla              (after Loops and KernelInv)
    tlapm MemoryPool_proofs.tla           (after Loops; so are the next two)
    tlapm Machine_proofs.tla
    tlapm Volume_proofs.tla

## 1. The system

| component | source | state it keeps | operations |
|---|---|---|---|
| Threads and scheduler | `VirtualMachine.cpp`, `Thread.cpp` | `threads`, `tr`, four `readyQ`, per thread: state, priority, ticks, `heldMutex`, `waiting`, context; static `nextID` | `VMThreadCreate/Activate/Terminate/Delete/Sleep`, `scheduler`, `timerISR`, `skeleton` |
| Mutexes | `VirtualMachine.cpp`, `Mutex.cpp`, `Thread.cpp` | `mutexes`, per mutex: `owner`, `QTex` | `VMMutexCreate/Acquire/Release/Delete/Query` |
| Memory pools | `MPCB.cpp`, `MemBlock.cpp`, `VirtualMachine.cpp` | `pools`, static `idInc`, per pool: start, size, the vector `allocated` | `VMMemoryPoolCreate/Delete/Allocate/Deallocate/Query` |
| Start-up and shutdown | `VMStart` | all of the above | builds main and idle, the heap and the shared pool; afterwards unloads, terminates the machine, deletes everything |
| Signals and contexts | `Machine.cpp`, `VirtualMachine.cpp` | the process's signal mask, the global `sigs`, a `jmp_buf` per thread | suspend, resume, enable; context create, save, restore, switch |
| File functions | `VirtualMachine.cpp` | the result of the pending request of each thread | `VMFileOpen/Close/Read/Write/Seek`, `fileCallback` |
| Machine process | `Machine.cpp` | two message queues, two pipes, `MachinePendingCallbacks`, request counter | `MachineFile*`, the SIGUSR2 handlers, the child's loop, `MachineTerminate` |
| FAT reader | `FATData.cpp` | the boot sector, the FAT, the root directory | constructor, `addRootEntry`, `readFromFile` |
| Directories | `Dir.cpp`, `VirtualMachine.cpp` | `dirs`, a position for each, `curPath` | `VMDirectoryOpen/Close/Read/Rewind/Current/Change` |
| Path functions | `VirtualMachineUtils.c` | none | simplify, absolute path, directory and file part |
| Module loader, `VMFilePrint`, command line, applications, FAT test program | `VirtualMachineUtils.c`, `main.c`, `apps/`, `proj4Tests/` | none of interest | input, output, examples of use |

**How they interact.** There is one Unix process that runs all threads, and a
child for I/O. Mutual exclusion between threads is by *signal masks*: an API
function calls `MachineSuspendSignals` on entry and `MachineResumeSignals` on
exit, so `timerISR` (on SIGALRM) and the reply handler (on SIGUSR2) cannot run
in between. `scheduler()` requeues the running thread, takes the head of the
highest non-empty ready queue, **resumes the signals** and switches contexts.
What an API function does after `scheduler()` therefore happens much later,
with signals enabled, in a state other threads have changed.
`timerISR` counts the ticks of every thread down, wakes those that
reach zero - out of their mutex's queue when they wait for one - and calls
`scheduler()`. Mutexes call back into threads (`stopWaiting`) and threads into
mutexes (`waitTimeout`, `release`). Thread stacks and file buffers come from
memory pools. File functions send a request to the child and block their
thread; the reply handler calls `fileCallback`, which makes it ready.

**What is hard here.**

* preemption between any two API calls, and inside `VMThreadCreate`, which runs
  the constructor of `Thread` after `scheduler()` has enabled the signals;
* a wait for a mutex can end by release, by time-out and by termination of
  the waiter, in any order, and the caller finds out by looking at state after
  `scheduler()`;
* objects are deleted while queues still name them;
* a thread can be in a ready queue twice;
* contexts outlive their threads: a terminated thread can be activated again
  and continues where it stopped;
* the masks of signals are process-wide state that contexts do not carry;
* replies, interrupts and requests cross between two processes;
* unsigned arithmetic on sizes.

The hazards of `PROJECT.json` list these at their lines.

**What makes each component correct.** Scheduler: exactly one thread runs, no
ready thread is lost, nothing dead is popped, a switch goes to the highest
priority, equals take turns, a wait with ticks ends. Mutexes: exclusion,
first-come first-served, no waiter forgotten, termination releases. Pools:
blocks disjoint and inside, first fit exact, what was granted stays granted.
Signals: a suspended stretch ends with the alarm enabled, a switch saves the
context of what executes, no request waits with its signal blocked for ever. Files and machine: every request is answered once, to
its own thread. FAT and paths: they compute what a reference definition says; an open directory lists every
file once, and the working directory stays a path.

## 2. Modules

| module | what it is |
|---|---|
| `Kernel` | the methods of `Thread` and `Mutex`, the scheduler and the timer loop as operators on one record, the state of the virtual machine |
| `VMThreads` | the API functions, the interrupt and the calling applications: one action per run without interruption; the properties |
| `MutexSpec` | abstract: a set of first-come first-served locks |
| `MCVMThreads` | `VMThreads` for TLC |
| `MemoryPool` | `MPCB` and the pool functions; the properties |
| `Arena` | abstract: ranges given out of a memory and taken back |
| `MCMemoryPool` | `MemoryPool` for TLC |
| `Machine` | the two processes of the machine, their queues, signals and the pipe; the properties |
| `IOChannel` | abstract: requests answered once each, in order within a class |
| `MCMachine` | `Machine` for TLC |
| `FileIO` | the file functions and `fileCallback`, on `VMThreads` and `IOChannel`; the properties |
| `MCFileIO` | `FileIO` for TLC |
| `Signals` | the signal mask, `sigs`, the calls on each stack and the contexts, on the threads of `Kernel`, with `scheduler()`, the handlers, the transfers and the creation of threads at the grain of what a signal can interrupt; the properties |
| `MCSignals` | `Signals` for TLC |
| `Vectors` | the elements of a vector that are in a set |
| `PathNames` | the path functions as operators on sequences of characters; paths as lists of names, their reference |
| `FATData` | the root directory and the reading of files as operators; the chain of clusters, its reference |
| `Volume` | directories, the working directory and reads of files, on `PathNames` and `FATData`; the properties |
| `MCVolume` | `Volume` for TLC |
| `Loops` | induction on the rounds of a loop; sequences, and loops over them |
| `MemoryPool_proofs` | theorems about `MemoryPool`, the refinement of `Arena` included |
| `Machine_proofs` | theorems about `Machine`, the refinement of `IOChannel` included |
| `Signals_proofs` | theorems about `Signals` |
| `KernelInv` | what the loops, queues and vectors of `Kernel` return; the inductive invariant of the kernel, and what each operator does to waiters and locks; one lemma of each kind per operator |
| `VMThreads_proofs` | theorems about `VMThreads`, the refinement of `MutexSpec` included |
| `FileIO_proofs` | theorems about `FileIO`: what of `VMThreads` carries over, and when replies come first |
| `Volume_proofs` | theorems about `Volume`, the loops of `PathNames` and `FATData` included |

**Kernel and VMThreads.** The record `vm` has the fields of the C++ objects
under their names: `state[t]`, `ticks[t]`, `held[t]` (`heldMutex`), `waiting[t]`,
`owner[m]`, `QTex[m]`, `readyQ[p]`, `threads`, `tr`, `nextID`. `freed` remembers
deleted objects, so that a call on one, which C++ leaves undefined, leads to
`halt = "undefined"`, after which nothing is claimed. Methods called inside one
another are operators composed on the record: `ThreadTerminate` is
`Scheduler(Terminate(vm, u))`, and `Terminate` is setting the state, then
`ReleaseAllMutex`, then the flush of the ready queue, in the code's order.

`pc[t]` says where the saved context of a thread continues: in the
application, after the `scheduler()` of a sleep or an acquire, inside
`VMThreadCreate`, or in `skeleton()` after its termination. Since suspended
signals make everything up to `scheduler()` or the return atomic, each such
stretch is one action; the part after `scheduler()` is another. The constructor
of `Thread`, which runs with signals enabled, is split at its accesses to
`nextID`. Uninitialized values (`ticks` of the main thread, `test` in
`VMThreadCreate`, the iterator of `VMMutexDelete`) are nondeterministic.

Applications are arbitrary: any thread but idle makes any call a run allows,
on any identifier it was given. They do not guess the identifier of idle.

The model takes a call of `scheduler()` as one step, as if the signals were
suspended up to the switch of contexts, and every thread resumed them. What
happens when they are not is the subject of `Signals`.

**Signals.** One thread of control moves between the stacks of the threads;
`cpu` is the stack it is on and `vm.tr` the thread the scheduler believes to run.
`vm` is the record of `Kernel`: states, ticks, mutexes and ready queues are those of
`VMThreads`, and the operators on them the same ones. `stack[t]` holds the active
calls, with the point each has reached and, for a handler, the mask it returns to;
`mask` is the process's and `sigs` the global. A switch is `cpu' = vm.tr` and leaves
the mask in force, which is what `longjmp` does; a function returns with
`MachineResumeSignals`, that is with what `sigs` holds by then, and a handler with the
mask it interrupted. The handler of the alarm has a full `sa_mask` but `SA_NODEFER`,
so the alarm can interrupt its own handler, `scheduler()` included.

A call is one action up to `scheduler()` where the code has the signals suspended so
far, and only there. That is not so after the loop "try to allocate until it works",
whose `scheduler()` has resumed them: in `VMFileWrite` and `VMFileRead` each of the
request (`Requests`), `setState` (`Waits`) and the steps of `scheduler()` can be
interrupted, and in `VMThreadCreate` the entry of the thread in the vector
(`NewThread`), the creation of its context and `setContext`. Mutexes, their waits and
time-outs and the reactivation of dead threads are those of `Kernel`; so a thread can
be twice in a ready queue. `MachineContextCreate` runs a part of its code in the
memory of the new stack, with the creator as the running thread, and keeps its data in
static variables; it is one action of the creator's call, before which an alarm may
come, and then its result may be wrong (`crossed`). `contexts` are the threads with a
context to switch to.

`leaked`, `raced` and `crossed` are history: a function has returned with the signals
suspended (`VMThreadState` of a null pointer); one of three interleavings has
happened that the code is not made for (`SwitchesWhole` names them); a switch saved
one stack as the context of another, or restored what is no context. Threads and
mutexes are not deleted here, the loop of `VMThreadCreate` is not skipped and nextID
not interrupted, since `VMThreads` has that. The replies come from `Machine`, external
here, and may answer a thread that has died since: `FileCallback` is then not enabled,
which is the spin of `fileCallback`.

**PathNames, FATData and Volume.** The path functions are operators from paths
to a status and a buffer. Their loops, and that of `readFromFile`, are recursive
functions of the round, with the body of the loop as an operator (`AddCharacter`,
`AddEntry`, `ReadCluster`). `Volume` adds the state: the vector `dirs` with the
descriptor, position and entry of each `Dir`, `curPath`, and a buffer `path` that
the application leads through `VMFileSystemGetAbsolutePath` from directory to
directory, so that the path functions meet their own results. `seen` is history:
what was read through a directory. All directories of the root get descriptor 0
and those of another path have what memory held (`Junk`, `JunkNames`). All functions
are one action, as their signals are suspended, but `VMFileRead`: it has called
`scheduler()` when it looks for the Dir, so that other threads run between
`VMFileReadFind` and `VMFileRead`, and what it found may be deleted (`reader`). Bytes of
the data area are named by their offsets, so what a read returns says where it was
read. An image has a long entry, a deleted, a free and two used ones, and a file
whose chain is in order, scattered, broken or cyclic.

**MemoryPool.** `pools[i]` is the vector of blocks of pool `i`, in vector
order. `claims` is not in the code: it records what each successful allocation
promised its caller and which pool was made in it, which is what the
properties about nested pools are stated against. Arithmetic is modulo
`Modulus` as in the unsigned code.

**Machine.** `parent` and `child` say where the two processes are, at the grain
of one system call the other can observe: `msgsnd`, `kill`, `poll`, `read` of the
pipe with `msgrcv`. `parentSig` and `childSig` are SIGUSR2 pending, which Unix does
not count, so they are booleans; the child's handler turns its signal into a byte
of `pipe`. Requests are records of an identifier and a class: `now` for what the
child executes at once (open, write, seek, close and the reads it refuses), or
the descriptor a read waits for. `pending` is `MachinePendingCallbacks` with the
calldata only; a client asks again when its callback has run, as a blocked thread
does. One handler of replies runs at a time here; `FileIO` has the handlers that
the timer has interrupted. That `msgrcv` never finds the request channel empty is
`BytesAreRequests` in `SignalsMatchMessages`.

`Machine` implements `IOChannel` (run `machine`): what the clients have asked and
not been answered is in `asked`, a queue for each class of requests, and `answers`
is the reply channel. The queue of a class is what `PendingReads` has of it and
then what the request channel has (`Asked`), since the child reads the channel in
order. `Only`, which selects a class, is a recursive function because nothing can
be proved of `SelectSeq` here; for the same reason `MutexSpec` says that a queue is
`Thinned` where it could say `SelectSeq`.

**FileIO.** `FileIO` composes `VMThreads` with that channel. A file function is an
`Ask`, then the block of its thread; `fileCallback` is two actions, since the
timer can interrupt the handler between them: `ReplySignal` takes the reply and
sets `cd`, `Callback` is the end of the spin. `handler[t]` is the callback on the
stack of thread `t`; a thread with one executes nothing else. Open, close and
seek are uninterrupted up to `scheduler()`. Read and write are not, because the
`scheduler()` of their allocation loop leaves the signals enabled: they are split
into the request, `setState` and `scheduler()` of each chunk. `buffers` are the
pieces of the shared pool in use: pieces of 512 bytes, so that fragmentation of
that pool is left to `MemoryPool`.

## 3. Runs

All constants are in the `.cfg` files. `Main`, `Idle`, `NULL` are model values;
the identity of application threads and mutexes is symmetric except in the
liveness runs, where symmetry is not sound.

| run | question | instance |
|---|---|---|
| `mutex` | do the structures of mutexes and scheduler stay consistent through time-outs, failed attempts, termination, reactivation and deletion, and are the mutexes first-come first-served locks (`MutexSpec`)? | 2 threads and main on 1 mutex |
| `turns` | does every wait with a tick count end, and do threads of the highest priority take turns? | 2 threads of priority 3 and main, 1 mutex, sleeps and acquires of 1 and 2 ticks, fair timer |
| `pools` | are blocks in order and apart, claims kept apart and backed, the fit first and the count right, and are pools arenas (`Arena`)? | heap of 22 bytes, shared pool of 8, up to 4 pools, granularity 4, sizes 0, 1, 4, 7, 9 |
| `machine` | is every request in one place and every polled descriptor wanted, do signals, bytes and messages match, and are the processes a channel (`IOChannel`)? | 3 clients, 2 descriptors, termination, death of the parent |
| `one_request` | do callbacks run, does termination return, does the child follow its parent? | 1 client, 1 descriptor, fair processes |
| `files` | does nobody go on before its reply, does no handler spin for an open, a close or a seek, are pieces of the shared pool never used twice, are transfers complete? | 1 thread and main, open, close, seek, read, write and sleep, lengths 0 to 3 with chunks of 2, 2 pieces |
| `signals` | is the alarm ever left blocked, what mixes up contexts, and is every thread that is woken queued? | main, idle and 1 thread on 1 mutex, all calls, up to 3 calls on the stacks |
| `volume` | do directories list every file once, does a read return the chain, do the path functions agree with walks along names, and how can the working directory stop being a path? | 4 images, 2 open directories, 12 arguments of up to 8 characters in buffers of 10 |

The runs left, `handover`, `two_creators`, `file_bytes` and `blocked_reply`, check what a
comment or the documentation of the code says and find it violated; they are the findings of section 4.

**Bounds.** `MCVMThreads` stops the *calls* (never the timer) while a ready
queue has more than `QueueBound` entries. It is needed because a time-out on a
mutex pushes its thread twice, so queues grow without bound. The bound is
at least the number of threads of the priority in every run, and a queue may
pass it by what the timer adds, so duplicates do occur. Identifiers are not
bounded: the number of thread objects does it. Two application threads and main are enough for the interesting encounters on one
mutex: an owner, a waiter, and a third party that terminates, deletes or
releases. Ticks of 1 and 2 let a wait expire before, with and after another.

In the pools, 22 bytes with granularity 4 and the odd sizes give gaps of every
kind: none, exact, too short, and one in the middle of the vector.

In `Machine` a client has one request at a time, so the clients bound the queues.
`Modulus` is above the number of requests that can be out at once; `MaxRequests`
bounds the identifiers by which requests are made, and in `one_request` they wrap.
`MCFileIO` bounds the file calls by the requests that are out (`RequestBound`),
which only threads terminated and activated again would exceed. Chunks of 2 bytes
and lengths up to 3 give a length of zero, a short chunk, a full one and the
extra round after it.

In `Signals` three calls on the stacks are a function of the VM, the alarm in it and
another signal in that handler, or two threads in functions and a handler in one of
them (`FewFrames`). One request is on its way at a time, and not while the mutex is in
use (`FewRequests`), nor are there transfers or creations then (`FewUsers`), since
these and mutexes meet only in the ready queues; a read, which the signals interrupt
as they do a write, has one other call beside it (`FewReads`). `ShortQueues` bounds
the ready queues at two entries, which may be of one thread, and has one waiter.
`Undisturbed` goes on from no state after the first race or leak: the state is
checked, but `SwitchesWhole` and `WokenAreQueued` claim nothing behind a race and
`TimeGoesOn` nothing behind a leak. The run has 1.4 million states. The theorems
have none of these bounds, and those on the alarm and on types hold behind races,
too. `blocked_reply` needs one call on a stack. `signals` may stop, hence
`CHECK_DEADLOCK FALSE`: when contexts are crossed, and when the signals leaked.

No action of `Volume` reads two of its parts - the open directories, the working
directory, the buffer of the application - so `OnePartMoves` lets each move while
the others are at the start. A buffer of 10 characters is reached and exceeded
by arguments of up to 8; `MaxCurrent` keeps the working directory from growing by
repeated changes, since the code bounds it nowhere. No argument has two
delimiters in a row, of which the functions make no sense of their own. Sizes do
not wrap at `SizeModulus` in these images (section 4 says what happens when they
do). `volume` stops when the program does (`halt`), hence its `CHECK_DEADLOCK
FALSE`.

**Fairness.** The run `turns` assumes `WF(TimerISR)` and nothing else:
`MachineRequestAlarm` starts a periodic timer, so alarms keep coming, but
applications need never make another call. Liveness is stated up to
`halt`, since an undefined operation ends what can be said.
In `Machine` the loop of the child, the delivery of pending signals and the steps
of the parent's handler are weakly fair - two processes the operating system
schedules - and a polled descriptor is readable in the end (strong fairness of a
`Poll` that finds it ready), which is what "the read completes" means. New
requests are never assumed. `FileFairness` adds that the machine answers, which
`one_request` shows for one request at a time, and strong fairness for the steps
of a thread inside a function or handler: a thread has the processor only now
and then, but each time for many instructions. A thread that computes in the
application is never assumed to call anything.
`FairSpec` of `Signals` lets code in the VM run and the timer tick (weak fairness),
the application call now and then, a signal that is pending and again and again
not blocked be delivered, and an allocation that is tried for ever succeed in the end
(strong fairness; it gives `blocked_reply` the best of cases). `ReplyHandled` claims nothing for a
run with crossed contexts or leaked masks; its counterexample has neither.

## 4. Findings

Each is a run of kind `violation`; `PROJECT.json` quotes the lines.

* `handover`: `Mutex::release` makes a waiter the owner but does not put the
  mutex in its `heldMutex`, by which `VMMutexAcquire` decides whether it
  succeeded. The new owner is told `VM_STATUS_FAILURE` and cannot release.
* `two_creators`: `nextID++` runs with signals enabled and can go back, so that
  two threads share an identifier.
* `file_bytes`: `readFromFile` looks for cluster N at N clusters behind the start of
  the data area, where the FAT specification in the repository says N - 2. What a
  read returns lies two clusters behind the bytes of the file.
* `blocked_reply`: `timerISR` stores the mask of the alarm's handler, with SIGUSR2
  blocked, in the global `sigs`, and contexts do not carry masks. A thread that
  starts after a preemption hands that mask on to idle; idle keeps it for ever, and
  replies that are there are never fetched.

The models also reach the following, which have no run of their own.

Threads and signals:

* a wait for a mutex that times out pushes the thread twice; the extra entry ends
  a later `VMThreadSleep` early (`SleepsItsTicks` of `VMThreads` fails);
* a waiter that `Mutex::release` has made the owner is terminated:
  `VMThreadTerminate` releases what is in `heldMutex`, which does not have the mutex,
  so the mutex stays with a DEAD thread, and all that wait for it without a time-out
  wait for ever (`Mutex.cpp:74-76`,
  `VirtualMachine.cpp:603-604`; `DeathReleases` is about `heldMutex` and leaves it out);
* an alarm between the choice and the switch in `scheduler()`, which the handler of
  the alarm and the transfers call with the alarm enabled, runs `scheduler()`
  again, and a switch saves one stack as the context of another thread (`crossed` in
  `Signals`);
* `MachineContextCreate` works through static variables, the action of SIGUSR1 and the
  alternative stack of the process, with the alarm enabled: two creators that preempt
  one another there share a stack (`raced`, `crossed`);
* a thread is in the vector, with its identifier, before `setContext`: activated in
  between, it is switched to without a context (`raced`, `crossed`);
* `VMThreadState` of a null pointer returns with all signals suspended: no more
  time-outs, preemption or replies, since later functions save and restore that
  mask; only a handler that returns on another stack ends it (`leaked`);
* a thread activated again after its entry function returned continues in
  `skeleton()` and aborts, at the line commented NOTREACHED (`BootReturn`);
* the 63 largest sizes of `VMMemoryPoolAllocate` round to zero and are granted
  (`RoundUp`; with `Request = {62}` and `Modulus = 64` a claim leaves its pool);

Machine and files:

* two requests whose SIGUSR2 merge give one byte and one request taken; the other
  stays until somebody makes a later request (`CallbackRuns` fails with more
  than one client);
* a write has signals enabled between its request and `setState(WAITING)`; a reply
  in between makes `fileCallback` spin for ever (`TransfersReturn` fails);
* the reply to a request of a thread that was terminated since makes `fileCallback`
  spin for ever as well (`VirtualMachine.cpp:886`, `Callback` is never enabled), on the
  stack of whatever it interrupted; the reply to a thread that was deleted goes through
  a dangling `Thread*` (`halt = "undefined"` in `FileIO`);
* `MachineTerminate` waits for ever when its signal merges with the one of an
  older request (`TerminateReturnsWhenIdle` excludes it by its premise);
* the timer switches away from a handler on idle's stack that has taken a reply,
  and a computing thread keeps that reply from its thread (`ReplySignal`,
  then `TimerISR`);
* `VMFileRead` never gives back its piece of the shared pool, so that the
  allocation loops end up running for ever (`TransferDone`, `TransferRetry`), as
  they do for a length of zero (`Allocated`);
* with `Faults`, the -1 of a failed chunk is added to the bytes of the others
  and `TransfersAll` fails;
* with mutexes in `FileIO`, ticks left from a wait that ended early end the wait
  of a later file call, and `NothingBeforeReply` fails;
* it fails as well when the uninitialized `ticks` of main happen to be positive
  (`MainTicks = {1}` in `files`): the timer counts them down and ends main's first
  wait for a file.

The last three are why `files` has no failing requests, no mutexes and no such ticks,
and they are the hypotheses of the theorems (section 5). It has no termination
either, for the two reasons above: replies to dead threads. `FileIO` has both, and the
theorems `FileInvariance` and `FilesKeepLocks` hold of such programs, up to the first
undefined operation.

Volume:

* deleted entries are listed and read, against the comment at `FATData.cpp:74`: a
  signed `char` is compared with an unsigned byte (`Listed`);
* the bound of a read is the size of the file times the size of a cluster, an
  unsigned product that can wrap (`readFromFile`);
* `VMDirectoryChange("..")` just under the root leaves an empty working directory,
  the next change makes a relative one, and going up from there throws out of
  `string::erase` (`LeavesRootByParent`, `halt = "abort"`); going up succeeds with
  `VM_STATUS_FAILURE`;
* two open directories of the root share descriptor 0, and only the older one is
  read, rewound or closed (`YoungerDirsWait`);
* a read of a file of an unknown descriptor, or the rewind of an unknown
  directory, dereferences a null pointer, and a read whose directory another thread
  closes between `findDir` and its use a dangling one (`halt = "undefined"`);
* `VMFileSystemSimplifyPath` accepts a result of as many characters as the buffer
  has, and its terminator is past the end (`volume` has such paths: `MaxPath` is
  reached);
* not modelled, but seen beside these: `fillDate` shifts the high bit of the month
  by one place instead of three, so that months from August on are wrong.

## 5. Proofs

`VMThreads_proofs` proves, for every set of threads and mutexes, every choice
of calls, priorities and tick counts, and with no bound on queues:

| theorem | property |
|---|---|
| `Invariance` | `IInv`, the inductive invariant |
| `TypeCorrect` | `TypeOK` |
| `RunsOneThread` | `OneRunning` |
| `LosesNoReadyThread` | `ReadyIsQueued` |
| `PopsLiveThreads` | `QueuedIsRunnable` |
| `AlwaysAThread` | `IdleAvailable` |
| `MutualExclusion` | `HeldByOwner` |
| `NobodyWaitsForFree` | `FreeHasNoWaiters` |
| `TerminationReleases` | `DeathReleases`, an action property |
| `PriorityScheduling` | `SwitchesToHighest`, an action property |
| `MutexesAreLocks` | `ImplementsMutexSpec`, a refinement |
| `NobodyQueuesTwice` | `WaitsOnce`, a part of `WaitersQueued` |
| `WaitersFound` | `WaitersQueued`, while identifiers are unique (`UniqueIDs`) |
| `OneCreatorUniqueIDs` | `UniqueIDs`, if only main creates threads |
| `OneCreatorNextIDGrows` | `NextIDGrows`, if only main creates threads |
| `OneCreatorWaitersFound` | `WaitersQueued`, if only main creates threads |

`FileIO_proofs` proves, for every set of threads and buffers, every size of chunk,
length and choice of calls, and with no bound on requests:

| theorem | property |
|---|---|
| `FileInvariance` | `SInv`: the kernel's invariant, in every program with file functions |
| `FileTypeCorrect` | `FileTypeOK` |
| `FilesKeepLocks` | `ImplementsMutexSpec`, for `FileSpec` |
| `FileUniqueIDs` | `UniqueIDs`, if only main creates threads |
| `RepliesComeFirst` | `NothingBeforeReply`, under `OnlyRepliesWake` and `UniqueIDs` |
| `RepliesNeverSpin` | `RepliesFindTheirThread`, under the same |
| `TransfersComplete` | `TransfersAll`, an action property, if no request fails either |

`Signals_proofs` proves, for every number of threads, mutexes and requests, every
choice of calls and every depth of nesting:

| theorem | property |
|---|---|
| `Invariance` | `IInv`, the inductive invariant |
| `AlarmEnabled` | `TimeGoesOn` |
| `ContextsApart` | `SwitchesWhole` |
| `NoWakeUpLost` | `WokenAreQueued` |
| `SignalsTypeCorrect` | `SignalsTypeOK` |

`MemoryPool_proofs` proves, for every memory, granularity, width of the
unsigned type and number of pools, however they are nested:

| theorem | property |
|---|---|
| `TypeCorrect` | `TypeOK` |
| `VectorsInOrder` | `BlocksInOrder` |
| `SearchesAsReference` | `MatchesReference` |
| `MemoryIsHeld` | `ClaimsHold`, if no size wraps (`NoneWraps`) |
| `PoolsAreArenas` | `ImplementsArena`, a refinement, if no size wraps |

`Machine_proofs` proves, for every number of clients and descriptors and every
width of the request counter:

| theorem | property |
|---|---|
| `TypeCorrect` | `TypeOK` |
| `SignalsMatch` | `SignalsMatchMessages` |
| `NoRequestLost` | `RequestsKept`, if no identifier is reused too early (`NoReuse`) |
| `MachineIsChannel` | `ImplementsIOChannel`, a refinement, under `NoReuse` |

`Volume_proofs` proves, for every set of images, arguments and lengths, every
size of clusters and buffers and any number of open directories:

| theorem | property |
|---|---|
| `VolumeTypeCorrect` | `VolumeTypeOK`: with it, that what `SimplifyPath` returns is an absolute path of at most `MaxPath` characters |
| `ListsTheRoot` | `DirectoriesList` |
| `ReadsTheChain` | `ReadsChain`, for images that are `WellFormed` |
| `RootLeftByParent` | `LeavesRootByParent`, an action property |
| `SimplifyFollowsNames` | `SimplifiesAsWalk`, if arguments are plain (`PlainSteps`) |
| `OpensWhatIsFound` | `OpensInCurrent`, if files are named by a way down (`FilesBelow`) |

**Assumptions on constants.** `SignalsAssumption` (the priorities have their type, and
there is room for a call) for `Signals`; for `VMThreads`, `ObjectAssumption` (the
objects are distinct and none is the null pointer) and `CallAssumption` (the calls,
priorities and ticks have their types); `PoolAssumption` (the memories are apart and
inside the address range, the stack of idle fits) for `MemoryPool`; for `Machine`,
`MachineAssumption` (at least two identifiers, no client is the null pointer); for
`FileIO`, `FileAssumption` (chunks are not empty, lengths are natural numbers). For
`PathNames`, `PathAssumption` (the delimiter and the dot are characters, a buffer has
room for more than three); for `FATData`, `FATAssumption` (a cluster is not empty, 0
does not end a chain); for `Volume`, `VolumeAssumption` (a root directory is a sequence
with at least one entry, arguments and names are texts, and an argument fits a
buffer). `Characters` is a set because the prover cannot tell that a string literal is
in `STRING`. Nothing is assumed finite, except that `threads`, `QTex` and the other
vectors are sequences.

**Hypotheses of theorems.** These are there because the code needs them; each of
them holds in ordinary programs, and the code fails without it.

* `NoneWraps`: no request is for one of the largest `Align` - 1 sizes. Their rounding
  is zero (section 4), and what is granted is then not backed by any block.
  `VectorsInOrder` and `SearchesAsReference` do without it.
* `NoReuse`: `DRequestID` does not come back to an identifier that is pending, that
  is, fewer than 2^32 requests are made while one is pending. Otherwise the new
  entry of `MachinePendingCallbacks` replaces the old one.
* `UniqueIDs`: no two registered threads have one identifier. `Mutex::isInQueue`
  compares identifiers, so that a waiter with another's identifier is not queued.
  The run `two_creators` shows how that comes about;
  `OneCreatorUniqueIDs` derives the hypothesis when no thread but main calls
  `VMThreadCreate`, by `MainCreates`: what main has read of `nextID` is still
  true when it writes. The run `mutex` is such a program. `FileUniqueIDs` does the
  same for `FileIO`.
* `OnlyRepliesWake`: the program has no waits for mutexes and no
  `VMThreadTerminate`, and the uninitialized `ticks` of main are not positive. Each
  of the three wakes a thread that waits for a reply (section 4): the end of a wait
  for a mutex leaves ticks and a second entry in a ready queue, a terminated thread
  can be activated again while its request is out, and positive ticks let the timer
  end main's first wait. Sleeping, deleting, creating and returning are not excluded,
  nor is preemption anywhere. The run `files` is such a program.
* `WellFormed(im)` for every image: the files and chains do not leave the table, which
  `readFromFile` does not look at, and no size in bytes wraps (section 4).
  Chains may still be broken, cyclic or shorter than their file. `MCVolume` assumes
  it of its images, so TLC evaluates it there.
* `PlainSteps`: no argument has two delimiters in a row. `AddEntry` takes the second
  for an entry and puts it into the path, so that the path is no longer that of its
  names. `FilesBelow`: a name for `VMFileOpen` is not empty, does not end in a
  delimiter and has neither "." nor "..", which `OpenName` would leave in. `MCVolume`
  assumes both of its arguments.
* `~ Faults`: the machine does what it is asked to, in full. `TransfersComplete`
  needs it because the -1 of a failed chunk is added to the sum.

**Argument, VMThreads.** `KernelInv` is the invariant: types, ready threads are queued,
queued threads are registered, live and of the queue's priority, only `tr`
runs, idle runs or is ready, threads outside the vector are dead, held mutexes
name their owner, are registered, held once and not awaited by their holder,
free mutexes have no queue, the dead hold nothing. None of the properties is
inductive alone. `IdleAvailable` needs `ReadyIsQueued` and that idle never
blocks; `OneRunning` needs that the scheduler finds a thread; that the popped
thread lives needs termination to flush *all* its entries; that a death
releases everything (`DeathReleases`) needs that a mutex is held once, or the loop of
`releaseAllMutex` would end with another count; that a deleted mutex is not held needs the owner to agree
with `heldMutex`.

In the middle of `VMThreadTerminate` the invariant is broken: the thread is
DEAD, holds mutexes and may be queued. The parameter `dying` of `KernelInv` is
the one thread excepted. `MarkDead` introduces the exception, `ReleaseAllInv`
carries it through the releases and `TerminateInv` removes it.

The loops of the code are recursive functions in `Kernel` (`ReleaseAllMutex`,
`TimerTick`, `Without`). Each is proved about in three steps: that the function
exists (`..LoopExists`), what it is after every round (`..Rounds`), and a loop
invariant, through the lemma `Rounds`. `Rounds` (module `Loops`) is the induction
principle in a form with a *set* of rounds in place of a predicate; it follows from
the well-foundedness of the naturals.

`SchedulerInv` is proved once, and every step of `VMThreads` that ends in
`scheduler()` is `SwitchStep`; the others are `KeepStep`.

**Argument, mutexes.** The lemmas `..Onward` say what each operator does to waiters
and locks. `Onward(s, r)` is a relation that composes: nobody is registered, named
or begins to wait, and who still waits is in the queues it was in. To a lock an
operator does one of five things: nothing (`LockKept`), the release to the head of
the queue (`LockReleased`), the departure of some waiters (`LockThinned`), the
acquisition (`LockTaken`) or one more waiter (`LockQueued`). An API call does one of
them to one lock, or the second to all the locks of a terminated thread; an
interrupt, which times out any number of waiters, thins any number of queues. These
are the steps of `MutexSpec` (`NextLocks`). The abstract locks are there from the
start; that `VMMutexCreate`, which makes a mutex free and unqueued, changes nothing
about its lock needs `Unowned` besides the kernel's invariant: only free mutexes are
deleted. `QueuesDistinct` follows from the *steps* of
`MutexSpec` and needs no more of the code. For `NoLostWaiter` (lemma `WaitersStep`)
each step is one of one thread, and only that thread can begin to wait (`Moves`);
what it does then is `AcquireQueues`: it is in the queue, or another thread with
its identifier is, which `UniqueIDs` excludes.

**Argument, files.** `SInv` is `KernelInv` with the types of the file functions, and
`Executes` in place of `OneRunning`: the executing thread is RUNNING, except between
the `setState` of a chunk and its `scheduler()`, where it is WAITING, or READY again
when the reply was faster. `KernelInv` says less than `OneRunning` for that reason.
The other calls of threads are those of `VMThreads`, whose lemmas are about any
state with `CallInv`, the part of its invariant that holds here too. A `fileCallback`
can find its thread in any state, a deleted one included, and queues it only when it
is WAITING: that keeps `ReadyQueued` and `QueuedRunnable`.
`FileLocks` says of every step of `FileNext` that it is a step of the locks
(`LockStep`): the steps of the file functions leave owners and queues alone.

`NothingBeforeReply` says that a thread in a file function is not RUNNING before its
reply. The invariant `ReplyInv` under it says why. *Calm*: nobody has or awaits a
mutex, and every entry of a ready queue is that of a READY thread, once; so a
WAITING thread runs only when something makes it READY. *Sleepers*: ticks left are
those of a thread that sleeps, so the timer wakes nobody else. *DeadPlaces*: who
dies is not in a file function, so nobody comes back to one. *Once*: a thread has one
request in the machine or one callback on some stack, never two, so that the reply
that wakes it is that of this call. *AwaitsWait*: who awaits a reply is WAITING from
its `setState` on; before it, in a read or a write, the thread may be preempted, and
the callback of a reply that has come then spins until it waits. `Buffered` says that
the piece of the shared pool a request names is in use and belongs to the call that
made the request, and no other call has it. `Counted` says that what a call has
summed up is its length less what is left, and that the reply to come or just come is
for the chunk in hand.

**Argument, Signals.** `IInv` has three parts that hold for different reasons.
`Types`, `Depth`, `AppFirst` and `Masked` always hold. `Masked` says that a function
that has suspended the signals and not resumed them (`Inside`) executes, as the last
call of its stack, with everything blocked: nothing interrupts it, and it is not
switched out, since `scheduler()` resumes before it switches. The last is what makes a
switch safe: whatever stack it leads to, nobody there believes the signals suspended.

`NotBlocked` holds until a mask leaks: `sigs` never has the alarm in it, no handler on
any stack, and no `MachineContextCreate`, returns to a mask with it (`Safe`), and only
a suspended function executes with it blocked. A mask that is saved is that of code
outside of these functions, and what is resumed is what was saved, on any stack: that
SIGUSR2 may be blocked in it is what `blocked_reply` shows.

`Whole` holds until a race: at most one call of `scheduler()` is between its first
line and its switch, on the executing stack, with nothing but handlers of replies
above it (`Works`), so that `pt` is the stack that executes when the contexts are
switched. `Runner` says when the running thread is RUNNING: unless a call of
`scheduler()` is about to begin or to choose because it is not, as it is in a transfer
between `setState` and `scheduler()`, where a reply may make it READY before it has
left the processor. `Machinery` is `KernelInv`, the invariant of the kernel, which
does not need that a running thread is RUNNING, with `Within`: whoever is alive, waits
or is queued has a context. That is why activation before `setContext` is one of the
three races. A step is then an operator of `Kernel` with its lemma from `KernelInv`
(`MachineryStep`), and the actions differ in what they do to `Works` and `Runner`:
nothing (`QuietStep`), a reply (`ReplyStep`), the three steps of `scheduler()`
(`RequeuesStep`, `PicksStep`, `SwitchesStep`). `EnterStack`, `BecomesStack` and
`LeaveStack` are the three things a step does to a stack, `NextStacks` says that every
step does one of them or nothing, and the lemmas on types, depth and masks are by
that.

**Argument, pools.** `Kept` is what the vectors owe nobody: every live pool is
`Sound`, its blocks in order, inside and apart. It is inductive, for every size.
That `allocate` inserts where the order wants the block is a loop invariant of the
search: up to round *k* no gap before block *k* was large enough. The same invariant
makes the search first fit, and the sum of `countFree` is the free bytes by an
induction on the blocks, with the cardinality of the union of their ranges.
`ClaimsHold` is about many pools at once. `IInv` adds that each claim has a block of
its own (`ClaimsPlaced`), that no block is empty (`NoEmptyBlock`: two blocks at one
address would otherwise be possible, and `deallocate` finds the first), that each
pool but the machine's two fills exactly one claim in an older pool
(`PoolsClaimed`), that the heap and the shared pool stay (`MachinePools`, as the
stack of idle is never given back), and `Nested`: a claim and a live pool are one
in the other or apart. The last is what two claims of *different* pools need in
order not to overlap. `deallocate` and `Delete` keep it because a pool goes only when
it is empty. Each pool function refines its action of `Arena`; the lemma
`ReplaceView` says that changing one pool changes one arena.

**Argument, machine.** `SInv` counts: bytes in the pipe, a pending signal of the child
and a `kill` about to be sent are together never more than the messages in the
request channel (`Announced`), so merging signals lose bytes and never invent
them; a reply in its channel has a signal, a handler or a `kill` to come
(`RepliesAreFetched`). `KInv` says where requests are: queues and pending callbacks
agree (`Registered`), no identifier is in two places (`Apart`), every client's
identifier is in one (`Found`), and `pollFDs` agrees with the reads (`Polls`: each
descriptor once, and no other when `poll` is called). The refinement maps `asked` of a
class to the reads of the class followed by what the request channel has of it. A send
is an `Ask`; the child's execution or refusal of a request, and the end of a read,
are an `Answer`; a read that begins to wait moves from the second part of `asked` to
the first, and nothing changes, *because* nothing of its class is before it in the
channel; the parent's `msgrcv` is a `Deliver`. The lemmas on `Only` (`OnlyAppend`,
`OnlySkip`, `OnlyFirst`) say what that selection makes of an append and of a removal.

**Argument, volume.** `DirInv` says of every open directory of the root that what was
read through it is the root up to its position (`SeenUpTo`), and that of two
directories with one descriptor the younger is at the start (`YoungerDirsWait`).
Only together are they inductive: a read goes to the oldest directory of the
descriptor (`findDirFirst`), and when that is closed the next one is read from where
it is, which has to be the start. That each used entry then comes exactly once is
`OnlyPrefix`: `Only` of a beginning is a beginning of `Only`. For the types, what the
application's buffer holds comes out of two nested loops, over the characters of the
argument (`EntriesFolded`) and over its entries (`AddEntriesFolded`). Both are
instances of `Folded` (module `Loops`): what a loop over a sequence returns is in the
set its rounds stay in. For `SimplifyPath` that set is `Sims`: while the status is
success, the path is absolute and fits. That a successful round leaves it so is
`AddEntryType`, where going up must not take the first delimiter, and going down
has compared the lengths before it writes. `RootLeftByParent` needs that the
working directory is a text (`CurrentInv`), so that cutting it at its last delimiter
leaves the first character unless that is the only delimiter.

`ReadsTheChain` is a loop invariant of `readFromFile`, `ReadInv`: after *n* rounds, a
loop that goes on has returned *n* whole clusters, those of the chain from the start of
the file, and is at the next one; a loop that has ended has read to the bound, or to
the end of the chain, or has met a free cluster before the bound. The round
(`ReadInvRound`) is about a byte in cluster *n* + 1 and one in an earlier cluster,
which takes that quotient and remainder are unique (`DivisionUnique`). `Chain` is a
reference the loop does not use: `ChainNext` relates its rounds to the table. The
number of rounds allowed is enough because each takes a cluster off the length
(`ReadInvEnd`).

`SimplifyFollowsNames` compares two loops, one over characters and entries and one
over names. `Appends` (module `Loops`) is what replaces induction: a set with the
empty sequence, closed under `Append`, contains all sequences. Along the characters of
a plain absolute path its entries are whole, up to a name that has just begun
(`Parted`), so that the path is that of its names but for a delimiter at its end
(`Named`), which is what the path of the application always is (`PathNamed`). Along
those of a relative path, one round over an entry agrees with one step of the walk
over its name (`EntryAgrees`): the path made so far is that of the names come to, and
it has no more characters than the path and the argument have so far, which is what
makes "for want of room" true (`Walked`). The entry at the end may not be complete,
and its round is only taken once it is. `PathOfNames` brings the result back: the
path of a list of names has these names.

`OpensWhatIsFound` follows `SimplifyPath` along "./" and a name in the same way
(`Opened`), without names: an entry that is neither "." nor ".." comes after the path
as it is, so that delimiters in a row stay as they are, too.

**Only model-checked:**

* `RelativePathsLead`: `RelativePath` compares characters and counts delimiters, and
  what it returns leads back through `SimplifyPath`; that takes the longest common
  beginning of two texts in terms of the names of both.
* liveness, which with fairness and `ENABLED` is beyond the prover.

## 6. Not modelled, and the plan

Out of scope for good: the module loader, `VMFilePrint`, option parsing
(input and output only), the example applications (the models let
applications do anything), the older copies in `proj4Tests`.

In order of importance:

1. *Proofs*: that relative paths lead where they say (`RelativePathsLead`), by the
   common names of two paths.
2. *Shutdown*: the loops of `VMStart` after the application. By then the module is
   unloaded, the machine gone and the timer off, but the first `VMThreadTerminate`
   calls `scheduler()`, which may pick a thread of the application and never come
   back; the loop over the mutexes erases from the vector it walks.
3. *The inside of `MachineContextCreate`*: SIGUSR1, its action and the alternative
   stack; `Signals` says only that a creation that was interrupted may go wrong.

Of the parts that are modelled, this is left out: the data written and, but
for files of the image, read; null pointers other than that of `VMThreadState`,
negative lengths, the failures of system calls in `MachineInitialize`, the updates
of `MachinePendingCallbacks` inside a step (an alarm can come between them, and what
`std::map` does then is undefined), dates and the long names of directory
entries, and `VMFileSystemValidPathName`, which nothing calls.
