------------------------------- MODULE FileIO -------------------------------
(***************************************************************************)
(* The file functions of the virtual machine (VirtualMachine.cpp) on top   *)
(* of its threads (VMThreads) and of the machine as a channel (IOChannel). *)
(*                                                                         *)
(* A file function sends a request, blocks its thread and calls            *)
(* scheduler().  The handler of replies runs on the stack of whatever      *)
(* thread the signal interrupts; fileCallback spins in it until the thread *)
(* of the request is WAITING.  The timer interrupts the handler too.       *)
(*                                                                         *)
(* VMFileOpen, VMFileClose and VMFileSeek suspend the signals up to their  *)
(* call of scheduler().  VMFileRead and VMFileWrite call scheduler() while *)
(* they allocate their buffer, which leaves the signals enabled for the    *)
(* rest: each of their steps is an action.                                 *)
(***************************************************************************)
EXTENDS VMThreads

CONSTANTS
  FileCalls,  \* the file functions the threads use
  Buffer,     \* the pieces of 512 bytes of the shared memory pool
  Chunk,      \* 512
  Lengths,    \* the lengths given to VMFileRead and VMFileWrite
  Faults      \* whether a request can fail or transfer less than it asked

ASSUME FileAssumption ==
  /\ FileCalls \subseteq {"open", "close", "seek", "read", "read_fat", "write"}
  /\ NULL \notin Buffer
  /\ Chunk \in Nat \ {0}
  /\ Lengths \subseteq Nat
  /\ Faults \in BOOLEAN

VARIABLES
  cd,       \* Thread::cd, where the callback leaves its result
  call,     \* the locals of the VMFileRead or VMFileWrite a thread is in
  handler,  \* the thread whose callback runs on each thread's stack
  asked,    \* the machine: requests without an answer
  answers,  \* the machine: answers whose callback has not run
  buffers   \* the allocated pieces of the shared pool

fileVars == <<cd, call, handler, asked, answers, buffers>>
allVars == <<vars, fileVars>>

EmptyCall == [kind |-> "none", len |-> 0, left |-> 0, sum |-> 0, buf |-> NULL]

\* Requests: reads wait for their descriptor, the others are done "now".
FileClass == {"now", "read"}

FileRequest ==
  [client : Thread, class : FileClass, len : 0 .. Chunk,
   buf : Buffer \cup {NULL}]

Machine == INSTANCE IOChannel WITH Class <- FileClass, Request <- FileRequest

FileInit ==
  /\ Init
  /\ cd = [t \in Thread |-> 0]
  /\ call = [t \in Thread |-> EmptyCall]
  /\ handler = [t \in Thread |-> NULL]
  /\ Machine!Init
  /\ buffers = {}

\* Thread t, which is not idle, calls a file function.
CallsFile(t, kind) == t # Idle /\ kind \in FileCalls /\ At(t, "app")

-----------------------------------------------------------------------------
(* VMFileOpen, VMFileClose, VMFileSeek                                     *)

\* The request, the wait and scheduler() in one run without interruption.
AskAndWait(t, result) ==
  /\ Machine!Ask([client |-> t, class |-> "now", len |-> 0, buf |-> NULL])
  /\ cd' = [cd EXCEPT ![t] = result]
  /\ vm' = Scheduler(Wait(vm, t))
  /\ pc' = [pc EXCEPT ![t] = "file"]
  /\ UNCHANGED <<frame, call, handler, buffers>>

Open(t)  == CallsFile(t, "open")  /\ AskAndWait(t, -18)
Close(t) == CallsFile(t, "close") /\ AskAndWait(t, 1)
Seek(t)  == CallsFile(t, "seek")  /\ AskAndWait(t, -728)

\* After scheduler(): the result is the caller's cd.
FileReturn(t) ==
  /\ At(t, "file")
  /\ pc' = [pc EXCEPT ![t] = "app"]
  /\ UNCHANGED <<vm, frame, fileVars>>

-----------------------------------------------------------------------------
(* VMFileRead, VMFileWrite                                                 *)

\* VMMemoryPoolAllocate on the shared pool: it refuses a size of zero.
Allocated(n) ==
  IF n = 0 \/ buffers = Buffer THEN {NULL} ELSE Buffer \ buffers

\* A round of "try to allocate until it works", then scheduler().
AllocateRound(t, c) ==
  /\ \E b \in Allocated(c.len) :
       /\ buffers' = buffers \cup ({b} \ {NULL})
       /\ call' = [call EXCEPT ![t] = [c EXCEPT !.buf = b]]
  /\ vm' = Scheduler(vm)
  /\ pc' = [pc EXCEPT ![t] = "buffer"]

Transfer(t) ==
  \E kind \in {"read", "read_fat", "write"}, n \in Lengths :
    /\ CallsFile(t, kind)
    /\ AllocateRound(t, [EmptyCall EXCEPT !.kind = kind, !.len = n, !.left = n])
    /\ cd' = [cd EXCEPT ![t] = IF kind = "write" THEN -739 ELSE -728]
    /\ UNCHANGED <<frame, handler, asked, answers>>

TransferRetry(t) ==
  /\ At(t, "buffer")
  /\ call[t].buf = NULL
  /\ AllocateRound(t, call[t])
  /\ UNCHANGED <<frame, cd, handler, asked, answers>>

\* Mutants of ChunkLength: no min, or the wrong side of it.
ChunkLengthFull(left) == Chunk
ChunkLengthLeft(left) == left

ChunkLength(left) == IF left < Chunk THEN left ELSE Chunk

\* MachineFileRead or MachineFileWrite, with the signals enabled around it.
SendChunk(t, left) ==
  /\ Machine!Ask([client |-> t,
                  class  |-> IF call[t].kind = "read" THEN "read" ELSE "now",
                  len    |-> ChunkLength(left),
                  buf    |-> call[t].buf])
  /\ pc' = [pc EXCEPT ![t] = "sent"]

TransferSend(t) ==
  /\ At(t, "buffer")
  /\ call[t].buf # NULL
  /\ call[t].kind # "read_fat"
  /\ SendChunk(t, call[t].left)
  /\ UNCHANGED <<vm, frame, cd, call, handler, buffers>>

TransferWait(t) ==
  /\ At(t, "sent")
  /\ vm' = Wait(vm, t)
  /\ pc' = [pc EXCEPT ![t] = "waiting"]
  /\ UNCHANGED <<frame, fileVars>>

TransferBlock(t) ==
  /\ At(t, "waiting")
  /\ vm' = Scheduler(vm)
  /\ pc' = [pc EXCEPT ![t] = "chunk"]
  /\ UNCHANGED <<frame, fileVars>>

\* The loop goes on while lenleft >= 0, so once more when it reaches zero.
TransferNext(t) ==
  LET left == call[t].left - Chunk IN
  /\ At(t, "chunk")
  /\ left >= 0
  /\ call' = [call EXCEPT ![t].left = left, ![t].sum = @ + cd[t]]
  /\ SendChunk(t, left)
  /\ UNCHANGED <<vm, frame, cd, handler, buffers>>

\* VMFileWrite gives its buffer back; VMFileRead does not.
TransferDone(t) ==
  /\ At(t, "chunk")
  /\ call[t].left - Chunk < 0
  /\ cd' = [cd EXCEPT ![t] = call[t].sum + cd[t]]
  /\ buffers' = IF call[t].kind = "write" THEN buffers \ {call[t].buf}
                ELSE buffers
  /\ call' = [call EXCEPT ![t] = EmptyCall]
  /\ pc' = [pc EXCEPT ![t] = "app"]
  /\ UNCHANGED <<vm, frame, handler, asked, answers>>

\* A descriptor of 3 or more is read from the FAT image without the machine;
\* one that no open directory has is a null pointer.
ReadFAT(t) ==
  /\ At(t, "buffer")
  /\ call[t].buf # NULL
  /\ call[t].kind = "read_fat"
  /\ vm' \in {vm, Undefined(vm)}
  /\ \E n \in 0 .. call[t].len : cd' \in {cd, [cd EXCEPT ![t] = n]}
  /\ call' = [call EXCEPT ![t] = EmptyCall]
  /\ pc' = [pc EXCEPT ![t] = "app"]
  /\ UNCHANGED <<frame, handler, asked, answers, buffers>>

-----------------------------------------------------------------------------
(* The machine and the handler of its replies                              *)

MachineAnswers ==
  /\ \E c \in FileClass : Machine!Answer(c)
  /\ UNCHANGED <<vars, cd, call, handler, buffers>>

\* What open, close, seek (len 0), read and write may return.
Result(r) == IF Faults THEN -1 .. r.len ELSE {r.len}

\* The first step of fileCallback, on the stack of the running thread.
ReplySignal(t) ==
  /\ vm.halt = "no" /\ vm.tr = t
  /\ handler[t] = NULL
  /\ answers # << >>
  /\ LET r == Head(answers) IN
       /\ Machine!Deliver(r)
       /\ IF r.client \in vm.freed
          THEN vm' = Undefined(vm) /\ UNCHANGED <<cd, handler>>
          ELSE /\ \E n \in Result(r) : cd' = [cd EXCEPT ![r.client] = n]
               /\ handler' = [handler EXCEPT ![t] = r.client]
               /\ UNCHANGED vm
  /\ UNCHANGED <<pc, frame, call, buffers>>

\* Mutant of Wake: the thread is not pushed.
WakeNoPush(s, u) == [s EXCEPT !.state[u] = "READY"]

Wake(s, u) == PushReady([s EXCEPT !.state[u] = "READY"], u)

\* Mutant of Callback: the handler calls it once more.
CallbackAgain(t) ==
  /\ vm.halt = "no" /\ vm.tr = t
  /\ handler[t] # NULL /\ handler[t] \notin vm.freed
  /\ vm.state[handler[t]] = "WAITING" /\ vm' = Wake(vm, handler[t])
  /\ UNCHANGED <<pc, frame, cd, call, handler, asked, answers, buffers>>

\* The end of fileCallback, once the thread is found WAITING.
Callback(t) ==
  /\ vm.halt = "no" /\ vm.tr = t
  /\ handler[t] # NULL
  /\ IF handler[t] \in vm.freed
     THEN vm' = Undefined(vm)
     ELSE vm.state[handler[t]] = "WAITING" /\ vm' = Wake(vm, handler[t])
  /\ handler' = [handler EXCEPT ![t] = NULL]
  /\ UNCHANGED <<pc, frame, cd, call, asked, answers, buffers>>

-----------------------------------------------------------------------------
FileCall(t) == Open(t) \/ Close(t) \/ Seek(t) \/ Transfer(t)

FileStep(t) ==
  \/ FileReturn(t) \/ TransferRetry(t) \/ TransferSend(t) \/ TransferWait(t)
  \/ TransferBlock(t) \/ TransferNext(t) \/ TransferDone(t) \/ ReadFAT(t)

OtherCall(t) == (ThreadCall(t) \/ MutexCall(t)) /\ UNCHANGED fileVars

\* A thread with a handler on its stack executes the handler.
FileNext ==
  \/ \E t \in Thread :
       \/ handler[t] = NULL /\ (FileCall(t) \/ FileStep(t) \/ OtherCall(t))
       \/ ReplySignal(t) \/ Callback(t)
  \/ TimerISR /\ UNCHANGED fileVars
  \/ MachineAnswers
  \/ Halted /\ UNCHANGED fileVars

FileSpec == FileInit /\ [][FileNext]_allVars

\* The timer ticks, the machine answers, its signal is delivered, and a
\* thread that gets the processor again and again goes on in its function:
\* its share between two ticks is many instructions.
FileFairness ==
  /\ WF_allVars(TimerISR /\ UNCHANGED fileVars)
  /\ WF_allVars(MachineAnswers)
  /\ SF_allVars(\E t \in Thread : ReplySignal(t))
  /\ \A t \in Thread :
       /\ SF_allVars(handler[t] = NULL /\ FileStep(t))
       /\ SF_allVars(Callback(t))

-----------------------------------------------------------------------------
(* Safety                                                                  *)

\* The variables have their types.
FileTypeOK ==
  /\ vm \in VMState
  /\ pc \in [Thread -> Location \cup {"file", "buffer", "sent", "waiting", "chunk"}]
  /\ cd \in [Thread -> Int]
  /\ call \in [Thread ->
       [kind : {"none", "read", "read_fat", "write"}, len : Nat, left : Nat,
        sum : Int, buf : Buffer \cup {NULL}]]
  /\ handler \in [Thread -> Thread \cup {NULL}]
  /\ asked \in [FileClass -> Seq(FileRequest)]
  /\ answers \in Seq(FileRequest)
  /\ buffers \subseteq Buffer

Outstanding == (UNION {Elems(asked[c]) : c \in FileClass}) \cup Elems(answers)

\* The callback of t's request has not run to its end.
Awaits(t) ==
  \/ \E r \in Outstanding : r.client = t
  \/ \E u \in Thread : handler[u] = t

\* "It blocks in the wait state VM_THREAD_STATE_WAITING until the either
\* successful or unsuccessful closing of the file is completed" (Project02.pdf,
\* page 20, and VirtualMachine.cpp:151): whoever goes on after the scheduler()
\* of a file function has had its reply.
WaitsForReply ==
  \A t \in Thread :
    vm.halt = "no" /\ pc[t] \in {"file", "chunk"} /\ vm.tr = t => ~ Awaits(t)

\* fileCallback does not spin for a thread in VMFileOpen, VMFileClose or
\* VMFileSeek: by the time of the reply it is WAITING.  (It may for a thread in
\* VMFileRead or VMFileWrite: see TransfersReturn.)
RepliesFindTheirThread ==
  \A t \in Thread :
    /\ vm.halt = "no"
    /\ handler[t] # NULL
    /\ pc[handler[t]] = "file"
    => vm.state[handler[t]] = "WAITING"

\* While the machine has a request with a buffer, that buffer is allocated and
\* no other thread uses it: data never goes to another thread's call.
BuffersNotShared ==
  \A r \in Outstanding :
    r.buf # NULL =>
      /\ r.buf \in buffers
      /\ \A t \in Thread \ {r.client} : call[t].buf # r.buf

\* Nothing is done before the reply that it depends on: no thread goes on, no
\* piece of the shared pool is used again.
NothingBeforeReply == WaitsForReply /\ BuffersNotShared

\* "Cycle as needed to print everything in blocks of 512 bytes at a time"
\* (VirtualMachine.cpp:194): a transfer that reports success transferred all
\* the bytes asked for.
TransfersAll ==
  [][\A t \in Thread :
       pc[t] = "chunk" /\ pc'[t] = "app" /\ cd'[t] >= 0
         => cd'[t] = call[t].len]_allVars

-----------------------------------------------------------------------------
(* Liveness                                                                *)

\* "Until the either successful or unsuccessful writing of the file is
\* completed" (Project02.pdf, page 22): a write waits no longer than that.
TransfersReturn ==
  \A t \in Thread :
    pc[t] \in {"sent", "waiting", "chunk"} ~> (pc[t] = "app" \/ vm.halt # "no")
=============================================================================
