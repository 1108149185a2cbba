----------------------------- MODULE FileIO_proofs -----------------------------
(***************************************************************************)
(* Theorems about FileIO.  The file functions compose the operators of     *)
(* Kernel, whose lemmas are in KernelInv, and leave the other calls of     *)
(* threads to VMThreads, whose lemmas are in VMThreads_proofs.             *)
(*                                                                         *)
(* SInv is what holds in every program.  Between the setState and the      *)
(* scheduler() of a read or a write the thread that executes is WAITING,   *)
(* or READY again, so not all of the invariant of VMThreads carries over.  *)
(***************************************************************************)
EXTENDS FileIO, VMThreads_proofs

FileLocation == Location \cup {"file", "buffer", "sent", "waiting", "chunk"}

FileCallType ==
  [kind : {"none", "read", "read_fat", "write"}, len : Nat, left : Nat,
   sum : Int, buf : Buffer \cup {NULL}]

\* The types of the variables that are not the virtual machine's.
ThreadTypes == pc \in [Thread -> FileLocation] /\ frame \in [Thread -> FrameType]

FileTypes ==
  /\ cd \in [Thread -> Int]
  /\ call \in [Thread -> FileCallType]
  /\ handler \in [Thread -> Thread \cup {NULL}]
  /\ asked \in [FileClass -> Seq(FileRequest)]
  /\ answers \in Seq(FileRequest)
  /\ buffers \subseteq Buffer

\* The executing thread is RUNNING, but for the moment before it blocks in a
\* read or a write.
Executes == vm.state[vm.tr] = "RUNNING" \/ pc[vm.tr] = "waiting"

IdleComputes == pc[Idle] = "app"

SInv ==
  /\ KernelInv(vm, NULL)
  /\ ThreadTypes /\ FileTypes
  /\ Executes /\ IdleComputes

-----------------------------------------------------------------------------
(* The virtual machine                                                     *)

\* The state of a file is that of the kernel: its parts have their types.
LEMMA FileState ==
  ASSUME SInv
  PROVE  /\ vm \in VMState /\ vm.tr \in Thread
         /\ Main \in Thread /\ Idle \in Thread
         /\ Elems(vm.threads) \subseteq Thread
<1>1. vm \in VMState
  BY DEF SInv, KernelInv, Typed
<1> QED BY <1>1, QueueType DEF VMState, Thread

\* Where a thread is when it calls, or goes on in, an API function.
LEMMA CallPlace ==
  ASSUME NEW t \in Thread, ThreadCall(t) \/ MutexCall(t)
  PROVE  /\ vm.halt = "no" /\ vm.tr = t
         /\ pc[t] \in Location
         /\ pc[t] = "app" => t # Idle
<1>1. ASSUME NEW c, Calling(t, c) PROVE vm.halt = "no" /\ vm.tr = t /\ pc[t] = "app" /\ t # Idle
  BY <1>1, Caller DEF Calling, At
<1>2. ASSUME NEW l, At(t, l) PROVE vm.halt = "no" /\ vm.tr = t /\ pc[t] = l
  BY <1>2 DEF At
<1>3. CASE Create(t)
  <2>1. \/ Calling(t, "create") \/ At(t, "alloc") \/ At(t, "newid") \/ At(t, "incid")
    BY <1>3 DEF Create, CreateAllocate, CreateSkipsLoop, CreateRetry,
       CreateReadID, CreateLoadNext, CreateStore
  <2> QED BY <1>1, <1>2, <2>1 DEF Location
<1>4. CASE ThreadCall(t) /\ ~ Create(t)
  <2>1. \/ Calling(t, "activate") \/ Calling(t, "terminate") \/ Calling(t, "delete")
        \/ Calling(t, "return") \/ Calling(t, "sleep") \/ Calling(t, "yield")
        \/ At(t, "exit") \/ At(t, "sleep")
    BY <1>4 DEF ThreadCall, Activate, ThreadTerminate, ThreadDelete,
       EntryReturn, BootReturn, Sleep, SleepReturn, Yield
  <2> QED BY <1>1, <1>2, <2>1 DEF Location
<1>5. CASE MutexCall(t)
  <2>1. \/ Calling(t, "mutex_create") \/ Calling(t, "try_acquire")
        \/ Calling(t, "acquire") \/ At(t, "acquire") \/ Calling(t, "release")
        \/ Calling(t, "mutex_delete")
    BY <1>5 DEF MutexCall, MutexCreate, TryAcquire, AcquireFree, AcquireBlock,
       AcquireReturn, MutexRelease, MutexDelete, MutexDeleteUnknown
  <2> QED BY <1>1, <1>2, <2>1 DEF Location
<1> QED BY <1>3, <1>4, <1>5

\* A call changes the place of its thread, which is not idle, and that of a
\* thread it creates.
LEMMA CallMoves ==
  ASSUME SInv, NEW t \in Thread, ThreadCall(t) \/ MutexCall(t)
  PROVE  /\ t # Idle
         /\ \A u \in Thread \ {t} : pc'[u] = pc[u] \/ (u \in Unborn /\ pc'[u] = "app")
         /\ pc'[t] \in Location
<1>1. pc \in [Thread -> FileLocation]
  BY DEF SInv, ThreadTypes
<1>2. t # Idle /\ pc[t] \in Location
  BY CallPlace DEF SInv, IdleComputes
<1>3. CASE CreateStore(t)
  <2>1. PICK u \in Unborn : pc' = [pc EXCEPT ![t] = "app", ![u] = "app"]
    BY <1>3, ZenonT(40) DEF CreateStore
  <2> QED BY <1>1, <1>2, <2>1 DEF Location
<1>4. CASE ThreadCall(t) /\ ~ CreateStore(t)
  BY <1>1, <1>2, <1>4 DEF ThreadCall, Create, CreateAllocate, CreateSkipsLoop,
     CreateRetry, CreateReadID, CreateLoadNext, Activate, ThreadTerminate,
     ThreadDelete, EntryReturn, BootReturn, Sleep, SleepReturn, Yield, Location
<1>5. CASE MutexCall(t)
  BY <1>1, <1>2, <1>5 DEF MutexCall, MutexCreate, TryAcquire, AcquireFree,
     AcquireBlock, AcquireReturn, MutexRelease, MutexDelete, MutexDeleteUnknown,
     Location
<1> QED BY <1>3, <1>4, <1>5

-----------------------------------------------------------------------------
(* Types                                                                   *)

\* A chunk is never longer than 512 bytes.
LEMMA ChunkType ==
  ASSUME NEW left \in Nat
  PROVE  ChunkLength(left) \in 0 .. Chunk /\ ChunkLength(left) \in Nat
BY FileAssumption DEF ChunkLength

\* Requests stay requests on their way through the machine.
LEMMA MachineTypes ==
  ASSUME FileTypes,
         \/ \E r \in FileRequest : Machine!Ask(r)
         \/ \E c \in FileClass : Machine!Answer(c)
         \/ \E r : Machine!Deliver(r)
         \/ UNCHANGED <<asked, answers>>
  PROVE  asked' \in [FileClass -> Seq(FileRequest)] /\ answers' \in Seq(FileRequest)
<1>1. asked \in [FileClass -> Seq(FileRequest)] /\ answers \in Seq(FileRequest)
  BY DEF FileTypes
<1>2. ASSUME NEW r \in FileRequest, Machine!Ask(r)
      PROVE  asked' \in [FileClass -> Seq(FileRequest)] /\ answers' \in Seq(FileRequest)
  <2>1. r.class \in FileClass
    BY DEF FileRequest
  <2>2. Append(asked[r.class], r) \in Seq(FileRequest)
    BY <1>1, <2>1, AppendElems
  <2> QED BY <1>1, <1>2, <2>1, <2>2 DEF Machine!Ask
<1>3. ASSUME NEW c \in FileClass, Machine!Answer(c)
      PROVE  asked' \in [FileClass -> Seq(FileRequest)] /\ answers' \in Seq(FileRequest)
  <2>1. Head(asked[c]) \in FileRequest /\ Tail(asked[c]) \in Seq(FileRequest)
    BY <1>1, <1>3, TailElems DEF Machine!Answer
  <2>2. Append(answers, Head(asked[c])) \in Seq(FileRequest)
    BY <1>1, <2>1, AppendElems
  <2> QED BY <1>1, <1>3, <2>1, <2>2 DEF Machine!Answer
<1>4. ASSUME NEW r, Machine!Deliver(r)
      PROVE  asked' \in [FileClass -> Seq(FileRequest)] /\ answers' \in Seq(FileRequest)
  <2>1. Tail(answers) \in Seq(FileRequest)
    BY <1>1, <1>4, TailElems DEF Machine!Deliver
  <2> QED BY <1>1, <1>4, <2>1 DEF Machine!Deliver
<1> QED BY <1>1, <1>2, <1>3, <1>4

\* The request VMFileOpen, VMFileClose and VMFileSeek make.
LEMMA AskTypes ==
  ASSUME SInv, NEW t \in Thread, NEW n \in Int, AskAndWait(t, n)
  PROVE  ThreadTypes' /\ FileTypes' /\ \A u \in Thread \ {t} : pc'[u] = pc[u]
<1>1. ThreadTypes /\ FileTypes
  BY DEF SInv
<1>2. [client |-> t, class |-> "now", len |-> 0, buf |-> NULL] \in FileRequest
  BY FileAssumption DEF FileRequest, FileClass
<1>3. asked' \in [FileClass -> Seq(FileRequest)] /\ answers' \in Seq(FileRequest)
  BY <1>1, <1>2, MachineTypes DEF AskAndWait
<1>4. cd' \in [Thread -> Int] /\ pc' \in [Thread -> FileLocation]
  BY <1>1 DEF AskAndWait, ThreadTypes, FileTypes, FileLocation
<1> QED BY <1>1, <1>3, <1>4 DEF AskAndWait, ThreadTypes, FileTypes

\* A round of the allocation of a buffer.
LEMMA AllocateTypes ==
  ASSUME SInv, NEW t \in Thread, NEW c \in FileCallType, AllocateRound(t, c)
  PROVE  /\ pc' \in [Thread -> FileLocation]
         /\ call' \in [Thread -> FileCallType]
         /\ buffers' \subseteq Buffer
<1>1. pc \in [Thread -> FileLocation] /\ call \in [Thread -> FileCallType] /\ buffers \subseteq Buffer
  BY DEF SInv, ThreadTypes, FileTypes
<1>2. PICK b \in Allocated(c.len) :
        /\ buffers' = buffers \cup ({b} \ {NULL})
        /\ call' = [call EXCEPT ![t] = [c EXCEPT !.buf = b]]
  BY DEF AllocateRound
<1>3. b \in Buffer \cup {NULL}
  BY DEF Allocated
<1>4. [c EXCEPT !.buf = b] \in FileCallType
  BY <1>3 DEF FileCallType
<1> QED BY <1>1, <1>2, <1>3, <1>4 DEF AllocateRound, FileLocation

\* The request VMFileRead and VMFileWrite make.
LEMMA SendTypes ==
  ASSUME SInv, NEW t \in Thread, NEW left \in Nat, SendChunk(t, left)
  PROVE  /\ pc' \in [Thread -> FileLocation]
         /\ asked' \in [FileClass -> Seq(FileRequest)]
         /\ answers' \in Seq(FileRequest)
<1>1. pc \in [Thread -> FileLocation] /\ FileTypes /\ call[t].buf \in Buffer \cup {NULL}
  BY DEF SInv, ThreadTypes, FileTypes, FileCallType
<1> DEFINE class == IF call[t].kind = "read" THEN "read" ELSE "now"
           n == ChunkLength(left)
           b == call[t].buf
<1>2. n \in 0 .. Chunk /\ class \in FileClass
  BY ChunkType DEF FileClass
<1>3. Machine!Ask([client |-> t, class |-> class, len |-> n, buf |-> b])
  BY DEF SendChunk
<1> HIDE DEF class, n
<1>4. [client |-> t, class |-> class, len |-> n, buf |-> b] \in FileRequest
  BY <1>1, <1>2 DEF FileRequest
<1> HIDE DEF b
<1>5. asked' \in [FileClass -> Seq(FileRequest)] /\ answers' \in Seq(FileRequest)
  BY <1>1, <1>3, <1>4, MachineTypes
<1> QED BY <1>1, <1>5 DEF SendChunk, FileLocation

\* The file functions keep the types, and idle calls none of them.
LEMMA FileTypesStep ==
  ASSUME SInv, NEW t \in Thread, FileCall(t) \/ FileStep(t)
  PROVE  /\ ThreadTypes' /\ FileTypes'
         /\ t # Idle /\ vm.halt = "no" /\ vm.tr = t
         /\ \A u \in Thread \ {t} : pc'[u] = pc[u]
<1> USE DEF ThreadTypes, FileTypes
<1>1. ThreadTypes /\ FileTypes /\ call[t] \in FileCallType /\ cd[t] \in Int
  BY DEF SInv
<1>2. /\ Chunk \in Nat /\ -18 \in Int /\ -728 \in Int /\ -739 \in Int /\ 1 \in Int
      /\ NULL \notin Buffer
  BY FileAssumption
<1>3. ASSUME NEW kind, CallsFile(t, kind)
      PROVE  t # Idle /\ vm.halt = "no" /\ vm.tr = t
  BY <1>3 DEF CallsFile, At
<1>4. ASSUME NEW l, At(t, l), l # "app"
      PROVE  t # Idle /\ vm.halt = "no" /\ vm.tr = t
  BY <1>4 DEF At, SInv, IdleComputes
<1>5. CASE Open(t) \/ Close(t) \/ Seek(t)
  BY <1>2, <1>3, <1>5, AskTypes DEF Open, Close, Seek
<1>6. CASE Transfer(t)
  <2>1. PICK kind \in {"read", "read_fat", "write"}, n \in Lengths :
          /\ CallsFile(t, kind)
          /\ AllocateRound(t, [EmptyCall EXCEPT !.kind = kind, !.len = n, !.left = n])
          /\ cd' = [cd EXCEPT ![t] = IF kind = "write" THEN -739 ELSE -728]
          /\ UNCHANGED <<frame, handler, asked, answers>>
    BY <1>6 DEF Transfer
  <2> DEFINE c == [EmptyCall EXCEPT !.kind = kind, !.len = n, !.left = n]
  <2>2. c \in FileCallType
    <3>1. n \in Nat /\ 0 \in Int /\ kind \in {"none", "read", "read_fat", "write"}
      BY FileAssumption
    <3>2. EmptyCall \in FileCallType
      BY DEF EmptyCall, FileCallType
    <3> QED BY <3>1, <3>2 DEF FileCallType
  <2>3. AllocateRound(t, c)
    BY <2>1
  <2> HIDE DEF c
  <2>4. /\ pc' \in [Thread -> FileLocation]
        /\ call' \in [Thread -> FileCallType]
        /\ buffers' \subseteq Buffer
    BY <2>2, <2>3, AllocateTypes
  <2>5. cd' \in [Thread -> Int]
    BY <1>1, <1>2, <2>1
  <2>6. \A u \in Thread \ {t} : pc'[u] = pc[u]
    BY <1>1, <2>3 DEF AllocateRound
  <2> QED BY <1>1, <1>3, <2>1, <2>4, <2>5, <2>6
<1>7. CASE TransferRetry(t)
  <2>1. AllocateRound(t, call[t]) /\ UNCHANGED <<frame, cd, handler, asked, answers>>
    BY <1>7 DEF TransferRetry
  <2>2. \A u \in Thread \ {t} : pc'[u] = pc[u]
    BY <1>1, <2>1 DEF AllocateRound
  <2> QED BY <1>1, <1>4, <1>7, <2>1, <2>2, AllocateTypes DEF TransferRetry
<1>8. CASE TransferSend(t)
  <2>1. SendChunk(t, call[t].left) /\ UNCHANGED <<vm, frame, cd, call, handler, buffers>>
    BY <1>8 DEF TransferSend
  <2>2. call[t].left \in Nat
    BY <1>1 DEF FileCallType
  <2>3. \A u \in Thread \ {t} : pc'[u] = pc[u]
    BY <1>1, <2>1 DEF SendChunk
  <2> QED BY <1>1, <1>4, <1>8, <2>1, <2>2, <2>3, SendTypes DEF TransferSend
<1>9. CASE TransferNext(t)
  <2> DEFINE left == call[t].left - Chunk
  <2>1. left \in Nat /\ call[t].sum + cd[t] \in Int
    BY <1>1, <1>2, <1>9 DEF TransferNext, FileCallType
  <2>2. /\ SendChunk(t, left)
        /\ call' = [call EXCEPT ![t].left = left, ![t].sum = @ + cd[t]]
        /\ UNCHANGED <<vm, frame, cd, handler, buffers>>
    BY <1>9 DEF TransferNext
  <2> HIDE DEF left
  <2>3. call' = [call EXCEPT ![t] = [call[t] EXCEPT !.left = left, !.sum = call[t].sum + cd[t]]]
    BY <1>1, <2>2
  <2>4. [call[t] EXCEPT !.left = left, !.sum = call[t].sum + cd[t]] \in FileCallType
    BY <1>1, <2>1 DEF FileCallType
  <2>5. call' \in [Thread -> FileCallType]
    BY <1>1, <2>3, <2>4
  <2>6. \A u \in Thread \ {t} : pc'[u] = pc[u]
    BY <1>1, <2>2 DEF SendChunk
  <2> QED BY <1>1, <1>4, <1>9, <2>1, <2>2, <2>5, <2>6, SendTypes DEF TransferNext
<1>10. CASE TransferDone(t)
  <2>1. EmptyCall \in FileCallType
    BY DEF EmptyCall, FileCallType
  <2>2. call[t].sum + cd[t] \in Int
    BY <1>1 DEF FileCallType
  <2>3. cd' \in [Thread -> Int] /\ call' \in [Thread -> FileCallType]
    BY <1>1, <1>10, <2>1, <2>2 DEF TransferDone
  <2>4. pc' \in [Thread -> FileLocation] /\ \A u \in Thread \ {t} : pc'[u] = pc[u]
    BY <1>1, <1>10 DEF TransferDone, FileLocation, Location
  <2>5. buffers' \subseteq Buffer /\ UNCHANGED <<vm, frame, handler, asked, answers>>
    BY <1>1, <1>10 DEF TransferDone
  <2> QED BY <1>1, <1>4, <1>10, <2>3, <2>4, <2>5 DEF TransferDone
<1>11. CASE ReadFAT(t)
  <2>1. EmptyCall \in FileCallType
    BY DEF EmptyCall, FileCallType
  <2>2. PICK n \in 0 .. call[t].len : cd' \in {cd, [cd EXCEPT ![t] = n]}
    BY <1>11 DEF ReadFAT
  <2>3. n \in Int
    BY <1>1 DEF FileCallType
  <2>4. cd' \in [Thread -> Int] /\ call' \in [Thread -> FileCallType]
    BY <1>1, <1>11, <2>1, <2>2, <2>3 DEF ReadFAT
  <2>5. pc' \in [Thread -> FileLocation] /\ \A u \in Thread \ {t} : pc'[u] = pc[u]
    BY <1>1, <1>11 DEF ReadFAT, FileLocation, Location
  <2>6. UNCHANGED <<frame, handler, asked, answers, buffers>>
    BY <1>11 DEF ReadFAT
  <2> QED BY <1>1, <1>4, <1>11, <2>4, <2>5, <2>6 DEF ReadFAT
<1>12. CASE FileReturn(t) \/ TransferWait(t) \/ TransferBlock(t)
  <2>1. UNCHANGED <<frame, fileVars>>
    BY <1>12 DEF FileReturn, TransferWait, TransferBlock
  <2>2. UNCHANGED <<frame, cd, call, handler, asked, answers, buffers>>
    BY <2>1 DEF fileVars
  <2>3. pc' \in [Thread -> FileLocation] /\ \A u \in Thread \ {t} : pc'[u] = pc[u]
    BY <1>1, <1>12 DEF FileReturn, TransferWait, TransferBlock, FileLocation, Location
  <2> QED BY <1>1, <1>4, <1>12, <2>2, <2>3 DEF FileReturn, TransferWait, TransferBlock
<1> QED BY <1>5, <1>6, <1>7, <1>8, <1>9, <1>10, <1>11, <1>12 DEF FileCall, FileStep

-----------------------------------------------------------------------------
(* The kernel                                                              *)

\* A step that ends in scheduler() leaves a RUNNING thread.
LEMMA Switches ==
  ASSUME NEW s, KernelInv(s, NULL), vm' = Scheduler(s)
  PROVE  KernelInv(vm', NULL) /\ Executes'
BY SchedulerInv DEF Executes

\* The thread that executes is RUNNING except at "waiting".
LEMMA RunningCaller ==
  ASSUME SInv, pc[vm.tr] # "waiting"
  PROVE  VMInv /\ CallInv
BY DEF SInv, Executes, VMInv, CallInv, ThreadTypes

\* What the file functions do to the state of the virtual machine.
LEMMA FileKernelStep ==
  ASSUME SInv, NEW t \in Thread, FileCall(t) \/ FileStep(t)
  PROVE  KernelInv(vm', NULL) /\ Executes'
<1>1. /\ KernelInv(vm, NULL) /\ pc \in [Thread -> FileLocation]
      /\ t # Idle /\ vm.tr = t /\ vm \in VMState
  BY FileTypesStep, FileState DEF SInv, ThreadTypes
<1>2. pc[t] # "waiting" => vm.state[t] = "RUNNING"
  BY <1>1 DEF SInv, Executes
<1>3. ASSUME pc[t] # "waiting"
      PROVE  /\ KernelInv(Wait(vm, t), NULL) /\ Wait(vm, t).tr = t
  BY <1>1, <1>2, <1>3, WaitInv
<1>4. CASE Open(t) \/ Close(t) \/ Seek(t)
  <2>1. vm' = Scheduler(Wait(vm, t)) /\ pc[t] = "app"
    BY <1>4 DEF Open, Close, Seek, AskAndWait, CallsFile, At
  <2> QED BY <1>3, <2>1, Switches
<1>5. CASE Transfer(t) \/ TransferRetry(t) \/ TransferBlock(t)
  <2>1. vm' = Scheduler(vm)
    BY <1>5 DEF Transfer, TransferRetry, TransferBlock, AllocateRound
  <2> QED BY <1>1, <2>1, Switches
<1>6. CASE TransferWait(t)
  <2>1. vm' = Wait(vm, t) /\ pc[t] = "sent" /\ pc'[t] = "waiting"
    BY <1>1, <1>6 DEF TransferWait, At
  <2> QED BY <1>3, <2>1 DEF Executes
<1>7. CASE FileReturn(t) \/ TransferSend(t) \/ TransferNext(t) \/ TransferDone(t)
  <2>1. vm' = vm /\ pc[t] # "waiting"
    BY <1>7 DEF FileReturn, TransferSend, TransferNext, TransferDone, At
  <2> QED BY <1>1, <1>2, <2>1 DEF Executes
<1>8. CASE ReadFAT(t)
  <2>1. vm' \in {vm, Undefined(vm)} /\ pc[t] # "waiting"
    BY <1>8 DEF ReadFAT, At
  <2>2. KernelInv(vm', NULL)
    BY <1>1, <2>1, UndefinedInv
  <2>3. vm'.state = vm.state /\ vm'.tr = vm.tr
    BY <1>1, <2>1 DEF Undefined, VMState
  <2> QED BY <1>1, <1>2, <2>1, <2>2, <2>3 DEF Executes
<1> QED BY <1>4, <1>5, <1>6, <1>7, <1>8 DEF FileCall, FileStep

\* The handler of replies, on whatever stack it runs.
LEMMA HandlerStep ==
  ASSUME SInv, NEW t \in Thread, ReplySignal(t) \/ Callback(t)
  PROVE  SInv'
<1>1. /\ KernelInv(vm, NULL) /\ vm \in VMState /\ vm.tr = t
      /\ FileTypes /\ ThreadTypes
  BY FileState DEF SInv, ReplySignal, Callback
<1>2. UNCHANGED <<pc, frame, call, buffers>>
  BY DEF ReplySignal, Callback
<1>3. ASSUME vm' = vm \/ vm' = Undefined(vm)
      PROVE  KernelInv(vm', NULL) /\ Executes'
  <2>1. KernelInv(vm', NULL)
    BY <1>1, <1>3, UndefinedInv
  <2>2. vm'.state = vm.state /\ vm'.tr = vm.tr
    BY <1>1, <1>3 DEF Undefined, VMState
  <2> QED BY <1>2, <2>1, <2>2 DEF SInv, Executes
<1>4. ASSUME FileTypes', KernelInv(vm', NULL), Executes'
      PROVE  SInv'
  BY <1>1, <1>2, <1>4 DEF SInv, ThreadTypes, IdleComputes
<1>5. CASE ReplySignal(t)
  <2> DEFINE r == Head(answers)
  <2>1. /\ answers # << >> /\ Machine!Deliver(r)
        /\ IF r.client \in vm.freed
           THEN vm' = Undefined(vm) /\ UNCHANGED <<cd, handler>>
           ELSE /\ \E n \in Result(r) : cd' = [cd EXCEPT ![r.client] = n]
                /\ handler' = [handler EXCEPT ![t] = r.client]
                /\ UNCHANGED vm
    BY <1>5 DEF ReplySignal
  <2>2. r \in FileRequest
    BY <1>1, <2>1, TailElems DEF FileTypes
  <2> HIDE DEF r
  <2>3. asked' \in [FileClass -> Seq(FileRequest)] /\ answers' \in Seq(FileRequest)
    BY <1>1, <2>1, MachineTypes
  <2>4. \A n \in Result(r) : n \in Int
    <3>1. r.len \in Int /\ -1 \in Int
      BY <2>2, FileAssumption DEF FileRequest
    <3> QED BY <3>1 DEF Result
  <2>5. cd' \in [Thread -> Int] /\ handler' \in [Thread -> Thread \cup {NULL}]
    BY <1>1, <2>1, <2>2, <2>4 DEF FileTypes, FileRequest
  <2>6. FileTypes'
    BY <1>1, <1>2, <2>3, <2>5 DEF FileTypes
  <2>7. vm' = vm \/ vm' = Undefined(vm)
    BY <2>1
  <2> QED BY <1>3, <1>4, <2>6, <2>7
<1>6. CASE Callback(t)
  <2>1. FileTypes'
    BY <1>1, <1>2, <1>6 DEF Callback, FileTypes
  <2>2. CASE handler[t] \in vm.freed
    BY <1>3, <1>4, <1>6, <2>1, <2>2 DEF Callback
  <2>3. CASE handler[t] \notin vm.freed
    <3> DEFINE u == handler[t]
    <3>1. /\ u \in Thread /\ vm.state[u] = "WAITING"
          /\ vm' = PushReady([vm EXCEPT !.state[u] = "READY"], u)
      BY <1>1, <1>6, <2>3 DEF Callback, Wake, FileTypes
    <3> HIDE DEF u
    <3>2. u \in Elems(vm.threads) /\ u # NULL
      BY <1>1, <3>1, WaitingRegistered
    <3>3. KernelInv(vm', NULL)
      BY <1>1, <3>1, <3>2, PushInv
    <3>4. vm'.state = [vm.state EXCEPT ![u] = "READY"] /\ vm'.tr = vm.tr
      BY <1>1, <3>1 DEF PushReady, VMState
    <3>5. Executes'
      <4>1. vm.tr = u => pc[vm.tr] = "waiting"
        BY <3>1 DEF SInv, Executes
      <4> QED BY <1>1, <1>2, <3>4, <4>1 DEF SInv, Executes, VMState
    <3> QED BY <1>4, <2>1, <3>3, <3>5
  <2> QED BY <2>2, <2>3
<1> QED BY <1>5, <1>6

\* The other calls of threads are steps of VMThreads.
LEMMA OtherStep ==
  ASSUME SInv, NEW t \in Thread, OtherCall(t)
  PROVE  SInv'
<1>1. ThreadCall(t) \/ MutexCall(t)
  BY DEF OtherCall
<1>2. vm.tr = t /\ pc[t] # "waiting"
  BY <1>1, CallPlace DEF Location
<1>3. CallInv
  BY <1>2, RunningCaller
<1>4. VMInv'
  BY <1>1, <1>3, ThreadCallStep, MutexCallStep DEF VMStep
<1>5. pc' \in [Thread -> FileLocation] /\ frame' \in [Thread -> FrameType]
  <2>1. Location \subseteq FileLocation /\ pc \in [Thread -> FileLocation]
    BY DEF FileLocation, SInv, ThreadTypes
  <2> QED BY <1>1, <1>3, <2>1, CallFrames
<1>6. pc'[Idle] = "app"
  <2>1. Idle \in Thread /\ t # Idle
    BY <1>1, CallMoves, FileState
  <2> QED BY <1>1, <2>1, CallMoves DEF SInv, IdleComputes
<1>7. FileTypes'
  BY DEF OtherCall, SInv, FileTypes, fileVars
<1> QED BY <1>4, <1>5, <1>6, <1>7 DEF SInv, ThreadTypes, Executes, IdleComputes, VMInv

-----------------------------------------------------------------------------
(* Every program                                                           *)

\* Every step of the system keeps SInv.
LEMMA FileNextStep ==
  ASSUME SInv, [FileNext]_allVars
  PROVE  SInv'
<1>1. ASSUME NEW t \in Thread, FileCall(t) \/ FileStep(t) PROVE SInv'
  <2>1. Idle \in Thread /\ t # Idle
    BY <1>1, FileState, FileTypesStep
  <2>2. IdleComputes'
    BY <1>1, <2>1, FileTypesStep DEF SInv, IdleComputes
  <2> QED BY <1>1, <2>2, FileTypesStep, FileKernelStep DEF SInv
<1>2. ASSUME UNCHANGED <<pc, frame, fileVars>>, KernelInv(vm', NULL), Executes'
      PROVE  SInv'
  <2>1. UNCHANGED <<cd, call, handler, asked, answers, buffers>>
    BY <1>2 DEF fileVars
  <2> QED BY <1>2, <2>1 DEF SInv, ThreadTypes, FileTypes, IdleComputes
<1>3. CASE TimerISR /\ UNCHANGED fileVars
  <2>1. vm' = Scheduler(TimerTick(vm)) /\ UNCHANGED <<pc, frame, fileVars>>
    BY <1>3 DEF TimerISR
  <2>2. KernelInv(TimerTick(vm), NULL)
    BY TimerTickInv DEF SInv
  <2> QED BY <1>2, <2>1, <2>2, Switches
<1>4. CASE MachineAnswers
  <2>1. \E c \in FileClass : Machine!Answer(c)
    BY <1>4 DEF MachineAnswers
  <2>2. UNCHANGED <<vm, pc, frame, cd, call, handler, buffers>>
    BY <1>4 DEF MachineAnswers, vars
  <2>3. asked' \in [FileClass -> Seq(FileRequest)] /\ answers' \in Seq(FileRequest)
    BY <2>1, MachineTypes DEF SInv
  <2> QED BY <2>2, <2>3 DEF SInv, ThreadTypes, FileTypes, Executes, IdleComputes
<1>5. CASE (Halted /\ UNCHANGED fileVars) \/ UNCHANGED allVars
  BY <1>2, <1>5 DEF Halted, vars, allVars, SInv, Executes
<1> QED BY <1>1, <1>3, <1>4, <1>5, HandlerStep, OtherStep DEF FileNext

\* The invariant holds at the start.
LEMMA FileInitInv ==
  ASSUME FileInit
  PROVE  SInv
<1>1. IInv /\ Idle \in Thread
  BY InitInv DEF FileInit, Thread
<1>2. ThreadTypes /\ Executes /\ IdleComputes
  <2>1. pc[Idle] = "app"
    BY <1>1 DEF FileInit, Init
  <2>2. Location \subseteq FileLocation
    BY DEF FileLocation
  <2> QED BY <1>1, <2>1, <2>2 DEF IInv, CallInv, VMInv, ThreadTypes, Executes, IdleComputes
<1>3. FileTypes
  <2>1. EmptyCall \in FileCallType
    BY DEF EmptyCall, FileCallType
  <2>2. << >> \in Seq(FileRequest)
    BY EmptySeq
  <2> QED BY <2>1, <2>2 DEF FileInit, FileTypes, Machine!Init
<1> QED BY <1>1, <1>2, <1>3 DEF SInv, IInv, CallInv, VMInv

\* The invariant of every program.
THEOREM FileInvariance == FileSpec => []SInv
<1>1. FileInit => SInv
  BY FileInitInv
<1>2. SInv /\ [FileNext]_allVars => SInv'
  BY FileNextStep
<1> QED BY <1>1, <1>2, PTL DEF FileSpec

\* The variables of the file functions keep their types.
THEOREM FileTypeCorrect == FileSpec => []FileTypeOK
<1>1. SInv => FileTypeOK
  BY DEF SInv, KernelInv, Typed, ThreadTypes, FileTypes, FileTypeOK, FileLocation, FileCallType
<1> QED BY <1>1, FileInvariance, PTL

-----------------------------------------------------------------------------
(* Programs without waits for mutexes                                      *)

\* What the rest is about: programs in which no thread terminates another or
\* waits for a mutex, where the uninitialized ticks of main are not positive.
\* Without it threads stop waiting for a reply for other reasons than it.
OnlyRepliesWake ==
  /\ {"acquire", "try_acquire", "terminate"} \cap (MainCalls \cup AppCalls) = {}
  /\ \A n \in MainTicks : n <= 0

\* No thread holds or awaits a mutex; what is queued is ready, and once.
Calm(s) ==
  /\ \A t \in Thread : s.held[t] = << >> /\ s.waiting[t] = NULL
  /\ \A p \in Priority :
       /\ Distinct(s.readyQ[p])
       /\ \A t \in Elems(s.readyQ[p]) : s.state[t] = "READY"

\* From s to r no thread begins or ceases to wait, dies or comes to life.
Steady(s, r) ==
  /\ Calm(r) /\ r.ticks = s.ticks
  /\ \A t \in Thread : r.state[t] = "WAITING" <=> s.state[t] = "WAITING"
  /\ \A t \in Thread : r.state[t] = "DEAD" <=> s.state[t] = "DEAD"

\* A queue without duplicates, with one more at its end.
LEMMA AppendDistinct ==
  ASSUME NEW S, NEW q \in Seq(S), NEW x \in S, Distinct(q), x \notin Elems(q)
  PROVE  Distinct(Append(q, x))
<1>1. /\ DOMAIN q = 1 .. Len(q) /\ Len(q) \in Nat
      /\ DOMAIN Append(q, x) = 1 .. Len(q) + 1
      /\ \A i \in 1 .. Len(q) : Append(q, x)[i] = q[i]
      /\ Append(q, x)[Len(q) + 1] = x
  BY LenProperties, AppendProperties
<1> DEFINE r == Append(q, x)
<1>2. \A i \in 1 .. Len(q) : q[i] # x
  BY <1>1 DEF Elems
<1> HIDE DEF r
<1> SUFFICES ASSUME NEW i \in DOMAIN r, NEW j \in DOMAIN r, r[i] = r[j]
             PROVE  i = j
  BY DEF Distinct, r
<1>3. i \in 1 .. Len(q) + 1 /\ j \in 1 .. Len(q) + 1
  BY <1>1 DEF r
<1>4. CASE i \in 1 .. Len(q) /\ j \in 1 .. Len(q)
  BY <1>1, <1>4 DEF Distinct, r
<1>5. CASE i = Len(q) + 1 \/ j = Len(q) + 1
  BY <1>1, <1>2, <1>3, <1>5 DEF r
<1> QED BY <1>1, <1>3, <1>4, <1>5

\* Its head is not in its tail.
LEMMA TailDistinct ==
  ASSUME NEW S, NEW q \in Seq(S), Distinct(q), q # << >>
  PROVE  Distinct(Tail(q)) /\ Head(q) \notin Elems(Tail(q))
<1>1. /\ DOMAIN q = 1 .. Len(q) /\ Len(q) \in Nat /\ Len(q) # 0
      /\ DOMAIN Tail(q) = 1 .. Len(q) - 1
      /\ \A i \in 1 .. Len(q) - 1 : Tail(q)[i] = q[i + 1]
      /\ Head(q) = q[1]
  <2>1. Len(Tail(q)) = Len(q) - 1 /\ Tail(q) \in Seq(S) /\ Head(q) = q[1]
    BY HeadTailProperties
  <2> QED BY <2>1, LenProperties, EmptySeq, HeadTailProperties
<1>2. ASSUME NEW i \in DOMAIN Tail(q), NEW j \in DOMAIN Tail(q), Tail(q)[i] = Tail(q)[j]
      PROVE  i = j
  <2>1. i + 1 \in DOMAIN q /\ j + 1 \in DOMAIN q /\ q[i + 1] = q[j + 1] /\ i \in Int /\ j \in Int
    BY <1>1, <1>2
  <2>2. i + 1 = j + 1
    BY <2>1 DEF Distinct
  <2> QED BY <2>1, <2>2
<1>3. ASSUME NEW i \in DOMAIN Tail(q), Tail(q)[i] = Head(q)
      PROVE  FALSE
  <2>1. i + 1 \in DOMAIN q /\ 1 \in DOMAIN q /\ q[i + 1] = q[1] /\ i + 1 # 1
    BY <1>1, <1>3
  <2> QED BY <2>1 DEF Distinct
<1> QED BY <1>2, <1>3 DEF Distinct, Elems

\* A thread that is not ready becomes so, and is queued.
LEMMA PushCalm ==
  ASSUME NEW s \in VMState, Calm(s), NEW t \in Thread, s.state[t] # "READY"
  PROVE  LET r == PushReady([s EXCEPT !.state[t] = "READY"], t) IN
         /\ Calm(r) /\ r.ticks = s.ticks /\ r.threads = s.threads
         /\ r.state = [s.state EXCEPT ![t] = "READY"]
<1> DEFINE r == PushReady([s EXCEPT !.state[t] = "READY"], t)
           p == s.prio[t]
<1>1. /\ r.state = [s.state EXCEPT ![t] = "READY"]
      /\ r.readyQ = [s.readyQ EXCEPT ![p] = Append(@, t)]
      /\ r.held = s.held /\ r.waiting = s.waiting /\ r.ticks = s.ticks
      /\ r.threads = s.threads
  BY DEF PushReady, VMState
<1>2. p \in Priority /\ \A q \in Priority : s.readyQ[q] \in Seq(Thread) /\ Elems(s.readyQ[q]) \subseteq Thread
  BY QueueType DEF VMState
<1> HIDE DEF r, p
<1>3. \A q \in Priority : t \notin Elems(s.readyQ[q])
  BY DEF Calm
<1>4. /\ Distinct(Append(s.readyQ[p], t))
      /\ Elems(Append(s.readyQ[p], t)) = Elems(s.readyQ[p]) \cup {t}
  BY <1>2, <1>3, AppendDistinct, AppendElems DEF Calm
<1>5. \A q \in Priority : r.readyQ[q] = IF q = p THEN Append(s.readyQ[p], t) ELSE s.readyQ[q]
  BY <1>1, <1>2 DEF VMState
<1>6. \A u \in Thread : r.state[u] = IF u = t THEN "READY" ELSE s.state[u]
  BY <1>1 DEF VMState
<1>7. ASSUME NEW q \in Priority
      PROVE  /\ Distinct(r.readyQ[q])
             /\ \A u \in Elems(r.readyQ[q]) : r.state[u] = "READY"
  BY <1>2, <1>4, <1>5, <1>6 DEF Calm
<1>8. Calm(r)
  BY <1>1, <1>7 DEF Calm
<1> QED BY <1>1, <1>8 DEF r

\* scheduler() lets nobody wait, and wakes nobody.
LEMMA SchedulerSteady ==
  ASSUME NEW s, KernelInv(s, NULL), Calm(s)
  PROVE  Steady(s, Scheduler(s))
<1> DEFINE q == Requeue(s)
           r == Scheduler(s)
<1>1. s \in VMState /\ s.tr \in Thread
  BY DEF KernelInv, Typed, VMState
<1>2. KernelInv(q, NULL)
  BY RequeueInv
<1>3. Steady(s, q)
  <2>1. CASE s.state[s.tr] = "RUNNING"
    <3>1. q = PushReady([s EXCEPT !.state[s.tr] = "READY"], s.tr)
      BY <2>1 DEF Requeue
    <3>2. /\ Calm(q) /\ q.ticks = s.ticks
          /\ q.state = [s.state EXCEPT ![s.tr] = "READY"]
      BY <1>1, <2>1, <3>1, PushCalm
    <3> HIDE DEF q
    <3> QED BY <1>1, <2>1, <3>2 DEF Steady, VMState
  <2>2. CASE s.state[s.tr] # "RUNNING"
    BY <2>2 DEF Requeue, Steady
  <2> QED BY <2>1, <2>2
<1>4. q \in VMState
  BY <1>2 DEF KernelInv, Typed
<1> HIDE DEF q
<1>5. CASE \A p \in Priority : q.readyQ[p] = << >>
  <2>1. r = [q EXCEPT !.halt = "undefined"]
    BY <1>5 DEF Scheduler, Undefined, q
  <2>2. /\ r.state = q.state /\ r.readyQ = q.readyQ /\ r.ticks = q.ticks
        /\ r.held = q.held /\ r.waiting = q.waiting
    BY <2>1, <1>4 DEF VMState
  <2> HIDE DEF r
  <2> QED BY <1>3, <2>2 DEF Steady, Calm, r
<1>6. CASE \E p \in Priority : q.readyQ[p] # << >>
  <2> DEFINE p == Highest(q)
             h == Head(q.readyQ[p])
  <2>1. r = Dispatch(q, p)
    BY <1>6 DEF Scheduler, q
  <2>2. p \in Priority /\ q.readyQ[p] # << >>
    BY <1>6, HighestQueue
  <2> HIDE DEF p
  <2>3. /\ r.state = [q.state EXCEPT ![h] = "RUNNING"]
        /\ r.readyQ = [q.readyQ EXCEPT ![p] = Tail(@)]
        /\ r.ticks = q.ticks /\ r.held = q.held /\ r.waiting = q.waiting
    BY <2>1, <1>4 DEF Dispatch, VMState
  <2>4. \A i \in Priority : q.readyQ[i] \in Seq(Thread) /\ Elems(q.readyQ[i]) \subseteq Thread
    BY <1>4, QueueType DEF VMState
  <2>5. /\ h \in Thread /\ h \in Elems(q.readyQ[p])
        /\ Elems(Tail(q.readyQ[p])) \subseteq Elems(q.readyQ[p])
    BY <2>2, <2>4, TailElems
  <2>6. Distinct(Tail(q.readyQ[p])) /\ h \notin Elems(Tail(q.readyQ[p]))
    BY <1>3, <2>2, <2>4, TailDistinct DEF Steady, Calm
  <2> HIDE DEF r, h
  <2>7. q.state[h] = "READY" /\ q.prio[h] = p
    BY <1>2, <1>3, <2>2, <2>5 DEF Steady, Calm, KernelInv, QueuedRunnable
  <2>8. \A i \in Priority : i # p => h \notin Elems(q.readyQ[i])
    BY <1>2, <2>7 DEF KernelInv, QueuedRunnable
  <2>9. \A i \in Priority : r.readyQ[i] = IF i = p THEN Tail(q.readyQ[p]) ELSE q.readyQ[i]
    BY <1>4, <2>2, <2>3 DEF VMState
  <2>10. \A u \in Thread : r.state[u] = IF u = h THEN "RUNNING" ELSE q.state[u]
    BY <1>4, <2>3 DEF VMState
  <2>11. ASSUME NEW i \in Priority
         PROVE  /\ Distinct(r.readyQ[i])
                /\ \A u \in Elems(r.readyQ[i]) : r.state[u] = "READY"
    BY <1>3, <2>4, <2>5, <2>6, <2>8, <2>9, <2>10, <2>11 DEF Steady, Calm
  <2>12. Calm(r)
    BY <1>3, <2>3, <2>11 DEF Steady, Calm
  <2> QED BY <1>3, <2>3, <2>7, <2>10, <2>12 DEF Steady, r
<1> QED BY <1>5, <1>6

\* From s to r some threads whose ticks are positive may have been woken.
Ticked(s, r) ==
  /\ Calm(r)
  /\ \A t \in Thread :
       /\ s.ticks[t] <= 0 => r.ticks[t] <= 0 /\ r.state[t] = s.state[t]
       /\ r.ticks[t] > 0 => s.ticks[t] > 0 /\ r.state[t] = s.state[t]

\* One thread of the loop of the timer interrupt.
LEMMA DecrementCalm ==
  ASSUME NEW s \in VMState, Calm(s), NEW t \in Thread
  PROVE  Ticked(s, DecrementTicks(s, t))
<1> DEFINE n == CountDown(s.ticks[t])
           d == [s EXCEPT !.ticks[t] = CountDown(@)]
           r == DecrementTicks(s, t)
<1>1. s.ticks[t] \in Int /\ n \in Int
  BY DEF VMState, CountDown
<1>2. s.ticks[t] <= 0 => n < 0
  BY <1>1 DEF CountDown
<1>3. n > 0 => s.ticks[t] > 0
  BY <1>1 DEF CountDown
<1>4. /\ d \in VMState /\ d.ticks = [s.ticks EXCEPT ![t] = n]
      /\ d.state = s.state /\ d.readyQ = s.readyQ /\ d.held = s.held
      /\ d.waiting = s.waiting
  BY <1>1 DEF VMState
<1>5. Calm(d)
  BY <1>4 DEF Calm
<1>6. r = IF n = 0 /\ s.state[t] = "WAITING" THEN WakeUp(d, t) ELSE d
  BY DEF DecrementTicks
<1> HIDE DEF n, d, r
<1>7. \A u \in Thread : d.ticks[u] = IF u = t THEN n ELSE s.ticks[u]
  BY <1>4 DEF VMState
<1>8. \A u \in Thread : s.ticks[u] \in Int
  BY DEF VMState
<1>9. CASE n = 0 /\ s.state[t] = "WAITING"
  <2>1. r = PushReady([d EXCEPT !.state[t] = "READY"], t)
    BY <1>5, <1>6, <1>9 DEF WakeUp, Calm
  <2>2. /\ Calm(r) /\ r.ticks = d.ticks
        /\ r.state = [d.state EXCEPT ![t] = "READY"]
    BY <1>4, <1>5, <1>9, <2>1, PushCalm
  <2>3. \A u \in Thread : r.state[u] = IF u = t THEN "READY" ELSE s.state[u]
    <3>1. s.state \in [Thread -> ThreadState]
      BY DEF VMState
    <3>2. r.state = [s.state EXCEPT ![t] = "READY"]
      BY <1>4, <2>2
    <3> QED BY <3>1, <3>2
  <2>4. ASSUME NEW u \in Thread
        PROVE  /\ s.ticks[u] <= 0 => r.ticks[u] <= 0 /\ r.state[u] = s.state[u]
               /\ r.ticks[u] > 0 => s.ticks[u] > 0 /\ r.state[u] = s.state[u]
    BY <1>1, <1>2, <1>7, <1>8, <1>9, <2>2, <2>3
  <2> QED BY <2>2, <2>4 DEF Ticked, r
<1>10. CASE ~ (n = 0 /\ s.state[t] = "WAITING")
  <2>1. r = d /\ d.state = s.state
    BY <1>4, <1>6, <1>10
  <2>2. ASSUME NEW u \in Thread
        PROVE  /\ s.ticks[u] <= 0 => r.ticks[u] <= 0 /\ r.state[u] = s.state[u]
               /\ r.ticks[u] > 0 => s.ticks[u] > 0 /\ r.state[u] = s.state[u]
    <3>1. CASE u = t
      BY <1>1, <1>2, <1>3, <1>7, <2>1, <3>1
    <3>2. CASE u # t
      BY <1>7, <2>1, <3>2
    <3> QED BY <3>1, <3>2
  <2> QED BY <1>5, <2>1, <2>2 DEF Ticked, r
<1> QED BY <1>9, <1>10

\* The loop of the timer interrupt: only who sleeps is woken.
LEMMA TimerCalm ==
  ASSUME NEW s, KernelInv(s, NULL), Calm(s)
  PROVE  Ticked(s, TimerTick(s))
<1> DEFINE n == Len(s.threads)
<1>1. s.threads \in Seq(Thread) /\ s \in VMState
  BY DEF KernelInv, Typed, VMState
<1>2. n \in Nat /\ DOMAIN s.threads = 1 .. n /\ Elems(s.threads) \subseteq Thread
  BY <1>1, QueueType
<1>3. PICK R : /\ TimerTick(s) = R[n]
               /\ R[0] = s
               /\ \A i \in 1 .. n : R[i] = DecrementTicks(R[i - 1], s.threads[i])
  BY <1>2, TickRounds
<1> HIDE DEF n
<1> DEFINE Good(i) == /\ KernelInv(R[i], NULL) /\ R[i].threads = s.threads
                      /\ Ticked(s, R[i])
           Inv == {i \in 0 .. n : Good(i)}
<1>4. 0 \in Inv
  <2>1. Ticked(s, s)
    BY <1>1 DEF Ticked
  <2> QED BY <1>2, <1>3, <2>1
<1>5. ASSUME NEW i \in 0 .. n - 1, i \in Inv PROVE i + 1 \in Inv
  <2> DEFINE a == R[i]
             b == R[i + 1]
             u == s.threads[i + 1]
  <2>1. KernelInv(a, NULL) /\ a.threads = s.threads /\ Ticked(s, a)
    BY <1>5
  <2>2. i + 1 \in 0 .. n /\ (i + 1) - 1 = i /\ i + 1 \in 1 .. n
    BY <1>2
  <2>3. b = DecrementTicks(a, u)
    BY <2>2, <1>3
  <2>4. u \in Elems(a.threads) /\ u \in Thread /\ a \in VMState
    BY <2>1, <2>2, <1>2 DEF Elems, KernelInv, Typed
  <2> HIDE DEF a, b, u
  <2>5. KernelInv(b, NULL) /\ b.threads = s.threads
    BY <2>1, <2>3, <2>4, DecrementInv
  <2>6. Ticked(a, b)
    BY <2>1, <2>3, <2>4, DecrementCalm DEF Ticked
  <2>7. Ticked(s, b)
    BY <2>1, <2>6 DEF Ticked
  <2> QED BY <2>2, <2>5, <2>7 DEF b
<1>6. n \in Inv
  <2> HIDE DEF Inv
  <2> QED BY <1>2, <1>4, <1>5, Rounds
<1> QED BY <1>3, <1>6

\* A thread without mutexes terminates.
LEMMA TerminateCalm ==
  ASSUME NEW s, KernelInv(s, NULL), Calm(s), NEW t \in Thread \ {Idle}
  PROVE  LET r == Terminate(s, t) IN
         /\ Calm(r) /\ r.ticks = s.ticks
         /\ r.state = [s.state EXCEPT ![t] = "DEAD"]
<1> DEFINE d == [s EXCEPT !.state[t] = "DEAD"]
           p == s.prio[t]
           q == Without(s.readyQ[p], t)
           r == Terminate(s, t)
<1>1. s \in VMState /\ p \in Priority /\ s.readyQ[p] \in Seq(Thread)
  BY DEF KernelInv, Typed, VMState
<1>2. /\ d.state = [s.state EXCEPT ![t] = "DEAD"] /\ d.readyQ = s.readyQ
      /\ d.held = s.held /\ d.waiting = s.waiting /\ d.ticks = s.ticks
  BY <1>1 DEF VMState
<1>3. ReleaseAllMutex(d, t) = d
  <2>1. Len(d.held[t]) = 0 /\ Len(d.held[t]) \in Nat
    BY <1>2, EmptySeq DEF Calm
  <2> HIDE DEF d
  <2>2. PICK R : /\ ReleaseAllMutex(d, t) = R[Len(d.held[t])]
                 /\ R[0] = d
                 /\ \A i \in 1 .. Len(d.held[t]) :
                      R[i] = ReleaseAt(R[i - 1], t, Len(R[i - 1].held[t]))
    BY <2>1, ReleaseRounds
  <2> QED BY <2>1, <2>2
<1>4. r = [d EXCEPT !.readyQ[p] = Without(@, t)]
  BY <1>3 DEF Terminate
<1>5. /\ r.state = [s.state EXCEPT ![t] = "DEAD"]
      /\ r.readyQ = [s.readyQ EXCEPT ![p] = q]
      /\ r.held = s.held /\ r.waiting = s.waiting /\ r.ticks = s.ticks
  <2> HIDE DEF r
  <2> QED BY <1>1, <1>4 DEF VMState
<1>6. /\ q \in Seq(Thread) /\ Elems(q) = Elems(s.readyQ[p]) \ {t}
      /\ Distinct(q)
  <2>1. q \in Seq(Thread) /\ Elems(q) = Elems(s.readyQ[p]) \ {t}
    BY <1>1, WithoutElems
  <2>2. Thinned(s.readyQ[p], q)
    BY <1>1, WithoutThins
  <2> QED BY <1>1, <2>1, <2>2, ThinDistinct DEF Calm
<1> HIDE DEF d, q, r
<1>7. \A i \in Priority : r.readyQ[i] = IF i = p THEN q ELSE s.readyQ[i]
  BY <1>1, <1>5 DEF VMState
<1>8. \A u \in Thread : r.state[u] = IF u = t THEN "DEAD" ELSE s.state[u]
  BY <1>1, <1>5 DEF VMState
<1>9. \A i \in Priority : Elems(s.readyQ[i]) \subseteq Thread
  BY <1>1, QueueType DEF VMState
<1>10. \A i \in Priority : i # p => t \notin Elems(s.readyQ[i])
  BY DEF KernelInv, QueuedRunnable
<1>11. ASSUME NEW i \in Priority
       PROVE  /\ Distinct(r.readyQ[i])
              /\ \A u \in Elems(r.readyQ[i]) : r.state[u] = "READY"
  BY <1>6, <1>7, <1>8, <1>9, <1>10 DEF Calm
<1>12. Calm(r)
  BY <1>5, <1>11 DEF Calm
<1> QED BY <1>5, <1>12 DEF r

\* Who returns terminates itself, when no other thread has its identifier.
LEMMA FindSelf ==
  ASSUME KernelInv(vm, NULL), UniqueIDs, NEW t \in Elems(vm.threads), t # Idle
  PROVE  Target(vm.id[t]) = t
<1>1. vm.threads \in Seq(Thread)
  BY DEF KernelInv, Typed, VMState
<1>2. Find(vm, vm.id[t]) = t
  BY <1>1, FindType DEF UniqueIDs
<1> QED BY <1>2 DEF Target

-----------------------------------------------------------------------------
(* Who waits, and for what                                                 *)

\* Only a sleeping thread has ticks left, so the timer wakes no other.
Sleepers ==
  \A t \in Thread : vm.ticks[t] > 0 => pc[t] = "sleep" /\ vm.state[t] = "WAITING"

\* Nobody dies inside a file function.
DeadPlaces == \A t \in Thread : vm.state[t] = "DEAD" => pc[t] \in Location

\* A thread whose callback has not run is WAITING from its setState on.
WaitsInPlace(t) ==
  \/ pc[t] = "sent" /\ vm.state[t] \in {"READY", "RUNNING"}
  \/ pc[t] \in {"file", "waiting", "chunk"} /\ vm.state[t] = "WAITING"

AwaitsWait == \A t \in Thread : Awaits(t) => WaitsInPlace(t)

Quiet == Calm(vm) /\ Sleepers /\ DeadPlaces

\* From s to r the threads other than t go on waiting, and live.
Aside(s, r, t) ==
  /\ Calm(r)
  /\ \A u \in Thread \ {t} :
       /\ r.state[u] = "DEAD" => s.state[u] = "DEAD"
       /\ s.state[u] # "DEAD" => (r.state[u] = "WAITING" <=> s.state[u] = "WAITING")
       /\ r.ticks[u] > 0 => s.ticks[u] > 0

\* A step of thread t leaves the others where they are.
Undisturbed(t) ==
  /\ Aside(vm, vm', t)
  /\ \A u \in Thread \ {t} :
       pc'[u] = pc[u] \/ (vm.state[u] = "DEAD" /\ pc'[u] = "app")

\* The others sleep and die as before.
LEMMA UndisturbedQuiet ==
  ASSUME Quiet, NEW t \in Thread, Undisturbed(t),
         vm'.ticks[t] > 0 => pc'[t] = "sleep" /\ vm'.state[t] = "WAITING",
         vm'.state[t] = "DEAD" => pc'[t] \in Location
  PROVE  Quiet'
<1>1. ASSUME NEW u \in Thread, vm'.ticks[u] > 0
      PROVE  pc'[u] = "sleep" /\ vm'.state[u] = "WAITING"
  <2>1. u # t => pc[u] = "sleep" /\ vm.state[u] = "WAITING"
    BY <1>1 DEF Undisturbed, Aside, Quiet, Sleepers
  <2> QED BY <1>1, <2>1 DEF Undisturbed, Aside, Quiet, Sleepers
<1>2. ASSUME NEW u \in Thread, vm'.state[u] = "DEAD"
      PROVE  pc'[u] \in Location
  BY <1>2 DEF Undisturbed, Aside, Quiet, DeadPlaces, Location
<1> QED BY <1>1, <1>2 DEF Undisturbed, Aside, Quiet, Sleepers, DeadPlaces

\* What changes neither states nor ticks nor ready queues.
LEMMA SameAside ==
  ASSUME NEW s, NEW r, NEW t, Calm(s), r.state = s.state, r.ticks = s.ticks,
         r.readyQ = s.readyQ, r.held = s.held, r.waiting = s.waiting
  PROVE  Aside(s, r, t)
BY DEF Aside, Calm

\* scheduler() after what concerns only t.
LEMMA SchedulerAside ==
  ASSUME NEW s, NEW r, KernelInv(r, NULL), NEW t, Aside(s, r, t)
  PROVE  LET q == Scheduler(r) IN
         /\ Aside(s, q, t)
         /\ q.ticks = r.ticks
         /\ \A u \in Thread : q.state[u] = "WAITING" <=> r.state[u] = "WAITING"
         /\ \A u \in Thread : q.state[u] = "DEAD" <=> r.state[u] = "DEAD"
<1>1. Steady(r, Scheduler(r))
  BY SchedulerSteady DEF Aside
<1> QED BY <1>1 DEF Steady, Aside

\* A thread that is not queued stops running: it sleeps or waits.
LEMMA StopAside ==
  ASSUME NEW s, Calm(s), NEW t \in Thread, s.state[t] # "READY",
         s \in VMState, NEW r, r.readyQ = s.readyQ, r.held = s.held,
         r.waiting = s.waiting, \A u \in Thread \ {t} : r.ticks[u] = s.ticks[u],
         r.state = [s.state EXCEPT ![t] = "WAITING"]
  PROVE  Aside(s, r, t) /\ r.state[t] = "WAITING"
<1>1. \A u \in Thread : r.state[u] = IF u = t THEN "WAITING" ELSE s.state[u]
  BY DEF VMState
<1>2. \A p \in Priority : Elems(s.readyQ[p]) \subseteq Thread
  BY QueueType DEF VMState
<1>3. Calm(r)
  BY <1>1, <1>2 DEF Calm
<1> QED BY <1>1, <1>3 DEF Aside

\* A thread that is not queued becomes ready.
LEMMA PushAside ==
  ASSUME NEW s \in VMState, Calm(s), NEW t \in Thread, s.state[t] # "READY"
  PROVE  LET r == PushReady([s EXCEPT !.state[t] = "READY"], t) IN
         /\ Aside(s, r, t)
         /\ s.state[t] = "DEAD" => \A u \in Thread : Aside(s, r, u)
         /\ r.ticks = s.ticks /\ r.state = [s.state EXCEPT ![t] = "READY"]
<1> DEFINE r == PushReady([s EXCEPT !.state[t] = "READY"], t)
<1>1. /\ Calm(r) /\ r.ticks = s.ticks
      /\ r.state = [s.state EXCEPT ![t] = "READY"]
  BY PushCalm
<1> HIDE DEF r
<1>2. \A u \in Thread : r.state[u] = IF u = t THEN "READY" ELSE s.state[u]
  BY <1>1 DEF VMState
<1> QED BY <1>1, <1>2 DEF Aside, r

\* A call changes the registry of threads, or of mutexes, and no more.
LEMMA RegistryAside ==
  ASSUME SInv, Quiet, NEW t \in Thread,
         CreateStore(t) \/ ThreadDelete(t) \/ MutexCreate(t) \/ MutexDelete(t)
  PROVE  Aside(vm, vm', t) /\ vm'.ticks[t] = vm.ticks[t]
<1>1. vm \in VMState /\ Calm(vm) /\ vm.tr \in Elems(vm.threads)
  <2>1. vm.tr # NULL
    BY FileState, ObjectAssumption
  <2>2. vm.state[vm.tr] = "RUNNING" \/ pc[vm.tr] = "waiting"
    BY DEF SInv, Executes
  <2>3. vm.state[vm.tr] # "DEAD"
    BY <2>2, FileState DEF Quiet, DeadPlaces, Location
  <2> QED BY <2>3, FileState DEF Quiet, SInv, KernelInv, Registered
<1>2. CASE CreateStore(t)
  <2>1. PICK u \in Unborn, p \in AppPriority :
          vm' = [vm EXCEPT !.nextID = frame[t].next, !.threads = Append(@, u),
                           !.id[u] = frame[t].id, !.state[u] = "DEAD",
                           !.prio[u] = p, !.ticks[u] = -1, !.held[u] = << >>,
                           !.waiting[u] = NULL]
    BY <1>2, ZenonT(40) DEF CreateStore
  <2>2. u \in Thread /\ u \notin Elems(vm.threads) /\ vm.state[u] = "DEAD"
    BY DEF Unborn, SInv, KernelInv, Registered, Thread
  <2>3. t = vm.tr
    BY <1>2 DEF CreateStore, At
  <2>4. /\ vm'.state = [vm.state EXCEPT ![u] = "DEAD"]
        /\ vm'.ticks = [vm.ticks EXCEPT ![u] = -1]
        /\ vm'.held = [vm.held EXCEPT ![u] = << >>]
        /\ vm'.waiting = [vm.waiting EXCEPT ![u] = NULL]
        /\ vm'.readyQ = vm.readyQ
    BY <1>1, <2>1 DEF VMState
  <2>5. /\ vm'.state = vm.state /\ vm'.held = vm.held /\ vm'.waiting = vm.waiting
        /\ \A w \in Thread : vm'.ticks[w] = IF w = u THEN -1 ELSE vm.ticks[w]
    <3>1. vm.held[u] = << >> /\ vm.waiting[u] = NULL
      BY <1>1, <2>2 DEF Calm
    <3>2. /\ vm.state \in [Thread -> ThreadState] /\ vm.held \in [Thread -> Seq(Mutex)]
          /\ vm.waiting \in [Thread -> Mutex \cup {NULL}] /\ vm.ticks \in [Thread -> Int]
      BY <1>1 DEF VMState
    <3>3. \A f, S : f \in [Thread -> S] => [f EXCEPT ![u] = f[u]] = f
      BY <2>2
    <3>4. vm'.state = vm.state /\ vm'.held = vm.held /\ vm'.waiting = vm.waiting
      BY <2>2, <2>4, <3>1, <3>2, <3>3
    <3> QED BY <2>2, <2>4, <3>2, <3>4
  <2> QED BY <1>1, <2>2, <2>3, <2>4, <2>5 DEF Aside, Calm
<1>3. CASE ThreadDelete(t)
  <2>1. PICK u : vm' \in {[vm EXCEPT !.threads = Without(@, u), !.freed = @ \cup {u}],
                          Undefined(vm)}
    BY <1>3 DEF ThreadDelete
  <2>2. /\ vm'.state = vm.state /\ vm'.ticks = vm.ticks /\ vm'.readyQ = vm.readyQ
        /\ vm'.held = vm.held /\ vm'.waiting = vm.waiting
    BY <1>1, <2>1 DEF VMState, Undefined
  <2> QED BY <1>1, <2>2, SameAside
<1>4. CASE MutexCreate(t) \/ MutexDelete(t)
  <2>1. \E m : \/ vm' = [vm EXCEPT !.mutexes = @ \cup {m}, !.owner[m] = NULL,
                                   !.QTex[m] = << >>]
               \/ vm' = [vm EXCEPT !.mutexes = @ \ {m}, !.freed = @ \cup {m}]
    BY <1>4 DEF MutexCreate, MutexDelete
  <2>2. /\ vm'.state = vm.state /\ vm'.ticks = vm.ticks /\ vm'.readyQ = vm.readyQ
        /\ vm'.held = vm.held /\ vm'.waiting = vm.waiting
    BY <1>1, <2>1 DEF VMState
  <2> QED BY <1>1, <2>2, SameAside
<1> QED BY <1>2, <1>3, <1>4

\* The caller of an API function runs, has no ticks left, and is registered.
LEMMA CallerRuns ==
  ASSUME SInv, Quiet, NEW t \in Thread, vm.tr = t, pc[t] # "waiting"
  PROVE  /\ vm.state[t] = "RUNNING" /\ vm.ticks[t] <= 0
         /\ t \in Elems(vm.threads) /\ vm \in VMState
         /\ KernelInv(vm, NULL) /\ Calm(vm)
<1>1. vm.state[t] = "RUNNING" /\ KernelInv(vm, NULL) /\ Calm(vm) /\ vm \in VMState
  BY FileState DEF SInv, Executes, Quiet
<1>2. vm.ticks[t] \in Int
  BY <1>1 DEF VMState
<1>3. ~ (vm.ticks[t] > 0)
  BY <1>1 DEF Quiet, Sleepers
<1>4. t \in Elems(vm.threads)
  BY <1>1 DEF KernelInv, Registered
<1> QED BY <1>1, <1>2, <1>3, <1>4

\* In the programs of OnlyRepliesWake a call lets nobody but its thread begin
\* to wait, and wakes nobody who waits.
LEMMA CallAside ==
  ASSUME SInv, OnlyRepliesWake, Quiet, UniqueIDs, NEW t \in Thread,
         ThreadCall(t) \/ MutexCall(t)
  PROVE  /\ Aside(vm, vm', t)
         /\ vm'.ticks[t] > 0 => pc'[t] = "sleep" /\ vm'.state[t] = "WAITING"
<1>1. vm.tr = t /\ pc[t] \in Location /\ t # Idle
  BY CallPlace, CallMoves
<1>2. /\ vm.state[t] = "RUNNING" /\ vm.ticks[t] <= 0
      /\ t \in Elems(vm.threads) /\ vm \in VMState
      /\ KernelInv(vm, NULL) /\ Calm(vm)
  BY <1>1, CallerRuns DEF Location
<1>3. \A n : n = vm.ticks[t] => ~ (n > 0)
  BY <1>2 DEF VMState
<1>4. ASSUME NEW c \in {"acquire", "try_acquire", "terminate"}, Calling(t, c)
      PROVE  FALSE
  BY <1>4 DEF Calling, OnlyRepliesWake
<1>5. ASSUME NEW s, KernelInv(s, NULL), Aside(vm, s, t), vm' = Scheduler(s)
      PROVE  /\ Aside(vm, vm', t) /\ vm'.ticks = s.ticks
             /\ vm'.state[t] = "WAITING" <=> s.state[t] = "WAITING"
  BY <1>5, SchedulerAside
<1>6. CASE vm' = vm \/ vm' = Undefined(vm) \/ vm' = [vm EXCEPT !.halt = "abort"]
  <2>1. /\ vm'.state = vm.state /\ vm'.ticks = vm.ticks /\ vm'.readyQ = vm.readyQ
        /\ vm'.held = vm.held /\ vm'.waiting = vm.waiting
    BY <1>2, <1>6 DEF VMState, Undefined
  <2> QED BY <1>2, <1>3, <2>1, SameAside
<1>7. CASE Create(t)
  <2>1. CASE CreateAllocate(t) \/ CreateRetry(t)
    <3>1. vm' = Scheduler(vm)
      BY <2>1 DEF CreateAllocate, CreateRetry
    <3> QED BY <1>2, <1>3, <1>5, <3>1, SameAside
  <2>2. CASE CreateSkipsLoop(t) \/ CreateReadID(t) \/ CreateLoadNext(t)
    BY <1>6, <2>2 DEF CreateSkipsLoop, CreateReadID, CreateLoadNext
  <2>3. CASE CreateStore(t)
    BY <1>3, <2>3, RegistryAside
  <2> QED BY <1>7, <2>1, <2>2, <2>3 DEF Create
<1>8. CASE Activate(t)
  <2>1. PICK i \in GivenID :
          /\ Target(i) # NULL /\ vm.state[Target(i)] = "DEAD"
          /\ vm' = PushReady([vm EXCEPT !.state[Target(i)] = "READY"], Target(i))
    BY <1>8 DEF Activate
  <2>2. Target(i) \in Thread
    BY <1>1, <1>2, <2>1, TargetType DEF VMInv
  <2>3. Aside(vm, vm', t) /\ vm'.ticks = vm.ticks
    BY <1>2, <2>1, <2>2, PushAside
  <2> QED BY <1>3, <2>3
<1>9. CASE ThreadTerminate(t)
  BY <1>4, <1>9 DEF ThreadTerminate
<1>10. CASE ThreadDelete(t) \/ MutexCreate(t) \/ MutexDelete(t)
  BY <1>3, <1>10, RegistryAside
<1>11. CASE EntryReturn(t)
  <2>1. Target(vm.id[t]) = t
    BY <1>1, <1>2, FindSelf
  <2>2. vm' = vm \/ vm' = Scheduler(Terminate(vm, t))
    BY <1>11, <2>1 DEF EntryReturn
  <2>3. CASE vm' = Scheduler(Terminate(vm, t))
    <3> DEFINE s == Terminate(vm, t)
    <3>1. Calm(s) /\ s.ticks = vm.ticks /\ s.state = [vm.state EXCEPT ![t] = "DEAD"]
      BY <1>1, <1>2, TerminateCalm
    <3>2. KernelInv(s, NULL)
      BY <1>1, <1>2, TerminateInv
    <3> HIDE DEF s
    <3>3. \A u \in Thread \ {t} : s.state[u] = vm.state[u]
      BY <1>2, <3>1 DEF VMState
    <3>4. Aside(vm, s, t)
      BY <3>1, <3>3 DEF Aside
    <3>5. Aside(vm, vm', t) /\ vm'.ticks = s.ticks
      BY <1>5, <2>3, <3>2, <3>4 DEF s
    <3> QED BY <1>3, <3>1, <3>5
  <2> QED BY <1>6, <2>2, <2>3
<1>12. CASE BootReturn(t) \/ SleepReturn(t)
  BY <1>6, <1>12 DEF BootReturn, SleepReturn
<1>13. CASE Sleep(t)
  <2>1. PICK n \in SleepTicks : vm' = Scheduler(Block(vm, t, n))
    BY <1>13 DEF Sleep
  <2> DEFINE s == Block(vm, t, n)
  <2>2. n \in Nat
    BY CallAssumption
  <2>3. KernelInv(s, NULL)
    BY <1>1, <1>2, <2>2, BlockInv
  <2>4. /\ s.readyQ = vm.readyQ /\ s.held = vm.held /\ s.waiting = vm.waiting
        /\ s.ticks = [vm.ticks EXCEPT ![t] = n]
        /\ s.state = [vm.state EXCEPT ![t] = "WAITING"]
    BY <1>2 DEF Block, VMState
  <2> HIDE DEF s
  <2>5. \A u \in Thread \ {t} : s.ticks[u] = vm.ticks[u]
    BY <1>2, <2>4 DEF VMState
  <2>6. Aside(vm, s, t) /\ s.state[t] = "WAITING"
    BY <1>2, <2>4, <2>5, StopAside
  <2>7. Aside(vm, vm', t) /\ vm'.state[t] = "WAITING"
    BY <1>5, <2>1, <2>3, <2>6 DEF s
  <2>8. pc'[t] = "sleep"
    BY <1>13 DEF Sleep, SInv, ThreadTypes
  <2> QED BY <2>7, <2>8
<1>14. CASE Yield(t)
  <2> DEFINE s == PushReady([vm EXCEPT !.state[t] = "READY"], t)
  <2>1. vm' = Scheduler(s)
    BY <1>14 DEF Yield
  <2>2. t # NULL /\ NULL \in Thread \cup {NULL}
    BY ObjectAssumption
  <2>3. KernelInv(s, NULL)
    BY <1>2, <2>2, PushInv
  <2>4. Aside(vm, s, t) /\ s.ticks = vm.ticks
    BY <1>2, PushAside
  <2> HIDE DEF s
  <2>5. Aside(vm, vm', t) /\ vm'.ticks = s.ticks
    BY <1>5, <2>1, <2>3, <2>4
  <2> QED BY <1>3, <2>4, <2>5
<1>15. CASE TryAcquire(t) \/ AcquireFree(t) \/ AcquireBlock(t)
  BY <1>4, <1>15 DEF TryAcquire, AcquireFree, AcquireBlock
<1>16. CASE AcquireReturn(t) \/ MutexDeleteUnknown(t)
  BY <1>6, <1>16 DEF AcquireReturn, MutexDeleteUnknown
<1>17. CASE MutexRelease(t)
  <2>1. Elems(vm.held[t]) # {}
    BY <1>17 DEF MutexRelease
  <2> QED BY <1>2, <2>1 DEF Calm, Elems
<1> QED BY <1>7, <1>8, <1>9, <1>10, <1>11, <1>12, <1>13, <1>14, <1>15, <1>16,
           <1>17 DEF ThreadCall, MutexCall

\* So they leave the others undisturbed.
LEMMA CallQuiet ==
  ASSUME SInv, OnlyRepliesWake, Quiet, UniqueIDs, NEW t \in Thread,
         ThreadCall(t) \/ MutexCall(t)
  PROVE  Undisturbed(t) /\ Quiet'
<1>1. \A u \in Unborn : vm.state[u] = "DEAD"
  BY DEF Unborn, Thread, SInv, KernelInv, Registered
<1>2. Undisturbed(t)
  BY <1>1, CallAside, CallMoves DEF Undisturbed
<1> QED BY <1>2, CallAside, CallMoves, UndisturbedQuiet

\* Of the file functions, too, only the caller begins to wait.
LEMMA FileQuiet ==
  ASSUME SInv, Quiet, NEW t \in Thread, FileCall(t) \/ FileStep(t)
  PROVE  /\ Undisturbed(t) /\ Quiet'
         /\ Open(t) \/ Close(t) \/ Seek(t) \/ TransferWait(t) => vm'.state[t] = "WAITING"
         /\ TransferBlock(t) => (vm'.state[t] = "WAITING" <=> vm.state[t] = "WAITING")
         /\ TransferSend(t) \/ TransferNext(t) => vm'.state[t] = "RUNNING"
<1>1. /\ vm.tr = t /\ t # Idle /\ vm \in VMState
      /\ KernelInv(vm, NULL) /\ Calm(vm)
      /\ \A u \in Thread \ {t} : pc'[u] = pc[u]
      /\ pc \in [Thread -> FileLocation]
  BY FileTypesStep, FileState DEF SInv, Quiet, ThreadTypes
<1>2. pc[t] # "sleep" /\ (pc[t] \in Location => pc[t] = "app")
  BY DEF FileCall, FileStep, Open, Close, Seek, Transfer, CallsFile, FileReturn,
     TransferRetry, TransferSend, TransferWait, TransferBlock, TransferNext,
     TransferDone, ReadFAT, At, Location
<1>3. vm.state[t] # "DEAD" /\ (pc[t] # "waiting" => vm.state[t] = "RUNNING")
  BY <1>1 DEF SInv, Executes, Quiet, DeadPlaces, Location
<1>4. ~ (vm.ticks[t] > 0)
  BY <1>2 DEF Quiet, Sleepers
<1>5. ASSUME Aside(vm, vm', t), vm'.ticks = vm.ticks, vm'.state[t] # "DEAD"
      PROVE  Undisturbed(t) /\ Quiet'
  <2>1. Undisturbed(t)
    BY <1>1, <1>5 DEF Undisturbed
  <2> QED BY <1>4, <1>5, <2>1, UndisturbedQuiet
<1>6. ASSUME NEW s, KernelInv(s, NULL), Aside(vm, s, t), s.ticks = vm.ticks,
             s.state[t] # "DEAD", vm' = Scheduler(s)
      PROVE  /\ Undisturbed(t) /\ Quiet'
             /\ vm'.state[t] = "WAITING" <=> s.state[t] = "WAITING"
  <2>1. /\ Aside(vm, vm', t) /\ vm'.ticks = vm.ticks /\ vm'.state[t] # "DEAD"
        /\ vm'.state[t] = "WAITING" <=> s.state[t] = "WAITING"
    BY <1>6, SchedulerAside
  <2> QED BY <1>5, <2>1
<1>7. ASSUME pc[t] # "waiting"
      PROVE  /\ KernelInv(Wait(vm, t), NULL) /\ Aside(vm, Wait(vm, t), t)
             /\ Wait(vm, t).ticks = vm.ticks /\ Wait(vm, t).state[t] = "WAITING"
  <2> DEFINE s == Wait(vm, t)
  <2>1. KernelInv(s, NULL)
    BY <1>1, <1>3, <1>7, WaitInv
  <2>2. /\ s.readyQ = vm.readyQ /\ s.held = vm.held /\ s.waiting = vm.waiting
        /\ s.ticks = vm.ticks /\ s.state = [vm.state EXCEPT ![t] = "WAITING"]
    BY <1>1 DEF Wait, VMState
  <2> HIDE DEF s
  <2>3. Aside(vm, s, t) /\ s.state[t] = "WAITING"
    BY <1>1, <1>3, <1>7, <2>2, StopAside
  <2> QED BY <2>1, <2>2, <2>3 DEF s
<1>8. CASE Open(t) \/ Close(t) \/ Seek(t)
  <2>1. vm' = Scheduler(Wait(vm, t)) /\ pc[t] = "app"
    BY <1>8 DEF Open, Close, Seek, AskAndWait, CallsFile, At
  <2> QED BY <1>6, <1>7, <1>8, <2>1 DEF Open, Close, Seek, TransferBlock,
             TransferSend, TransferNext, CallsFile, At
<1>9. CASE Transfer(t) \/ TransferRetry(t) \/ TransferBlock(t)
  <2>1. vm' = Scheduler(vm)
    BY <1>9 DEF Transfer, TransferRetry, TransferBlock, AllocateRound
  <2>2. Aside(vm, vm, t)
    BY <1>1, SameAside
  <2>3. /\ Undisturbed(t) /\ Quiet'
        /\ vm'.state[t] = "WAITING" <=> vm.state[t] = "WAITING"
    BY <1>1, <1>3, <1>6, <2>1, <2>2
  <2>4. /\ ~ (Open(t) \/ Close(t) \/ Seek(t)) \/ pc[t] = "app"
        /\ ~ TransferWait(t) \/ pc[t] = "sent"
        /\ ~ TransferSend(t) \/ (pc[t] = "buffer" /\ call[t].buf # NULL)
        /\ ~ TransferNext(t) \/ pc[t] = "chunk"
    BY DEF Open, Close, Seek, TransferWait, TransferSend, TransferNext, CallsFile, At
  <2>5. CASE Transfer(t)
    <3>1. pc[t] = "app" /\ pc'[t] = "buffer"
      BY <1>1, <2>5 DEF Transfer, CallsFile, At, AllocateRound
    <3>2. ~ (Open(t) \/ Close(t) \/ Seek(t))
      BY <1>1, <3>1 DEF Open, Close, Seek, AskAndWait
    <3> QED BY <2>3, <2>4, <3>1, <3>2
  <2>6. CASE TransferRetry(t) \/ TransferBlock(t)
    <3>1. (pc[t] = "buffer" /\ call[t].buf = NULL) \/ pc[t] = "waiting"
      BY <2>6 DEF TransferRetry, TransferBlock, At
    <3> QED BY <2>3, <2>4, <3>1
  <2> QED BY <1>9, <2>5, <2>6
<1>10. CASE TransferWait(t)
  <2>1. vm' = Wait(vm, t) /\ pc[t] = "sent"
    BY <1>10 DEF TransferWait, At
  <2>2. Undisturbed(t) /\ Quiet' /\ vm'.state[t] = "WAITING"
    BY <1>5, <1>7, <2>1
  <2> QED BY <2>1, <2>2 DEF TransferBlock, TransferSend, TransferNext, At
<1>11. CASE FileReturn(t) \/ TransferSend(t) \/ TransferNext(t) \/ TransferDone(t) \/ ReadFAT(t)
  <2>1. (vm' = vm \/ vm' = Undefined(vm)) /\ pc[t] \in {"file", "buffer", "chunk"}
    BY <1>11 DEF FileReturn, TransferSend, TransferNext, TransferDone, ReadFAT, At
  <2>2. /\ vm'.state = vm.state /\ vm'.ticks = vm.ticks /\ vm'.readyQ = vm.readyQ
        /\ vm'.held = vm.held /\ vm'.waiting = vm.waiting
    BY <1>1, <2>1 DEF VMState, Undefined
  <2>3. Undisturbed(t) /\ Quiet' /\ vm'.state[t] = "RUNNING"
    BY <1>1, <1>3, <1>5, <2>1, <2>2, SameAside
  <2> QED BY <2>1, <2>3 DEF Open, Close, Seek, CallsFile, TransferWait, TransferBlock, At
<1> QED BY <1>8, <1>9, <1>10, <1>11 DEF FileCall, FileStep

\* The timer wakes sleepers only.
LEMMA TimerQuiet ==
  ASSUME SInv, Quiet, TimerISR
  PROVE  /\ Quiet'
         /\ \A u \in Thread : ~ (vm.ticks[u] > 0) =>
              /\ vm'.state[u] = "WAITING" <=> vm.state[u] = "WAITING"
              /\ vm'.state[u] = "DEAD" <=> vm.state[u] = "DEAD"
<1> DEFINE s == TimerTick(vm)
<1>1. vm' = Scheduler(s) /\ UNCHANGED pc
  BY DEF TimerISR
<1>2. KernelInv(vm, NULL) /\ Calm(vm) /\ vm \in VMState
  BY FileState DEF SInv, Quiet
<1>3. KernelInv(s, NULL) /\ Ticked(vm, s)
  BY <1>2, TimerTickInv, TimerCalm
<1> HIDE DEF s
<1>4. Steady(s, vm')
  BY <1>1, <1>3, SchedulerSteady DEF Ticked
<1>5. \A u \in Thread : vm.ticks[u] \in Int
  BY <1>2 DEF VMState
<1>6. \A u \in Thread : ~ (vm.ticks[u] > 0) =>
        /\ vm'.state[u] = "WAITING" <=> vm.state[u] = "WAITING"
        /\ vm'.state[u] = "DEAD" <=> vm.state[u] = "DEAD"
  BY <1>3, <1>4, <1>5 DEF Ticked, Steady
<1>7. Sleepers'
  BY <1>1, <1>3, <1>4 DEF Ticked, Steady, Quiet, Sleepers
<1>8. DeadPlaces'
  BY <1>1, <1>6 DEF Quiet, Sleepers, DeadPlaces, Location
<1> QED BY <1>4, <1>6, <1>7, <1>8 DEF Steady, Quiet

-----------------------------------------------------------------------------
(* Requests and the threads that made them                                 *)

Clients(q) == {q[i].client : i \in DOMAIN q}

ClientOnce(q) == \A i, j \in DOMAIN q : q[i].client = q[j].client => i = j

\* A thread has one request at a time in the machine, or one callback on some
\* stack, and not both.
Once ==
  /\ \A c \in FileClass : ClientOnce(asked[c])
  /\ ClientOnce(answers)
  /\ Clients(asked["now"]) \cap Clients(asked["read"]) = {}
  /\ \A c \in FileClass : Clients(asked[c]) \cap Clients(answers) = {}
  /\ \A u \in Thread : handler[u] # NULL =>
       /\ \A c \in FileClass : handler[u] \notin Clients(asked[c])
       /\ handler[u] \notin Clients(answers)
       /\ \A w \in Thread : handler[w] = handler[u] => w = u

\* A request at the end of a queue.
LEMMA AppendClients ==
  ASSUME NEW S, NEW q \in Seq(S), NEW r \in S
  PROVE  /\ Clients(Append(q, r)) = Clients(q) \cup {r.client}
         /\ ClientOnce(q) /\ r.client \notin Clients(q) => ClientOnce(Append(q, r))
<1> DEFINE a == Append(q, r)
           n == Len(q)
<1>1. /\ DOMAIN q = 1 .. n /\ n \in Nat
      /\ DOMAIN a = 1 .. n + 1
      /\ \A i \in 1 .. n : a[i] = q[i]
      /\ a[n + 1] = r
  BY LenProperties, AppendProperties
<1> HIDE DEF a, n
<1>2. \A i \in 1 .. n + 1 : i \in 1 .. n \/ i = n + 1
  BY <1>1
<1>3. 1 .. n \subseteq 1 .. n + 1 /\ n + 1 \in 1 .. n + 1
  BY <1>1
<1>4. Clients(a) = Clients(q) \cup {r.client}
  BY <1>1, <1>2, <1>3 DEF Clients
<1>5. ASSUME ClientOnce(q), r.client \notin Clients(q)
      PROVE  ClientOnce(a)
  <2>1. \A i \in 1 .. n : q[i].client # r.client
    BY <1>1, <1>5 DEF Clients
  <2> QED BY <1>1, <1>2, <1>5, <2>1 DEF ClientOnce
<1> QED BY <1>4, <1>5 DEF a

\* The oldest request of a queue.
LEMMA TailClients ==
  ASSUME NEW S, NEW q \in Seq(S), q # << >>
  PROVE  /\ Clients(q) = Clients(Tail(q)) \cup {Head(q).client}
         /\ ClientOnce(q) => ClientOnce(Tail(q)) /\ Head(q).client \notin Clients(Tail(q))
<1> DEFINE a == Tail(q)
           n == Len(q)
<1>1. /\ DOMAIN q = 1 .. n /\ n \in Nat /\ n # 0
      /\ DOMAIN a = 1 .. n - 1
      /\ \A i \in 1 .. n - 1 : a[i] = q[i + 1]
      /\ Head(q) = q[1]
  <2>1. Len(Tail(q)) = Len(q) - 1 /\ Tail(q) \in Seq(S) /\ Head(q) = q[1]
    BY HeadTailProperties
  <2> QED BY <2>1, LenProperties, EmptySeq, HeadTailProperties
<1> HIDE DEF a, n
<1>2. \A i \in 1 .. n - 1 : i \in Int /\ i + 1 \in 1 .. n /\ i + 1 # 1
  BY <1>1
<1>3. \A i \in 1 .. n : i = 1 \/ (i - 1 \in 1 .. n - 1 /\ (i - 1) + 1 = i)
  BY <1>1
<1>4. 1 \in 1 .. n
  BY <1>1
<1>5. \A i \in 1 .. n : q[i] = Head(q) \/ \E j \in 1 .. n - 1 : a[j] = q[i]
  BY <1>1, <1>3
<1>6. Clients(q) = Clients(a) \cup {Head(q).client}
  <2>1. Clients(q) \subseteq Clients(a) \cup {Head(q).client}
    <3> SUFFICES ASSUME NEW i \in 1 .. n
                 PROVE  q[i].client \in Clients(a) \cup {Head(q).client}
      BY <1>1 DEF Clients
    <3> QED BY <1>1, <1>5 DEF Clients
  <2>2. Clients(a) \subseteq Clients(q)
    BY <1>1, <1>2 DEF Clients
  <2>3. Head(q).client \in Clients(q)
    BY <1>1, <1>4 DEF Clients
  <2> QED BY <2>1, <2>2, <2>3
<1>7. ASSUME ClientOnce(q)
      PROVE  ClientOnce(a) /\ Head(q).client \notin Clients(a)
  <2>1. ASSUME NEW i \in 1 .. n - 1, NEW j \in 1 .. n - 1, a[i].client = a[j].client
        PROVE  i = j
    <3>1. i + 1 \in DOMAIN q /\ j + 1 \in DOMAIN q /\ q[i + 1].client = q[j + 1].client
      BY <1>1, <1>2, <2>1
    <3>2. i + 1 = j + 1
      BY <1>7, <3>1 DEF ClientOnce
    <3> QED BY <1>2, <3>2
  <2>2. ASSUME NEW i \in 1 .. n - 1 PROVE a[i].client # Head(q).client
    BY <1>1, <1>2, <1>4, <1>7 DEF ClientOnce
  <2> QED BY <1>1, <2>1, <2>2 DEF ClientOnce, Clients
<1> QED BY <1>6, <1>7 DEF a

\* The clients of a queue are those of its requests.
LEMMA ClientsElems ==
  ASSUME NEW q, NEW t
  PROVE  t \in Clients(q) <=> \E r \in Elems(q) : r.client = t
BY DEF Clients, Elems

\* Where a request is that the machine has.
LEMMA OutstandingWhere ==
  /\ \A r : r \in Outstanding
            <=> (\E c \in FileClass : r \in Elems(asked[c])) \/ r \in Elems(answers)
  /\ \A r : r \in Outstanding'
            <=> (\E c \in FileClass : r \in Elems(asked'[c])) \/ r \in Elems(answers')
<1>1. ASSUME NEW f, NEW q, NEW r
      PROVE  r \in (UNION {Elems(f[c]) : c \in FileClass}) \cup Elems(q)
               <=> (\E c \in FileClass : r \in Elems(f[c])) \/ r \in Elems(q)
  OBVIOUS
<1>2. Outstanding = (UNION {Elems(asked[c]) : c \in FileClass}) \cup Elems(answers)
  BY DEF Outstanding
<1>3. Outstanding' = (UNION {Elems(asked'[c]) : c \in FileClass}) \cup Elems(answers')
  BY DEF Outstanding
<1>4. ASSUME NEW r
      PROVE  r \in Outstanding
               <=> (\E c \in FileClass : r \in Elems(asked[c])) \/ r \in Elems(answers)
  BY <1>1, <1>2, Zenon
<1>5. ASSUME NEW r
      PROVE  r \in Outstanding'
               <=> (\E c \in FileClass : r \in Elems(asked'[c])) \/ r \in Elems(answers')
  BY <1>1, <1>3, Zenon
<1> QED BY <1>4, <1>5

\* Where the request of a thread that awaits its callback is.
LEMMA AwaitsWhere ==
  ASSUME NEW t
  PROVE  Awaits(t) <=> \/ \E c \in FileClass : t \in Clients(asked[c])
                       \/ t \in Clients(answers)
                       \/ \E u \in Thread : handler[u] = t
<1>1. (\E r \in Outstanding : r.client = t)
        <=> \/ \E c \in FileClass : \E r \in Elems(asked[c]) : r.client = t
            \/ \E r \in Elems(answers) : r.client = t
  BY OutstandingWhere
<1> QED BY <1>1, ClientsElems DEF Awaits

\* The same, after a step.
LEMMA AwaitsWhereNext ==
  ASSUME NEW t
  PROVE  Awaits(t)' <=> \/ \E c \in FileClass : t \in Clients(asked'[c])
                        \/ t \in Clients(answers')
                        \/ \E u \in Thread : handler'[u] = t
<1>1. (\E r \in Outstanding' : r.client = t)
        <=> \/ \E c \in FileClass : \E r \in Elems(asked'[c]) : r.client = t
            \/ \E r \in Elems(answers') : r.client = t
  BY OutstandingWhere
<1> QED BY <1>1, ClientsElems DEF Awaits

\* A thread that awaits nothing makes a request.
LEMMA AskOnce ==
  ASSUME FileTypes, Once, NEW r \in FileRequest, ~ Awaits(r.client),
         Machine!Ask(r), handler' = handler
  PROVE  /\ Once'
         /\ \A q : q \in Outstanding' <=> q \in Outstanding \/ q = r
         /\ \A u : Awaits(u)' <=> Awaits(u) \/ u = r.client
<1> DEFINE k == r.class
           n == Append(asked[k], r)
<1>1. k \in FileClass /\ asked[k] \in Seq(FileRequest)
  BY DEF FileTypes, FileRequest
<1>2. /\ answers' = answers
      /\ \A c \in FileClass : asked'[c] = IF c = k THEN n ELSE asked[c]
  BY <1>1 DEF Machine!Ask, FileTypes
<1>3. /\ Clients(n) = Clients(asked[k]) \cup {r.client}
      /\ ClientOnce(asked[k]) /\ r.client \notin Clients(asked[k]) => ClientOnce(n)
  BY <1>1, AppendClients
<1>4. Elems(n) = Elems(asked[k]) \cup {r}
  BY <1>1, AppendElems
<1> HIDE DEF n
<1>5. /\ \A c \in FileClass : r.client \notin Clients(asked[c])
      /\ r.client \notin Clients(answers)
      /\ \A u \in Thread : handler[u] # r.client
  BY AwaitsWhere
<1>6. \A c \in FileClass : Clients(asked'[c]) = IF c = k THEN Clients(asked[c]) \cup {r.client}
                                                ELSE Clients(asked[c])
  BY <1>2, <1>3
<1>7. \A c \in FileClass : ClientOnce(asked'[c])
  BY <1>1, <1>2, <1>3, <1>5 DEF Once
<1>8. Clients(asked'["now"]) \cap Clients(asked'["read"]) = {}
  BY <1>5, <1>6 DEF Once, FileClass
<1>9. \A c \in FileClass : Clients(asked'[c]) \cap Clients(answers) = {}
  BY <1>5, <1>6 DEF Once
<1>10. \A u \in Thread : handler[u] # NULL => \A c \in FileClass : handler[u] \notin Clients(asked'[c])
  BY <1>5, <1>6 DEF Once
<1>11. Once'
  BY <1>2, <1>7, <1>8, <1>9, <1>10 DEF Once
<1>12. \A q : q \in Outstanding' <=> q \in Outstanding \/ q = r
  BY <1>1, <1>2, <1>4, OutstandingWhere
<1>13. ASSUME NEW u PROVE Awaits(u)' <=> Awaits(u) \/ u = r.client
  BY <1>1, <1>2, <1>6, AwaitsWhere, AwaitsWhereNext
<1> QED BY <1>11, <1>12, <1>13

\* The machine answers the oldest request of a class.
LEMMA AnswerOnce ==
  ASSUME FileTypes, Once, NEW c \in FileClass, Machine!Answer(c), handler' = handler
  PROVE  /\ Once'
         /\ \A q : q \in Outstanding' <=> q \in Outstanding
         /\ \A u : Awaits(u)' <=> Awaits(u)
<1> DEFINE r == Head(asked[c])
           n == Tail(asked[c])
           a == Append(answers, r)
<1>1. asked[c] \in Seq(FileRequest) /\ asked[c] # << >> /\ answers \in Seq(FileRequest)
  BY DEF FileTypes, Machine!Answer
<1>2. /\ answers' = a
      /\ \A d \in FileClass : asked'[d] = IF d = c THEN n ELSE asked[d]
  BY DEF Machine!Answer, FileTypes
<1>3. /\ Clients(asked[c]) = Clients(n) \cup {r.client}
      /\ ClientOnce(n) /\ r.client \notin Clients(n)
  BY <1>1, TailClients DEF Once
<1>4. r \in FileRequest /\ Elems(asked[c]) = Elems(n) \cup {r}
  BY <1>1, TailElems
<1>5. /\ Clients(a) = Clients(answers) \cup {r.client}
      /\ ClientOnce(answers) /\ r.client \notin Clients(answers) => ClientOnce(a)
      /\ Elems(a) = Elems(answers) \cup {r}
  BY <1>1, <1>4, AppendClients, AppendElems
<1> HIDE DEF a, n
<1>6. r.client \notin Clients(answers)
  BY <1>3 DEF Once
<1>7. \A d \in FileClass \ {c} : r.client \notin Clients(asked[d])
  BY <1>3 DEF Once, FileClass
<1>8. \A d \in FileClass : ClientOnce(asked'[d])
  BY <1>2, <1>3 DEF Once
<1>9. \A d \in FileClass : Clients(asked'[d]) \subseteq Clients(asked[d])
  BY <1>2, <1>3
<1>10. \A d \in FileClass : Clients(asked'[d]) \cap Clients(a) = {}
  BY <1>2, <1>3, <1>5, <1>7 DEF Once
<1>11. Clients(asked'["now"]) \cap Clients(asked'["read"]) = {}
  BY <1>9 DEF Once, FileClass
<1>12. \A u \in Thread : handler[u] # NULL =>
         /\ \A d \in FileClass : handler[u] \notin Clients(asked'[d])
         /\ handler[u] \notin Clients(a)
  BY <1>3, <1>5, <1>9 DEF Once
<1>13. Once'
  BY <1>2, <1>5, <1>6, <1>8, <1>10, <1>11, <1>12 DEF Once
<1>14. \A q : q \in Outstanding' <=> q \in Outstanding
  BY <1>2, <1>4, <1>5, OutstandingWhere
<1>15. ASSUME NEW u PROVE Awaits(u)' <=> Awaits(u)
  BY <1>2, <1>3, <1>5, AwaitsWhere, AwaitsWhereNext
<1> QED BY <1>13, <1>14, <1>15

\* A callback begins on the stack of thread t.
LEMMA DeliverOnce ==
  ASSUME FileTypes, Once, NEW t \in Thread, handler[t] = NULL, NEW r, Machine!Deliver(r),
         handler' = [handler EXCEPT ![t] = r.client]
  PROVE  /\ Once'
         /\ r \in Outstanding
         /\ \A q : q \in Outstanding' <=> q \in Outstanding /\ q.client # r.client
         /\ \A u \in Thread : Awaits(u)' <=> Awaits(u)
<1> DEFINE n == Tail(answers)
<1>1. answers \in Seq(FileRequest) /\ answers # << >> /\ r = Head(answers)
  BY DEF FileTypes, Machine!Deliver
<1>2. answers' = n /\ asked' = asked
  BY DEF Machine!Deliver
<1>3. /\ Clients(answers) = Clients(n) \cup {r.client}
      /\ ClientOnce(n) /\ r.client \notin Clients(n)
  BY <1>1, TailClients DEF Once
<1>4. r \in FileRequest /\ Elems(answers) = Elems(n) \cup {r}
  BY <1>1, TailElems
<1> HIDE DEF n
<1>5. /\ r.client \in Thread /\ r.client # NULL
      /\ \A u \in Thread : handler'[u] = IF u = t THEN r.client ELSE handler[u]
  BY <1>4, ObjectAssumption DEF FileRequest, FileTypes
<1>6. \A c \in FileClass : r.client \notin Clients(asked[c])
  BY <1>3 DEF Once
<1>7. \A u \in Thread : handler[u] # r.client
  BY <1>3, <1>5 DEF Once
<1>8. \A c \in FileClass : Clients(asked[c]) \cap Clients(n) = {}
  BY <1>3 DEF Once
<1>9. ASSUME NEW u \in Thread, handler'[u] # NULL
      PROVE  /\ \A c \in FileClass : handler'[u] \notin Clients(asked[c])
             /\ handler'[u] \notin Clients(n)
             /\ \A w \in Thread : handler'[w] = handler'[u] => w = u
  <2>1. CASE u = t
    BY <1>3, <1>5, <1>6, <1>7, <2>1
  <2>2. CASE u # t
    BY <1>3, <1>5, <1>7, <1>9, <2>2 DEF Once
  <2> QED BY <2>1, <2>2
<1>10. Once'
  BY <1>2, <1>3, <1>8, <1>9 DEF Once
<1>11. r \in Outstanding
  BY <1>4, OutstandingWhere
<1>12. ASSUME NEW q PROVE q \in Outstanding' <=> q \in Outstanding /\ q.client # r.client
  BY <1>2, <1>3, <1>4, <1>6, ClientsElems, OutstandingWhere
<1>13. ASSUME NEW u \in Thread PROVE Awaits(u)' <=> Awaits(u)
  <2>1. u # NULL
    BY ObjectAssumption
  <2>2. (\E w \in Thread : handler'[w] = u)
          <=> u = r.client \/ \E w \in Thread : handler[w] = u
    BY <1>5, <2>1
  <2>3. u \in Clients(answers) <=> u \in Clients(n) \/ u = r.client
    BY <1>3
  <2> QED BY <1>2, <2>2, <2>3, AwaitsWhere, AwaitsWhereNext
<1> QED BY <1>10, <1>11, <1>12, <1>13

\* The callback on the stack of thread t comes to its end.
LEMMA CallbackOnce ==
  ASSUME FileTypes, Once, NEW t \in Thread, handler[t] # NULL,
         handler' = [handler EXCEPT ![t] = NULL], UNCHANGED <<asked, answers>>
  PROVE  /\ Once'
         /\ \A x : x = handler[t] =>
              /\ Awaits(x) /\ ~ Awaits(x)'
              /\ \A u \in Thread \ {x} : Awaits(u)' <=> Awaits(u)
<1>1. \A u \in Thread : handler'[u] = IF u = t THEN NULL ELSE handler[u]
  BY DEF FileTypes
<1>2. Once'
  BY <1>1 DEF Once
<1>3. ASSUME NEW x, x = handler[t] PROVE ~ Awaits(x)'
  <2>1. \A w \in Thread : handler'[w] # x
    BY <1>1, <1>3 DEF Once
  <2>2. /\ \A c \in FileClass : x \notin Clients(asked'[c])
        /\ x \notin Clients(answers')
    BY <1>3 DEF Once
  <2> QED BY <2>1, <2>2, AwaitsWhereNext
<1>4. ASSUME NEW u \in Thread, u # handler[t] PROVE Awaits(u)' <=> Awaits(u)
  <2>1. u # NULL
    BY ObjectAssumption
  <2>2. (\E w \in Thread : handler'[w] = u) <=> (\E w \in Thread : handler[w] = u)
    BY <1>1, <1>4, <2>1
  <2> QED BY <2>2, AwaitsWhere, AwaitsWhereNext
<1>5. ASSUME NEW x, x = handler[t] PROVE Awaits(x)
  BY <1>5, AwaitsWhere
<1> QED BY <1>2, <1>3, <1>4, <1>5

\* Nothing moves in the machine or on the stacks.
LEMMA SameOnce ==
  ASSUME UNCHANGED <<asked, answers, handler>>
  PROVE  /\ Once => Once'
         /\ \A q : q \in Outstanding' <=> q \in Outstanding
         /\ \A u : Awaits(u)' <=> Awaits(u)
BY OutstandingWhere, AwaitsWhere, AwaitsWhereNext DEF Once

\* Who executes awaits nothing, but between the request and the scheduler() of
\* a read or a write.
LEMMA RunsUnawaited ==
  ASSUME SInv, AwaitsWait, NEW t \in Thread, vm.tr = t, pc[t] \notin {"sent", "waiting"}
  PROVE  ~ Awaits(t)
BY DEF AwaitsWait, WaitsInPlace, SInv, Executes

\* Who awaits a callback goes on waiting for it in the steps of others.
LEMMA OthersWait ==
  ASSUME SInv', AwaitsWait, NEW t, Undisturbed(t), NEW u \in Thread \ {t}, Awaits(u)
  PROVE  WaitsInPlace(u)'
<1>1. WaitsInPlace(u) /\ vm.state[u] # "DEAD"
  BY DEF AwaitsWait, WaitsInPlace
<1>2. /\ vm'.state[u] # "DEAD"
      /\ vm'.state[u] = "WAITING" <=> vm.state[u] = "WAITING"
      /\ pc'[u] = pc[u]
  BY <1>1 DEF Undisturbed, Aside
<1>3. vm'.state[u] \in {"DEAD", "RUNNING", "READY", "WAITING"}
  BY DEF SInv, KernelInv, Typed, VMState, ThreadState
<1> QED BY <1>1, <1>2, <1>3 DEF WaitsInPlace

\* The file functions that make a request make one, when they have no other.
LEMMA FileAsks ==
  ASSUME SInv, Once, AwaitsWait, NEW t \in Thread,
         Open(t) \/ Close(t) \/ Seek(t) \/ TransferSend(t) \/ TransferNext(t)
  PROVE  /\ ~ Awaits(t)
         /\ Once' /\ handler' = handler
         /\ \A u : Awaits(u)' <=> Awaits(u) \/ u = t
         /\ \E r \in FileRequest :
              /\ r.client = t
              /\ \A q : q \in Outstanding' <=> q \in Outstanding \/ q = r
              /\ r.buf \in {NULL, call[t].buf}
              /\ pc'[t] = "file" \/ r.len = ChunkLength(call'[t].left)
<1>1. /\ FileTypes /\ pc \in [Thread -> FileLocation] /\ vm.tr = t
      /\ pc[t] \notin {"sent", "waiting"}
  BY DEF SInv, ThreadTypes, Open, Close, Seek, TransferSend, TransferNext, CallsFile, At
<1>2. ~ Awaits(t)
  BY <1>1, RunsUnawaited
<1>3. handler' = handler
  BY DEF Open, Close, Seek, AskAndWait, TransferSend, TransferNext
<1>4. ASSUME NEW r \in FileRequest, r.client = t, Machine!Ask(r),
             r.buf \in {NULL, call[t].buf},
             pc'[t] = "file" \/ r.len = ChunkLength(call'[t].left)
      PROVE  /\ Once'
             /\ \A u : Awaits(u)' <=> Awaits(u) \/ u = t
             /\ \E q \in FileRequest :
                  /\ q.client = t
                  /\ \A x : x \in Outstanding' <=> x \in Outstanding \/ x = q
                  /\ q.buf \in {NULL, call[t].buf}
                  /\ pc'[t] = "file" \/ q.len = ChunkLength(call'[t].left)
  BY <1>1, <1>2, <1>3, <1>4, AskOnce
<1>5. CASE Open(t) \/ Close(t) \/ Seek(t)
  <2> DEFINE r == [client |-> t, class |-> "now", len |-> 0, buf |-> NULL]
  <2>1. r \in FileRequest
    BY FileAssumption DEF FileRequest, FileClass
  <2>2. Machine!Ask(r) /\ pc' = [pc EXCEPT ![t] = "file"]
    BY <1>5 DEF Open, Close, Seek, AskAndWait
  <2>3. r.client = t /\ r.buf = NULL
    OBVIOUS
  <2> HIDE DEF r
  <2>4. pc'[t] = "file"
    BY <1>1, <2>2
  <2> QED BY <1>2, <1>3, <1>4, <2>1, <2>2, <2>3, <2>4
<1>6. ASSUME NEW left \in Nat, SendChunk(t, left), call'[t].left = left
      PROVE  \E r \in FileRequest :
               /\ r.client = t /\ Machine!Ask(r) /\ r.buf = call[t].buf
               /\ r.len = ChunkLength(call'[t].left)
  <2> DEFINE class == IF call[t].kind = "read" THEN "read" ELSE "now"
             n == ChunkLength(left)
             b == call[t].buf
  <2>1. n \in 0 .. Chunk /\ class \in FileClass /\ b \in Buffer \cup {NULL}
    BY <1>1, ChunkType DEF FileClass, FileTypes, FileCallType
  <2>2. Machine!Ask([client |-> t, class |-> class, len |-> n, buf |-> b])
    BY <1>6 DEF SendChunk
  <2>3. n = ChunkLength(call'[t].left)
    BY <1>6
  <2> HIDE DEF class, n, b
  <2> DEFINE r == [client |-> t, class |-> class, len |-> n, buf |-> b]
  <2>4. r \in FileRequest
    BY <2>1 DEF FileRequest
  <2>5. r.client = t /\ r.buf = b /\ r.len = n
    OBVIOUS
  <2> HIDE DEF r
  <2> QED BY <2>2, <2>3, <2>4, <2>5 DEF b, r
<1>7. CASE TransferSend(t)
  <2>1. SendChunk(t, call[t].left) /\ call' = call
    BY <1>7 DEF TransferSend
  <2>2. call[t].left \in Nat
    BY <1>1 DEF FileTypes, FileCallType
  <2>3. PICK r \in FileRequest :
          /\ r.client = t /\ Machine!Ask(r) /\ r.buf = call[t].buf
          /\ r.len = ChunkLength(call'[t].left)
    BY <1>6, <2>1, <2>2
  <2> QED BY <1>2, <1>3, <1>4, <2>3
<1>8. CASE TransferNext(t)
  <2> DEFINE left == call[t].left - Chunk
  <2>1. SendChunk(t, left) /\ call' = [call EXCEPT ![t].left = left, ![t].sum = @ + cd[t]]
    BY <1>8 DEF TransferNext
  <2>2. left \in Nat
    BY <1>1, <1>8, FileAssumption DEF TransferNext, FileTypes, FileCallType
  <2> HIDE DEF left
  <2>3. call'[t].left = left
    BY <1>1, <2>1 DEF FileTypes, FileCallType
  <2>4. PICK r \in FileRequest :
          /\ r.client = t /\ Machine!Ask(r) /\ r.buf = call[t].buf
          /\ r.len = ChunkLength(call'[t].left)
    BY <1>6, <2>1, <2>2, <2>3
  <2> QED BY <1>2, <1>3, <1>4, <2>4
<1> QED BY <1>5, <1>7, <1>8

\* The invariant of the programs of OnlyRepliesWake.
ReplyInv == Quiet /\ Once /\ AwaitsWait

\* Where nothing changes for the threads, nor for what they await.
LEMMA SameReplyInv ==
  ASSUME ReplyInv, vm' = vm \/ vm' = Undefined(vm), vm \in VMState,
         UNCHANGED <<pc, asked, answers, handler>>
  PROVE  ReplyInv'
<1>1. /\ vm'.state = vm.state /\ vm'.ticks = vm.ticks /\ vm'.readyQ = vm.readyQ
      /\ vm'.held = vm.held /\ vm'.waiting = vm.waiting
  BY DEF VMState, Undefined
<1>2. Quiet'
  BY <1>1 DEF ReplyInv, Quiet, Calm, Sleepers, DeadPlaces
<1>3. AwaitsWait'
  BY <1>1, SameOnce DEF ReplyInv, AwaitsWait, WaitsInPlace
<1> QED BY <1>2, <1>3, SameOnce DEF ReplyInv

\* The file functions.
LEMMA FileReplies ==
  ASSUME SInv, SInv', ReplyInv, NEW t \in Thread, FileCall(t) \/ FileStep(t)
  PROVE  ReplyInv'
<1>1. Quiet /\ Once /\ AwaitsWait /\ pc \in [Thread -> FileLocation] /\ vm.tr = t
  BY FileTypesStep DEF ReplyInv, SInv, ThreadTypes
<1>2. Quiet' /\ Undisturbed(t)
  BY <1>1, FileQuiet
<1>3. ASSUME Once', \A u \in Thread \ {t} : Awaits(u)' <=> Awaits(u),
             Awaits(t)' => WaitsInPlace(t)'
      PROVE  ReplyInv'
  <2>1. \A u \in Thread \ {t} : Awaits(u)' => WaitsInPlace(u)'
    BY <1>1, <1>2, <1>3, OthersWait
  <2> QED BY <1>2, <1>3, <2>1 DEF ReplyInv, AwaitsWait
<1>4. CASE Open(t) \/ Close(t) \/ Seek(t) \/ TransferSend(t) \/ TransferNext(t)
  <2>1. Once' /\ \A u : Awaits(u)' <=> Awaits(u) \/ u = t
    BY <1>1, <1>4, FileAsks
  <2>2. WaitsInPlace(t)'
    <3>1. CASE Open(t) \/ Close(t) \/ Seek(t)
      <4>1. pc'[t] = "file"
        BY <1>1, <3>1 DEF Open, Close, Seek, AskAndWait
      <4>2. vm'.state[t] = "WAITING"
        BY <1>1, <3>1, FileQuiet
      <4> QED BY <4>1, <4>2 DEF WaitsInPlace
    <3>2. CASE TransferSend(t) \/ TransferNext(t)
      <4>1. pc'[t] = "sent"
        BY <1>1, <3>2 DEF TransferSend, TransferNext, SendChunk
      <4>2. vm'.state[t] = "RUNNING"
        BY <1>1, <3>2, FileQuiet
      <4> QED BY <4>1, <4>2 DEF WaitsInPlace
    <3> QED BY <1>4, <3>1, <3>2
  <2> QED BY <1>3, <2>1, <2>2
<1>5. ASSUME UNCHANGED <<asked, answers, handler>>,
             Awaits(t) => WaitsInPlace(t)'
      PROVE  ReplyInv'
  BY <1>1, <1>3, <1>5, SameOnce
<1>6. CASE FileReturn(t) \/ Transfer(t) \/ TransferRetry(t) \/ TransferDone(t) \/ ReadFAT(t)
  <2>1. pc[t] \notin {"sent", "waiting"}
    BY <1>6 DEF FileReturn, Transfer, TransferRetry, TransferDone, ReadFAT, CallsFile, At
  <2>2. ~ Awaits(t)
    BY <1>1, <2>1, RunsUnawaited
  <2>3. UNCHANGED <<asked, answers, handler>>
    BY <1>6 DEF FileReturn, Transfer, TransferRetry, TransferDone, ReadFAT, fileVars
  <2> QED BY <1>5, <2>2, <2>3
<1>7. CASE TransferWait(t)
  <2>1. pc'[t] = "waiting" /\ UNCHANGED <<asked, answers, handler>>
    BY <1>1, <1>7 DEF TransferWait, fileVars
  <2>2. vm'.state[t] = "WAITING"
    BY <1>1, <1>7, FileQuiet
  <2> QED BY <1>5, <2>1, <2>2 DEF WaitsInPlace
<1>8. CASE TransferBlock(t)
  <2>1. /\ pc[t] = "waiting" /\ pc'[t] = "chunk"
        /\ UNCHANGED <<asked, answers, handler>>
    BY <1>1, <1>8 DEF TransferBlock, At, fileVars
  <2>2. vm'.state[t] = "WAITING" <=> vm.state[t] = "WAITING"
    BY <1>1, <1>8, FileQuiet
  <2> QED BY <1>1, <1>5, <2>1, <2>2 DEF AwaitsWait, WaitsInPlace
<1> QED BY <1>4, <1>6, <1>7, <1>8 DEF FileCall, FileStep

\* The other calls.
LEMMA CallReplies ==
  ASSUME SInv, SInv', OnlyRepliesWake, UniqueIDs, ReplyInv, NEW t \in Thread,
         OtherCall(t)
  PROVE  ReplyInv'
<1>1. (ThreadCall(t) \/ MutexCall(t)) /\ UNCHANGED <<asked, answers, handler>>
  BY DEF OtherCall, fileVars
<1>2. Quiet' /\ Undisturbed(t) /\ Quiet /\ AwaitsWait /\ Once
  BY <1>1, CallQuiet DEF ReplyInv
<1>3. ~ Awaits(t)
  BY <1>1, <1>2, CallPlace, RunsUnawaited DEF Location
<1>4. \A u \in Thread : Awaits(u)' => WaitsInPlace(u)'
  BY <1>1, <1>2, <1>3, SameOnce, OthersWait
<1> QED BY <1>1, <1>2, <1>4, SameOnce DEF ReplyInv, AwaitsWait

\* Who awaits a callback has not been deleted.
LEMMA AwaitingLives ==
  ASSUME SInv, AwaitsWait, NEW t \in Thread, Awaits(t)
  PROVE  t \notin vm.freed /\ vm.state[t] # "DEAD"
<1>1. vm.state[t] # "DEAD"
  BY DEF AwaitsWait, WaitsInPlace
<1> QED BY <1>1 DEF SInv, KernelInv, Registered

\* The first step of a callback.
LEMMA SignalReplies ==
  ASSUME SInv, ReplyInv, NEW t \in Thread, ReplySignal(t)
  PROVE  /\ ReplyInv' /\ UNCHANGED <<vm, pc, frame, call, buffers>>
         /\ \E r \in Outstanding : \E n :
              /\ \A q : q \in Outstanding' <=> q \in Outstanding /\ q.client # r.client
              /\ n \in Result(r) /\ cd' = [cd EXCEPT ![r.client] = n]
<1> DEFINE r == Head(answers)
<1>1. /\ handler[t] = NULL /\ Machine!Deliver(r) /\ answers # << >>
      /\ IF r.client \in vm.freed
         THEN vm' = Undefined(vm) /\ UNCHANGED <<cd, handler>>
         ELSE /\ \E n \in Result(r) : cd' = [cd EXCEPT ![r.client] = n]
              /\ handler' = [handler EXCEPT ![t] = r.client]
              /\ UNCHANGED vm
      /\ UNCHANGED <<pc, frame, call, buffers>>
  BY DEF ReplySignal
<1>2. FileTypes /\ Quiet /\ Once /\ AwaitsWait
  BY DEF SInv, ReplyInv
<1>3. r \in FileRequest /\ r \in Elems(answers)
  BY <1>1, <1>2, TailElems DEF FileTypes
<1> HIDE DEF r
<1>4. r \in Outstanding /\ r.client \in Thread
  BY <1>3, OutstandingWhere DEF FileRequest
<1>5. r.client \notin vm.freed
  BY <1>2, <1>4, AwaitingLives DEF Awaits
<1>6. /\ Once' /\ \A u \in Thread : Awaits(u)' <=> Awaits(u)
      /\ \A q : q \in Outstanding' <=> q \in Outstanding /\ q.client # r.client
  BY <1>1, <1>2, <1>5, DeliverOnce
<1>7. Quiet' /\ AwaitsWait'
  BY <1>1, <1>2, <1>5, <1>6 DEF Quiet, Sleepers, DeadPlaces, AwaitsWait, WaitsInPlace
<1> QED BY <1>1, <1>4, <1>5, <1>6, <1>7 DEF ReplyInv

\* The rest of a callback, which makes its thread ready.
LEMMA CallbackReplies ==
  ASSUME SInv, SInv', ReplyInv, NEW t \in Thread, Callback(t)
  PROVE  ReplyInv'
<1>1. PICK x : x = handler[t]
  OBVIOUS
<1>2. FileTypes /\ Quiet /\ Once /\ AwaitsWait /\ vm \in VMState
  BY FileState DEF SInv, ReplyInv
<1>3. /\ x # NULL /\ x \in Thread
      /\ handler' = [handler EXCEPT ![t] = NULL]
      /\ UNCHANGED <<asked, answers>> /\ pc' = pc
  BY <1>1, <1>2 DEF Callback, FileTypes
<1>4. /\ Once' /\ Awaits(x) /\ ~ Awaits(x)'
      /\ \A u \in Thread \ {x} : Awaits(u)' <=> Awaits(u)
  <2>1. /\ Once'
        /\ \A y : y = handler[t] =>
             /\ Awaits(y) /\ ~ Awaits(y)'
             /\ \A u \in Thread \ {y} : Awaits(u)' <=> Awaits(u)
    BY <1>1, <1>2, <1>3, CallbackOnce
  <2> QED BY <1>1, <2>1
<1>5. x \notin vm.freed /\ WaitsInPlace(x)
  BY <1>2, <1>3, <1>4, AwaitingLives DEF AwaitsWait
<1>6. vm.state[x] = "WAITING" /\ vm' = PushReady([vm EXCEPT !.state[x] = "READY"], x)
  BY <1>1, <1>5 DEF Callback, Wake
<1>7. /\ Aside(vm, vm', x) /\ vm'.ticks = vm.ticks
      /\ vm'.state = [vm.state EXCEPT ![x] = "READY"]
  BY <1>2, <1>3, <1>6, PushAside DEF Quiet
<1>8. Undisturbed(x)
  BY <1>3, <1>7 DEF Undisturbed
<1>9. ~ (vm.ticks[x] > 0)
  BY <1>3, <1>2, <1>5 DEF Quiet, Sleepers, WaitsInPlace
<1>10. vm'.state[x] = "READY"
  BY <1>2, <1>3, <1>7 DEF VMState
<1>11. Quiet'
  BY <1>2, <1>3, <1>7, <1>8, <1>9, <1>10, UndisturbedQuiet
<1>12. \A u \in Thread : Awaits(u)' => WaitsInPlace(u)'
  BY <1>2, <1>4, <1>8, OthersWait
<1> QED BY <1>4, <1>11, <1>12 DEF ReplyInv, AwaitsWait

\* The timer.
LEMMA TimerReplies ==
  ASSUME SInv, SInv', ReplyInv, TimerISR, UNCHANGED fileVars
  PROVE  ReplyInv'
<1>1. Quiet /\ Once /\ AwaitsWait /\ UNCHANGED <<pc, asked, answers, handler>>
  BY DEF ReplyInv, TimerISR, fileVars
<1>2. ASSUME NEW u \in Thread, Awaits(u) PROVE WaitsInPlace(u)'
  <2>1. WaitsInPlace(u)
    BY <1>1, <1>2 DEF AwaitsWait
  <2>2. ~ (vm.ticks[u] > 0)
    BY <1>1, <2>1 DEF Quiet, Sleepers, WaitsInPlace
  <2>3. /\ vm'.state[u] = "WAITING" <=> vm.state[u] = "WAITING"
        /\ vm'.state[u] = "DEAD" <=> vm.state[u] = "DEAD"
    BY <1>1, <2>2, TimerQuiet
  <2>4. vm'.state[u] \in {"DEAD", "RUNNING", "READY", "WAITING"}
    BY DEF SInv, KernelInv, Typed, VMState, ThreadState
  <2> QED BY <1>1, <2>1, <2>3, <2>4 DEF WaitsInPlace
<1> QED BY <1>1, <1>2, SameOnce, TimerQuiet DEF ReplyInv, AwaitsWait

\* Every step.
LEMMA ReplyStep ==
  ASSUME SInv, SInv', OnlyRepliesWake, UniqueIDs, ReplyInv, [FileNext]_allVars
  PROVE  ReplyInv'
<1>1. CASE MachineAnswers
  <2>1. PICK c \in FileClass : Machine!Answer(c)
    BY <1>1 DEF MachineAnswers
  <2>2. UNCHANGED <<vm, pc, handler>>
    BY <1>1 DEF MachineAnswers, vars
  <2>3. FileTypes /\ Quiet /\ Once /\ AwaitsWait
    BY DEF SInv, ReplyInv
  <2>4. Once' /\ \A u : Awaits(u)' <=> Awaits(u)
    BY <2>1, <2>2, <2>3, AnswerOnce
  <2> QED BY <2>2, <2>3, <2>4 DEF ReplyInv, Quiet, Sleepers, DeadPlaces, AwaitsWait, WaitsInPlace
<1>2. CASE (Halted /\ UNCHANGED fileVars) \/ UNCHANGED allVars
  BY <1>2, FileState, SameReplyInv DEF Halted, vars, fileVars, allVars
<1> QED BY <1>1, <1>2, FileReplies, CallReplies, SignalReplies, CallbackReplies,
           TimerReplies DEF FileNext

-----------------------------------------------------------------------------
(* The buffers                                                             *)

\* A thread's buffer is allocated and its own, and the buffer of a request is
\* that of the thread that made it.
Buffered ==
  /\ \A t \in Thread : call[t].buf # NULL =>
       /\ call[t].buf \in buffers
       /\ \A u \in Thread : call[u].buf = call[t].buf => u = t
  /\ \A r \in Outstanding : r.buf # NULL => call[r.client].buf = r.buf

\* What the machine has are requests.
LEMMA OutstandingTyped ==
  /\ FileTypes => \A r \in Outstanding : r \in FileRequest /\ r.client \in Thread
  /\ FileTypes' => \A r \in Outstanding' : r \in FileRequest /\ r.client \in Thread
<1>1. ASSUME NEW f \in [FileClass -> Seq(FileRequest)], NEW q \in Seq(FileRequest), NEW r,
             (\E c \in FileClass : r \in Elems(f[c])) \/ r \in Elems(q)
      PROVE  r \in FileRequest /\ r.client \in Thread
  <2>1. CASE \E c \in FileClass : r \in Elems(f[c])
    <3>1. PICK c \in FileClass : r \in Elems(f[c])
      BY <2>1
    <3>2. f[c] \in Seq(FileRequest)
      OBVIOUS
    <3>3. Elems(f[c]) \subseteq FileRequest
      BY <3>2, QueueType
    <3> QED BY <3>1, <3>3 DEF FileRequest
  <2>2. CASE r \in Elems(q)
    <3>1. Elems(q) \subseteq FileRequest
      BY QueueType
    <3> QED BY <2>2, <3>1 DEF FileRequest
  <2> QED BY <1>1, <2>1, <2>2
<1>2. FileTypes => \A r \in Outstanding : r \in FileRequest /\ r.client \in Thread
  BY <1>1, OutstandingWhere DEF FileTypes
<1>3. FileTypes' => \A r \in Outstanding' : r \in FileRequest /\ r.client \in Thread
  BY <1>1, OutstandingWhere DEF FileTypes
<1> QED BY <1>2, <1>3

\* The call a thread begins with.
LEMMA TransferBegins ==
  ASSUME SInv, NEW t \in Thread, Transfer(t)
  PROVE  /\ UNCHANGED <<asked, answers, handler>> /\ pc[t] = "app"
         /\ \A u \in Thread \ {t} : cd'[u] = cd[u]
         /\ \E c \in FileCallType :
              AllocateRound(t, c) /\ c.sum = 0 /\ c.left = c.len
<1>1. PICK kind \in {"read", "read_fat", "write"}, n \in Lengths :
        /\ CallsFile(t, kind)
        /\ AllocateRound(t, [EmptyCall EXCEPT !.kind = kind, !.len = n, !.left = n])
        /\ cd' = [cd EXCEPT ![t] = IF kind = "write" THEN -739 ELSE -728]
        /\ UNCHANGED <<frame, handler, asked, answers>>
  BY DEF Transfer
<1> DEFINE c == [EmptyCall EXCEPT !.kind = kind, !.len = n, !.left = n]
<1>2. c \in FileCallType
  <2>1. n \in Nat /\ 0 \in Int /\ kind \in {"none", "read", "read_fat", "write"}
    BY FileAssumption
  <2>2. EmptyCall \in FileCallType
    BY DEF EmptyCall, FileCallType
  <2> QED BY <2>1, <2>2 DEF FileCallType
<1>3. c.sum = 0 /\ c.left = c.len
  BY DEF EmptyCall
<1>4. AllocateRound(t, c)
  BY <1>1
<1>5. \A u \in Thread \ {t} : cd'[u] = cd[u]
  BY <1>1 DEF SInv, FileTypes
<1>6. pc[t] = "app"
  BY <1>1 DEF CallsFile, At
<1> HIDE DEF c
<1> QED BY <1>1, <1>2, <1>3, <1>4, <1>5, <1>6

\* Thread t changes its buffer, which no request of its own has, or makes a
\* request with it.
LEMMA BufferMoves ==
  ASSUME Buffered, FileTypes', NEW t \in Thread,
         \A u \in Thread \ {t} :
           /\ call'[u].buf = call[u].buf
           /\ call[u].buf # NULL => call[u].buf \in buffers' /\ call[u].buf # call'[t].buf,
         call'[t].buf # NULL => call'[t].buf \in buffers',
         \A q \in Outstanding' :
           \/ q \in Outstanding /\ q.client # t
           \/ q.client = t /\ q.buf \in {NULL, call'[t].buf}
  PROVE  Buffered'
<1>1. ASSUME NEW u \in Thread, call'[u].buf # NULL
      PROVE  /\ call'[u].buf \in buffers'
             /\ \A w \in Thread : call'[w].buf = call'[u].buf => w = u
  BY <1>1 DEF Buffered
<1>2. ASSUME NEW q \in Outstanding', q.buf # NULL
      PROVE  call'[q.client].buf = q.buf
  <2>1. q.client \in Thread
    BY OutstandingTyped
  <2> QED BY <1>2, <2>1 DEF Buffered
<1> QED BY <1>1, <1>2 DEF Buffered

\* The file functions keep the buffers apart.
LEMMA FileBuffers ==
  ASSUME SInv, SInv', Once, AwaitsWait, Buffered, NEW t \in Thread,
         FileCall(t) \/ FileStep(t)
  PROVE  Buffered'
<1>1. /\ FileTypes /\ FileTypes' /\ vm.tr = t
      /\ \A u \in Thread : call[u] \in FileCallType
  BY FileTypesStep DEF SInv, FileTypes
<1>2. \A q \in Outstanding : q.client = t => Awaits(t)
  BY DEF Awaits
<1>3. CASE Open(t) \/ Close(t) \/ Seek(t) \/ TransferSend(t) \/ TransferNext(t)
  <2>1. PICK r \in FileRequest :
          /\ r.client = t
          /\ \A q : q \in Outstanding' <=> q \in Outstanding \/ q = r
          /\ r.buf \in {NULL, call[t].buf}
    BY <1>3, FileAsks
  <2>2. ~ Awaits(t)
    BY <1>3, FileAsks
  <2>3. buffers' = buffers /\ \A u \in Thread : call'[u].buf = call[u].buf
    <3>1. CASE Open(t) \/ Close(t) \/ Seek(t) \/ TransferSend(t)
      BY <3>1 DEF Open, Close, Seek, AskAndWait, TransferSend
    <3>2. CASE TransferNext(t)
      BY <1>1, <3>2 DEF TransferNext, FileTypes, FileCallType
    <3> QED BY <1>3, <3>1, <3>2
  <2>4. \A q \in Outstanding' :
          \/ q \in Outstanding /\ q.client # t
          \/ q.client = t /\ q.buf \in {NULL, call'[t].buf}
    BY <1>2, <2>1, <2>2, <2>3
  <2>5. \A u \in Thread : call[u].buf # NULL =>
          /\ call[u].buf \in buffers'
          /\ \A w \in Thread \ {u} : call[w].buf # call[u].buf
    BY <2>3 DEF Buffered
  <2> QED BY <1>1, <2>3, <2>4, <2>5, BufferMoves
<1>4. ASSUME UNCHANGED <<asked, answers, handler>>, pc[t] \notin {"sent", "waiting"},
             \A u \in Thread \ {t} : call'[u].buf = call[u].buf,
             \A u \in Thread \ {t} : call[u].buf # NULL => call[u].buf \in buffers',
             call'[t].buf # NULL =>
               /\ call'[t].buf \in buffers'
               /\ \A u \in Thread \ {t} : call[u].buf # call'[t].buf
      PROVE  Buffered'
  <2>1. ~ Awaits(t)
    BY <1>1, <1>4, RunsUnawaited
  <2>2. \A q \in Outstanding' : q \in Outstanding /\ q.client # t
    BY <1>2, <1>4, <2>1, SameOnce
  <2>3. \A u \in Thread \ {t} : call[u].buf # NULL => call[u].buf # call'[t].buf
    BY <1>4
  <2> QED BY <1>1, <1>4, <2>2, <2>3, BufferMoves
<1>5. ASSUME NEW c \in FileCallType, AllocateRound(t, c)
      PROVE  /\ \A u \in Thread \ {t} : call'[u].buf = call[u].buf
             /\ \A u \in Thread : call[u].buf # NULL => call[u].buf \in buffers'
             /\ call'[t].buf # NULL =>
                  /\ call'[t].buf \in buffers'
                  /\ \A u \in Thread : call[u].buf # call'[t].buf
  <2>1. PICK b \in Allocated(c.len) :
          /\ buffers' = buffers \cup ({b} \ {NULL})
          /\ call' = [call EXCEPT ![t] = [c EXCEPT !.buf = b]]
    BY <1>5 DEF AllocateRound
  <2>2. b = NULL \/ b \notin buffers
    BY DEF Allocated
  <2>3. call'[t].buf = b /\ \A u \in Thread \ {t} : call'[u] = call[u]
    BY <1>1, <2>1 DEF FileTypes, FileCallType
  <2> QED BY <2>1, <2>2, <2>3 DEF Buffered
<1>6. CASE Transfer(t)
  BY <1>4, <1>5, <1>6, TransferBegins
<1>7. CASE TransferRetry(t)
  BY <1>1, <1>4, <1>5, <1>7 DEF TransferRetry, At
<1>8. CASE TransferDone(t) \/ ReadFAT(t)
  <2>1. /\ UNCHANGED <<asked, answers, handler>> /\ pc[t] \in {"buffer", "chunk"}
        /\ call' = [call EXCEPT ![t] = EmptyCall]
        /\ buffers' = buffers \/ buffers' = buffers \ {call[t].buf}
    BY <1>8 DEF TransferDone, ReadFAT, At
  <2>2. /\ call'[t].buf = NULL
        /\ \A u \in Thread \ {t} : call'[u] = call[u]
    BY <1>1, <2>1 DEF FileTypes, EmptyCall
  <2>3. \A u \in Thread \ {t} : call[u].buf # NULL => call[u].buf \in buffers'
    BY <2>1 DEF Buffered
  <2> QED BY <1>4, <2>1, <2>2, <2>3
<1>9. CASE FileReturn(t) \/ TransferWait(t) \/ TransferBlock(t)
  <2>1. UNCHANGED <<call, buffers, asked, answers, handler>>
    BY <1>9 DEF FileReturn, TransferWait, TransferBlock, fileVars
  <2> QED BY <2>1, SameOnce DEF Buffered
<1> QED BY <1>3, <1>6, <1>7, <1>8, <1>9 DEF FileCall, FileStep

\* Every step does.
LEMMA BufferStep ==
  ASSUME SInv, SInv', ReplyInv, Buffered, [FileNext]_allVars
  PROVE  Buffered'
<1>1. ASSUME UNCHANGED <<call, buffers>>, \A q \in Outstanding' : q \in Outstanding
      PROVE  Buffered'
  BY <1>1 DEF Buffered
<1>2. Once /\ AwaitsWait /\ FileTypes
  BY DEF ReplyInv, SInv
<1>3. ASSUME NEW t \in Thread, ReplySignal(t) PROVE Buffered'
  BY <1>1, <1>3, SignalReplies
<1>4. CASE MachineAnswers
  <2>1. PICK c \in FileClass : Machine!Answer(c)
    BY <1>4 DEF MachineAnswers
  <2>2. UNCHANGED <<handler, call, buffers>>
    BY <1>4 DEF MachineAnswers
  <2>3. \A q : q \in Outstanding' <=> q \in Outstanding
    BY <1>2, <2>1, <2>2, AnswerOnce
  <2> QED BY <1>1, <2>2, <2>3
<1>5. ASSUME UNCHANGED <<call, buffers, asked, answers>>
      PROVE  Buffered'
  <2>1. Outstanding' = Outstanding
    BY <1>5 DEF Outstanding
  <2> QED BY <1>1, <1>5, <2>1
<1>6. CASE \/ \E t \in Thread : Callback(t) \/ OtherCall(t)
           \/ TimerISR /\ UNCHANGED fileVars
           \/ Halted /\ UNCHANGED fileVars
           \/ UNCHANGED allVars
  BY <1>5, <1>6 DEF Callback, OtherCall, fileVars, allVars
<1> QED BY <1>2, <1>3, <1>4, <1>6, FileBuffers DEF FileNext

-----------------------------------------------------------------------------
(* The bytes transferred, where no request fails                           *)

Requested(t) == \E r \in Outstanding : r.client = t

\* What is transferred and what is left make the length; a reply that has come
\* is for the whole chunk.
CountedAt(t) ==
  /\ pc[t] = "buffer" => call[t].sum = 0 /\ call[t].left = call[t].len
  /\ pc[t] \in {"sent", "waiting", "chunk"} =>
       /\ call[t].sum = call[t].len - call[t].left
       /\ Requested(t) \/ cd[t] = ChunkLength(call[t].left)

Counted ==
  /\ \A t \in Thread : CountedAt(t)
  /\ \A r \in Outstanding :
       pc[r.client] # "file" => r.len = ChunkLength(call[r.client].left)

\* A step that changes the call, the reply or the requests of one thread.
LEMMA CountMoves ==
  ASSUME Counted, FileTypes', AwaitsWait', NEW t \in Thread, CountedAt(t)',
         \A u \in Thread \ {t} :
           /\ pc'[u] = pc[u] \/ pc'[u] \in Location
           /\ call'[u] = call[u] /\ cd'[u] = cd[u],
         \A q : q.client # t => (q \in Outstanding' <=> q \in Outstanding),
         \A q \in Outstanding' : q.client = t =>
           pc'[t] = "file" \/ q.len = ChunkLength(call'[t].left)
  PROVE  Counted'
<1>1. ASSUME NEW u \in Thread \ {t} PROVE CountedAt(u)'
  <2>1. Requested(u)' <=> Requested(u)
    BY DEF Requested
  <2>2. /\ pc'[u] = "buffer" => pc[u] = "buffer"
        /\ pc'[u] \in {"sent", "waiting", "chunk"} => pc[u] = pc'[u]
    BY DEF Location
  <2>3. CountedAt(u) /\ call'[u] = call[u] /\ cd'[u] = cd[u]
    BY DEF Counted
  <2> QED BY <2>1, <2>2, <2>3 DEF CountedAt
<1>2. ASSUME NEW q \in Outstanding', pc'[q.client] # "file"
      PROVE  q.len = ChunkLength(call'[q.client].left)
  <2>1. q.client \in Thread
    BY OutstandingTyped
  <2>2. CASE q.client = t
    BY <1>2, <2>2
  <2>3. CASE q.client # t
    <3>1. q \in Outstanding /\ Awaits(q.client)'
      BY <2>3 DEF Awaits
    <3>2. pc'[q.client] \in {"sent", "file", "waiting", "chunk"}
      BY <2>1, <3>1 DEF AwaitsWait, WaitsInPlace
    <3>3. pc'[q.client] = pc[q.client]
      BY <2>1, <2>3, <3>2 DEF Location
    <3> QED BY <1>2, <2>1, <2>3, <3>1, <3>3 DEF Counted
  <2> QED BY <2>2, <2>3
<1>3. \A u \in Thread : CountedAt(u)'
  BY <1>1
<1> QED BY <1>2, <1>3 DEF Counted

\* The file functions keep the count.
LEMMA FileCounts ==
  ASSUME SInv, SInv', ReplyInv, AwaitsWait', Counted, NEW t \in Thread,
         FileCall(t) \/ FileStep(t)
  PROVE  Counted'
<1>1. /\ FileTypes /\ FileTypes' /\ vm.tr = t /\ Once /\ AwaitsWait
      /\ pc \in [Thread -> FileLocation] /\ pc' \in [Thread -> FileLocation]
      /\ call[t] \in FileCallType /\ cd[t] \in Int
      /\ \A u \in Thread \ {t} : pc'[u] = pc[u]
  BY FileTypesStep DEF SInv, FileTypes, ThreadTypes, ReplyInv
<1>2. \A u \in Thread \ {t} : call'[u] = call[u] /\ cd'[u] = cd[u]
  <2>1. CASE Open(t) \/ Close(t) \/ Seek(t)
    BY <1>1, <2>1 DEF Open, Close, Seek, AskAndWait, FileTypes
  <2>2. ASSUME NEW c, AllocateRound(t, c) PROVE \A u \in Thread \ {t} : call'[u] = call[u]
    BY <1>1, <2>2 DEF AllocateRound, FileTypes
  <2>3. CASE Transfer(t)
    BY <2>2, <2>3, TransferBegins
  <2>4. CASE TransferRetry(t)
    BY <2>2, <2>4 DEF TransferRetry
  <2>5. CASE FileReturn(t) \/ TransferSend(t) \/ TransferWait(t) \/ TransferBlock(t)
    BY <2>5 DEF FileReturn, TransferSend, TransferWait, TransferBlock, fileVars
  <2>6. CASE TransferNext(t)
    BY <1>1, <2>6 DEF TransferNext, FileTypes
  <2>7. CASE TransferDone(t) \/ ReadFAT(t)
    BY <1>1, <2>7 DEF TransferDone, ReadFAT, FileTypes
  <2> QED BY <2>1, <2>3, <2>4, <2>5, <2>6, <2>7 DEF FileCall, FileStep
<1>3. Requested(t) => Awaits(t)
  BY DEF Requested, Awaits
<1>4. CountedAt(t)
  BY DEF Counted
<1>5. CASE Open(t) \/ Close(t) \/ Seek(t) \/ TransferSend(t) \/ TransferNext(t)
  <2>1. ~ Awaits(t)
    BY <1>1, <1>5, FileAsks
  <2>2. PICK r \in FileRequest :
          /\ r.client = t
          /\ \A q : q \in Outstanding' <=> q \in Outstanding \/ q = r
          /\ pc'[t] = "file" \/ r.len = ChunkLength(call'[t].left)
    BY <1>1, <1>5, FileAsks
  <2>3. Requested(t)' /\ \A q \in Outstanding : q.client # t
    BY <1>3, <2>1, <2>2 DEF Requested
  <2>4. CountedAt(t)'
    <3>1. CASE Open(t) \/ Close(t) \/ Seek(t)
      <4>1. pc'[t] = "file"
        BY <1>1, <3>1 DEF Open, Close, Seek, AskAndWait
      <4> QED BY <4>1 DEF CountedAt
    <3>2. CASE TransferSend(t)
      <4>1. pc'[t] = "sent" /\ pc[t] = "buffer" /\ call' = call
        BY <1>1, <3>2 DEF TransferSend, SendChunk, At
      <4>2. call[t].sum = call[t].len - call[t].left
        BY <1>1, <1>4, <4>1 DEF CountedAt, FileCallType
      <4> QED BY <2>3, <4>1, <4>2 DEF CountedAt
    <3>3. CASE TransferNext(t)
      <4> DEFINE left == call[t].left - Chunk
      <4>1. /\ pc'[t] = "sent" /\ pc[t] = "chunk" /\ left >= 0
            /\ call' = [call EXCEPT ![t].left = left, ![t].sum = @ + cd[t]]
        BY <1>1, <3>3 DEF TransferNext, SendChunk, At
      <4>2. cd[t] = Chunk /\ call[t].sum = call[t].len - call[t].left
        BY <1>1, <1>3, <1>4, <2>1, <4>1, FileAssumption DEF CountedAt, ChunkLength, FileCallType
      <4>3. /\ call'[t].left = left /\ call'[t].sum = call[t].sum + cd[t]
            /\ call'[t].len = call[t].len
        BY <1>1, <4>1 DEF FileTypes, FileCallType
      <4>4. call'[t].sum = call'[t].len - call'[t].left
        BY <1>1, <4>2, <4>3, FileAssumption DEF FileCallType
      <4> QED BY <2>3, <4>1, <4>4 DEF CountedAt
    <3> QED BY <1>5, <3>1, <3>2, <3>3
  <2>5. \A q : q.client # t => (q \in Outstanding' <=> q \in Outstanding)
    BY <2>2
  <2>6. \A q \in Outstanding' : q.client = t =>
          pc'[t] = "file" \/ q.len = ChunkLength(call'[t].left)
    BY <2>2, <2>3
  <2> QED BY <1>1, <1>2, <2>4, <2>5, <2>6, CountMoves
<1>6. ASSUME UNCHANGED <<asked, answers, handler>>, pc[t] \notin {"sent", "waiting"},
             CountedAt(t)'
      PROVE  Counted'
  <2>1. ~ Requested(t)
    BY <1>1, <1>3, <1>6, RunsUnawaited
  <2>2. \A q : q \in Outstanding' <=> q \in Outstanding
    BY <1>6, SameOnce
  <2>3. \A q \in Outstanding' : q.client # t
    BY <2>1, <2>2 DEF Requested
  <2> QED BY <1>1, <1>2, <1>6, <2>2, <2>3, CountMoves
<1>7. CASE FileReturn(t) \/ TransferDone(t) \/ ReadFAT(t)
  <2>1. /\ UNCHANGED <<asked, answers, handler>>
        /\ pc[t] \in {"file", "chunk", "buffer"} /\ pc'[t] = "app"
    BY <1>1, <1>7 DEF FileReturn, TransferDone, ReadFAT, At, fileVars
  <2> QED BY <1>6, <2>1 DEF CountedAt
<1>8. ASSUME NEW c \in FileCallType, AllocateRound(t, c), c.sum = 0, c.left = c.len
      PROVE  CountedAt(t)'
  <2>1. PICK b : call' = [call EXCEPT ![t] = [c EXCEPT !.buf = b]]
    BY <1>8 DEF AllocateRound
  <2>2. call'[t].sum = 0 /\ call'[t].left = call'[t].len
    BY <1>1, <1>8, <2>1 DEF FileTypes, FileCallType
  <2>3. pc'[t] = "buffer"
    BY <1>1, <1>8 DEF AllocateRound
  <2> QED BY <2>2, <2>3 DEF CountedAt
<1>9. CASE Transfer(t)
  BY <1>6, <1>8, <1>9, TransferBegins
<1>10. CASE TransferRetry(t)
  <2>1. /\ UNCHANGED <<asked, answers, handler>> /\ pc[t] = "buffer"
        /\ AllocateRound(t, call[t])
    BY <1>10 DEF TransferRetry, At
  <2>2. CountedAt(t)'
    BY <1>1, <1>4, <1>8, <2>1 DEF CountedAt
  <2> QED BY <1>6, <2>1, <2>2
<1>11. CASE TransferWait(t) \/ TransferBlock(t)
  <2>1. /\ UNCHANGED <<call, cd, asked, answers>>
        /\ pc[t] \in {"sent", "waiting"} /\ pc'[t] \in {"waiting", "chunk"}
    BY <1>1, <1>11 DEF TransferWait, TransferBlock, At, fileVars
  <2>2. Outstanding' = Outstanding
    BY <2>1 DEF Outstanding
  <2>3. CountedAt(t)'
    BY <1>4, <2>1, <2>2 DEF CountedAt, Requested
  <2>4. \A q \in Outstanding : q.client = t => q.len = ChunkLength(call[t].left)
    BY <2>1 DEF Counted
  <2> QED BY <1>1, <1>2, <2>1, <2>2, <2>3, <2>4, CountMoves
<1> QED BY <1>5, <1>7, <1>9, <1>10, <1>11 DEF FileCall, FileStep

\* Every step keeps the count.
LEMMA CountStep ==
  ASSUME SInv, SInv', ReplyInv, ReplyInv', ~ Faults, Counted, [FileNext]_allVars
  PROVE  Counted'
<1>1. /\ FileTypes /\ FileTypes' /\ Once /\ AwaitsWait /\ AwaitsWait'
      /\ pc \in [Thread -> FileLocation] /\ pc' \in [Thread -> FileLocation]
  BY DEF ReplyInv, SInv, ThreadTypes
<1>2. ASSUME NEW t \in Thread, ReplySignal(t) PROVE Counted'
  <2> PICK r \in Outstanding : \E n :
          /\ \A q : q \in Outstanding' <=> q \in Outstanding /\ q.client # r.client
          /\ n \in Result(r) /\ cd' = [cd EXCEPT ![r.client] = n]
    BY <1>2, SignalReplies
  <2>1. PICK n :
          /\ \A q : q \in Outstanding' <=> q \in Outstanding /\ q.client # r.client
          /\ n \in Result(r) /\ cd' = [cd EXCEPT ![r.client] = n]
    OBVIOUS
  <2>2. UNCHANGED <<pc, call>>
    BY <1>2, SignalReplies
  <2>3. r.client \in Thread /\ n = r.len
    BY <1>1, <2>1, OutstandingTyped DEF Result
  <2>4. PICK c : c = r.client
    OBVIOUS
  <2>5. /\ c \in Thread /\ cd'[c] = r.len
        /\ \A u \in Thread \ {c} : cd'[u] = cd[u]
    BY <1>1, <2>1, <2>3, <2>4 DEF FileTypes
  <2>6. CountedAt(c)'
    <3>1. CountedAt(c) /\ (pc[c] # "file" => r.len = ChunkLength(call[c].left))
      BY <2>4, <2>5 DEF Counted
    <3> QED BY <2>2, <2>5, <3>1 DEF CountedAt
  <2>7. \A q : q.client # c => (q \in Outstanding' <=> q \in Outstanding)
    BY <2>1, <2>4
  <2>8. \A q \in Outstanding' : q.client # c
    BY <2>1, <2>4
  <2> QED BY <1>1, <2>2, <2>5, <2>6, <2>7, <2>8, CountMoves
<1>3. ASSUME NEW t \in Thread, OtherCall(t) PROVE Counted'
  <2>1. /\ ThreadCall(t) \/ MutexCall(t)
        /\ UNCHANGED <<cd, call, asked, answers, handler>>
    BY <1>3 DEF OtherCall, fileVars
  <2>2. /\ pc'[t] \in Location
        /\ \A u \in Thread \ {t} : pc'[u] = pc[u] \/ pc'[u] \in Location
    BY <2>1, CallMoves DEF Location
  <2>3. \A q : q \in Outstanding' <=> q \in Outstanding
    BY <2>1, SameOnce
  <2>4. pc[t] \in Location
    BY <2>1, CallPlace
  <2>5. ~ Awaits(t)
    BY <1>1, <2>1, <2>4, CallPlace, RunsUnawaited DEF Location
  <2>6. \A q \in Outstanding' : q.client # t
    BY <2>3, <2>5 DEF Awaits
  <2>7. CountedAt(t)'
    BY <2>2 DEF CountedAt, Location
  <2> QED BY <1>1, <2>1, <2>2, <2>3, <2>6, <2>7, CountMoves
<1>4. ASSUME UNCHANGED <<pc, call, cd>>, Outstanding' = Outstanding
      PROVE  Counted'
  BY <1>4 DEF Counted, CountedAt, Requested
<1>5. CASE MachineAnswers
  <2>1. PICK c \in FileClass : Machine!Answer(c)
    BY <1>5 DEF MachineAnswers
  <2>2. UNCHANGED <<pc, call, cd, handler>>
    BY <1>5 DEF MachineAnswers, vars
  <2>3. \A q : q \in Outstanding' <=> q \in Outstanding
    BY <1>1, <2>1, <2>2, AnswerOnce
  <2>4. Outstanding' = Outstanding
    BY <2>3
  <2> QED BY <1>4, <2>2, <2>4
<1>6. CASE \/ \E t \in Thread : Callback(t)
           \/ TimerISR /\ UNCHANGED fileVars
           \/ Halted /\ UNCHANGED fileVars
           \/ UNCHANGED allVars
  <2>1. UNCHANGED <<pc, call, cd, asked, answers>>
    BY <1>6 DEF Callback, TimerISR, Halted, vars, fileVars, allVars
  <2>2. Outstanding' = Outstanding
    BY <2>1 DEF Outstanding
  <2> QED BY <1>4, <2>1, <2>2
<1> QED BY <1>1, <1>2, <1>3, <1>5, <1>6, FileCounts DEF FileNext

-----------------------------------------------------------------------------
(* The theorems about replies                                              *)

\* The invariant of the programs of OnlyRepliesWake.
TransferInv == ReplyInv /\ Buffered /\ (Faults \/ Counted)

\* It holds at first.
LEMMA ReplyInit ==
  ASSUME OnlyRepliesWake, FileInit
  PROVE  TransferInv
<1>1. PICK n \in MainTicks :
        /\ vm.state = [t \in Thread |-> CASE t = Main -> "RUNNING"
                                          [] t = Idle -> "READY"
                                          [] OTHER    -> "DEAD"]
        /\ vm.ticks = [t \in Thread |-> IF t = Main THEN n ELSE -1]
        /\ vm.held = [t \in Thread |-> << >>]
        /\ vm.waiting = [t \in Thread |-> NULL]
        /\ vm.readyQ = [p \in Priority |->
                          IF p = VM_THREAD_PRIORITY_NIL THEN <<Idle>> ELSE << >>]
  BY DEF FileInit, Init
<1>2. /\ pc = [t \in Thread |-> IF t \in {Main, Idle} THEN "app" ELSE "none"]
      /\ call = [t \in Thread |-> EmptyCall]
      /\ handler = [t \in Thread |-> NULL]
      /\ asked = [c \in FileClass |-> << >>] /\ answers = << >>
  BY DEF FileInit, Init, Machine!Init
<1>3. Idle \in Thread /\ Main \in Thread /\ Main # Idle /\ n <= 0
  BY <1>1, ObjectAssumption DEF Thread, OnlyRepliesWake
<1>4. /\ Elems(<< >>) = {} /\ Clients(<< >>) = {}
      /\ Elems(<<Idle>>) = {Idle}
      /\ Distinct(<< >>) /\ Distinct(<<Idle>>) /\ ClientOnce(<< >>)
  BY DEF Elems, Clients, Distinct, ClientOnce
<1>5. Quiet
  <2>1. Calm(vm)
    BY <1>1, <1>3, <1>4 DEF Calm
  <2>2. \A t \in Thread : ~ (vm.ticks[t] > 0)
    BY <1>1, <1>3, CallAssumption
  <2>3. \A t \in Thread : pc[t] \in Location
    BY <1>2 DEF Location
  <2> QED BY <2>1, <2>2, <2>3 DEF Quiet, Sleepers, DeadPlaces
<1>6. Outstanding = {}
  BY <1>2, <1>4, OutstandingWhere
<1>7. Once
  BY <1>2, <1>4 DEF Once, FileClass
<1>8. AwaitsWait
  BY <1>2, <1>6, ObjectAssumption DEF AwaitsWait, Awaits
<1>9. Buffered
  BY <1>2, <1>6 DEF Buffered, EmptyCall
<1>10. Counted
  BY <1>2, <1>6 DEF Counted, CountedAt
<1> QED BY <1>5, <1>7, <1>8, <1>9, <1>10 DEF TransferInv, ReplyInv

\* Every step keeps it.
LEMMA TransferStep ==
  ASSUME OnlyRepliesWake, UniqueIDs, SInv, SInv', TransferInv, [FileNext]_allVars
  PROVE  TransferInv'
<1>1. ReplyInv'
  BY ReplyStep DEF TransferInv
<1>2. Buffered'
  BY BufferStep DEF TransferInv
<1>3. Faults \/ Counted'
  BY <1>1, CountStep DEF TransferInv
<1> QED BY <1>1, <1>2, <1>3 DEF TransferInv

\* Whoever awaits a callback waits, and the buffers of the requests are those
\* of the calls.
LEMMA ReplyFacts ==
  ASSUME SInv, TransferInv
  PROVE  NothingBeforeReply /\ RepliesFindTheirThread
<1>1. Quiet /\ Once /\ AwaitsWait /\ Buffered /\ FileTypes
  BY DEF TransferInv, ReplyInv, SInv
<1>2. WaitsForReply
  BY <1>1, RunsUnawaited DEF WaitsForReply
<1>3. BuffersNotShared
  <2> SUFFICES ASSUME NEW r \in Outstanding, r.buf # NULL
               PROVE  /\ r.buf \in buffers
                      /\ \A t \in Thread \ {r.client} : call[t].buf # r.buf
    BY DEF BuffersNotShared
  <2>1. r.client \in Thread /\ call[r.client].buf = r.buf
    BY <1>1, OutstandingTyped DEF Buffered
  <2> QED BY <1>1, <2>1 DEF Buffered
<1>4. RepliesFindTheirThread
  <2> SUFFICES ASSUME NEW t \in Thread, handler[t] # NULL, pc[handler[t]] = "file"
               PROVE  vm.state[handler[t]] = "WAITING"
    BY DEF RepliesFindTheirThread
  <2>1. handler[t] \in Thread
    BY <1>1 DEF FileTypes
  <2> QED BY <1>1, <2>1 DEF AwaitsWait, Awaits, WaitsInPlace
<1> QED BY <1>2, <1>3, <1>4 DEF NothingBeforeReply

-----------------------------------------------------------------------------
(* Locks and identifiers                                                   *)

Creating == {"alloc", "newid", "incid"}

\* Nothing is registered, named or locked, and nobody goes on in VMThreadCreate.
Unregistered ==
  /\ frame' = frame
  /\ vm'.threads = vm.threads /\ vm'.id = vm.id /\ vm'.nextID = vm.nextID
  /\ vm'.owner = vm.owner /\ vm'.QTex = vm.QTex /\ vm'.mutexes = vm.mutexes
  /\ \A u \in Thread : pc'[u] = pc[u] \/ pc'[u] \notin Creating

\* scheduler() names nobody and locks nothing.
LEMMA SwitchRegisters ==
  ASSUME NEW s, KernelInv(s, NULL)
  PROVE  LET r == Scheduler(s) IN
         /\ r.threads = s.threads /\ r.id = s.id /\ r.nextID = s.nextID
         /\ r.owner = s.owner /\ r.QTex = s.QTex /\ r.mutexes = s.mutexes
BY SchedulerOnward DEF Onward

\* The file functions and the handler of replies register nothing.
LEMMA FileRegisters ==
  ASSUME SInv, NEW t \in Thread,
         FileCall(t) \/ FileStep(t) \/ ReplySignal(t) \/ Callback(t)
  PROVE  Unregistered
<1> DEFINE Alike(r) ==
      /\ r.threads = vm.threads /\ r.id = vm.id /\ r.nextID = vm.nextID
      /\ r.owner = vm.owner /\ r.QTex = vm.QTex /\ r.mutexes = vm.mutexes
<1>1. /\ vm \in VMState /\ KernelInv(vm, NULL)
      /\ pc \in [Thread -> FileLocation] /\ Alike(vm)
  BY FileState DEF SInv, ThreadTypes
<1>2. Alike(Wait(vm, t)) /\ Alike(Undefined(vm))
  BY <1>1 DEF Wait, Undefined, VMState
<1>3. Alike(Scheduler(vm))
  BY <1>1, SwitchRegisters
<1>4. CASE Open(t) \/ Close(t) \/ Seek(t)
  <2>1. vm.tr = t /\ pc[t] = "app" /\ t # Idle
    BY <1>4 DEF Open, Close, Seek, CallsFile, At
  <2>2. vm.state[t] = "RUNNING"
    BY <2>1 DEF SInv, Executes
  <2>3. KernelInv(Wait(vm, t), NULL)
    BY <1>1, <2>1, <2>2, WaitInv
  <2>4. Alike(Scheduler(Wait(vm, t)))
    BY <1>2, <2>3, SwitchRegisters
  <2>5. /\ vm' = Scheduler(Wait(vm, t)) /\ frame' = frame
        /\ pc' = [pc EXCEPT ![t] = "file"]
    BY <1>4 DEF Open, Close, Seek, AskAndWait
  <2> HIDE DEF Alike
  <2>6. Alike(vm')
    BY <2>4, <2>5
  <2> QED BY <1>1, <2>5, <2>6 DEF Alike, Unregistered, Creating
<1>5. CASE Transfer(t) \/ TransferRetry(t) \/ TransferBlock(t)
  <2>1. /\ vm' = Scheduler(vm) /\ frame' = frame
        /\ pc' = [pc EXCEPT ![t] = "buffer"] \/ pc' = [pc EXCEPT ![t] = "chunk"]
    BY <1>5 DEF Transfer, TransferRetry, TransferBlock, AllocateRound
  <2> HIDE DEF Alike
  <2>2. Alike(vm')
    BY <1>3, <2>1
  <2> QED BY <1>1, <2>1, <2>2 DEF Alike, Unregistered, Creating
<1>6. CASE \/ FileReturn(t) \/ TransferSend(t) \/ TransferWait(t)
           \/ TransferNext(t) \/ TransferDone(t) \/ ReadFAT(t)
  <2>1. /\ vm' = vm \/ vm' = Wait(vm, t) \/ vm' = Undefined(vm)
        /\ frame' = frame
        /\ \E l \in {"app", "sent", "waiting"} : pc' = [pc EXCEPT ![t] = l]
    BY <1>6 DEF FileReturn, TransferSend, TransferWait, TransferNext, SendChunk,
                TransferDone, ReadFAT
  <2> HIDE DEF Alike
  <2>2. Alike(vm')
    BY <1>1, <1>2, <2>1
  <2> QED BY <1>1, <2>1, <2>2 DEF Alike, Unregistered, Creating
<1>7. CASE ReplySignal(t)
  <2>1. (vm' = vm \/ vm' = Undefined(vm)) /\ frame' = frame /\ pc' = pc
    BY <1>7 DEF ReplySignal
  <2> HIDE DEF Alike
  <2>2. Alike(vm')
    BY <1>1, <1>2, <2>1
  <2> QED BY <2>1, <2>2 DEF Alike, Unregistered
<1>8. CASE Callback(t)
  <2>1. /\ vm' = Wake(vm, handler[t]) \/ vm' = Undefined(vm)
        /\ frame' = frame /\ pc' = pc /\ handler[t] # NULL
    BY <1>8 DEF Callback
  <2>2. handler[t] \in Thread
    BY <2>1 DEF SInv, FileTypes
  <2>3. Alike(Wake(vm, handler[t]))
    BY <1>1, <2>2, PushOnward DEF Wake, Onward
  <2> HIDE DEF Alike
  <2>4. Alike(vm')
    BY <1>2, <2>1, <2>3
  <2> QED BY <2>1, <2>4 DEF Alike, Unregistered
<1> QED BY <1>4, <1>5, <1>6, <1>7, <1>8 DEF FileCall, FileStep

\* Every step: the mutexes do what MutexSpec allows, and while only main
\* creates threads the identifiers are kept apart.
LEMMA FileLocks ==
  ASSUME SInv, Unowned, [FileNext]_allVars
  PROVE  LockStep /\ ("create" \notin AppCalls /\ IDInv => IDInv')
<1>1. KernelInv(vm, NULL) /\ frame \in [Thread -> FrameType]
  BY DEF SInv, ThreadTypes
<1>2. ASSUME Unregistered PROVE LockStep /\ (IDInv => IDInv')
  <2>1. LockStep
    BY <1>2, NoLockStep DEF Unregistered
  <2>2. ASSUME IDInv PROVE IDInv'
    <3>1. UniqueIDs' /\ IDsBelowNext'
      BY <1>2, <2>2 DEF Unregistered, IDInv, UniqueIDs, IDsBelowNext
    <3>2. Main \in Thread
      BY DEF Thread
    <3>3. MainCreates'
      BY <1>2, <2>2, <3>2 DEF Unregistered, Creating, IDInv, MainCreates
    <3> QED BY <3>1, <3>3 DEF IDInv
  <2> QED BY <2>1, <2>2
<1>3. ASSUME NEW t \in Thread, OtherCall(t)
      PROVE  LockStep /\ ("create" \notin AppCalls /\ IDInv => IDInv')
  <2>1. ThreadCall(t) \/ MutexCall(t)
    BY <1>3 DEF OtherCall
  <2>2. CallInv
    BY <2>1, CallPlace, RunningCaller DEF Location
  <2>3. LockStep
    BY <2>1, <2>2, ThreadCallLocks, CreateStoreLocks, MutexCallLocks
  <2>4. pc \in [Thread -> FileLocation]
    BY DEF SInv, ThreadTypes
  <2> QED BY <2>1, <2>2, <2>3, <2>4, IDStep
<1>4. CASE TimerISR
  <2>1. Onward(vm, vm') /\ LockStep /\ UNCHANGED <<pc, frame>>
    BY <1>1, <1>4, TimerLocks DEF TimerISR
  <2> QED BY <2>1 DEF IDInv, UniqueIDs, IDsBelowNext, MainCreates, Onward
<1>5. CASE MachineAnswers \/ Halted \/ UNCHANGED allVars
  <2>1. UNCHANGED <<vm, pc, frame>>
    BY <1>5 DEF MachineAnswers, Halted, vars, allVars
  <2> QED BY <1>2, <2>1 DEF Unregistered
<1>6. ASSUME NEW t \in Thread, FileCall(t) \/ FileStep(t) \/ ReplySignal(t) \/ Callback(t)
      PROVE  LockStep /\ (IDInv => IDInv')
  BY <1>2, <1>6, FileRegisters
<1> QED BY <1>3, <1>4, <1>5, <1>6 DEF FileNext

-----------------------------------------------------------------------------
(* The theorems                                                            *)

\* Whatever the file functions and the replies do, the mutexes remain locks
\* with queues, as MutexSpec says.
THEOREM FilesKeepLocks == FileSpec => ImplementsMutexSpec
<1>1. FileInit => Unowned /\ Lock!Init
  BY InitLocks DEF FileInit
<1>2. SInv /\ Unowned /\ [FileNext]_allVars => LockStep
  BY FileLocks
<1>3. LockStep => Unowned' /\ [Lock!Next]_(Lock!vars)
  BY DEF LockStep
<1> QED BY <1>1, <1>2, <1>3, FileInvariance, PTL DEF FileSpec, ImplementsMutexSpec, Lock!Spec

\* No two threads have one identifier when only main creates threads.
THEOREM FileUniqueIDs ==
  ASSUME "create" \notin AppCalls
  PROVE  FileSpec => []UniqueIDs
<1>1. FileInit => Unowned /\ IDInv
  BY InitLocks, InitIDs DEF FileInit
<1>2. SInv /\ Unowned /\ IDInv /\ [FileNext]_allVars => Unowned' /\ IDInv'
  BY FileLocks DEF LockStep
<1>3. IDInv => UniqueIDs
  BY DEF IDInv
<1> QED BY <1>1, <1>2, <1>3, FileInvariance, PTL DEF FileSpec

\* The invariant of the programs in which only replies wake a thread.
LEMMA RepliesInvariant ==
  ASSUME OnlyRepliesWake
  PROVE  FileSpec /\ []UniqueIDs => []TransferInv
<1>1. FileInit => TransferInv
  BY ReplyInit
<1>2. SInv /\ SInv' /\ UniqueIDs /\ TransferInv /\ [FileNext]_allVars => TransferInv'
  BY TransferStep
<1> QED BY <1>1, <1>2, FileInvariance, PTL DEF FileSpec

\* While no mutex, termination or uninitialized tick count wakes a thread,
\* nobody goes on in a file function before its reply, and no piece of the
\* shared pool is used again while a request has it.
THEOREM RepliesComeFirst ==
  ASSUME OnlyRepliesWake
  PROVE  FileSpec /\ []UniqueIDs => []NothingBeforeReply
<1>1. SInv /\ TransferInv => NothingBeforeReply
  BY ReplyFacts
<1> QED BY <1>1, RepliesInvariant, FileInvariance, PTL

\* And the reply to an open, a close or a seek finds its thread WAITING.
THEOREM RepliesNeverSpin ==
  ASSUME OnlyRepliesWake
  PROVE  FileSpec /\ []UniqueIDs => []RepliesFindTheirThread
<1>1. SInv /\ TransferInv => RepliesFindTheirThread
  BY ReplyFacts
<1> QED BY <1>1, RepliesInvariant, FileInvariance, PTL

\* A transfer returns what it was asked for when no request fails or falls
\* short, whatever it was interrupted by.
LEMMA TransferEnds ==
  ASSUME SInv, ReplyInv, Counted, OnlyRepliesWake, UniqueIDs,
         NEW t \in Thread, [FileNext]_allVars,
         pc[t] = "chunk", pc'[t] = "app"
  PROVE  cd'[t] = call[t].len
<1>1. /\ Quiet /\ Once /\ AwaitsWait /\ vm.state[t] # "DEAD"
      /\ FileTypes /\ pc \in [Thread -> FileLocation]
  BY DEF ReplyInv, SInv, ThreadTypes, Quiet, DeadPlaces, Location
<1>2. CASE TransferDone(t)
  <2>1. /\ vm.tr = t /\ call[t].left - Chunk < 0
        /\ cd' = [cd EXCEPT ![t] = call[t].sum + cd[t]]
    BY <1>2 DEF TransferDone, At
  <2>2. ~ Requested(t)
    BY <1>1, <2>1, RunsUnawaited DEF Requested, Awaits
  <2>3. call[t].sum = call[t].len - call[t].left /\ cd[t] = ChunkLength(call[t].left)
    BY <2>2 DEF Counted, CountedAt
  <2>4. /\ call[t].left \in Nat /\ call[t].len \in Nat
        /\ cd'[t] = call[t].sum + cd[t]
    BY <1>1, <2>1 DEF FileTypes, FileCallType
  <2> QED BY <2>1, <2>3, <2>4, FileAssumption DEF ChunkLength
<1>3. ASSUME NEW u \in Thread \ {t}, Undisturbed(u) PROVE FALSE
  BY <1>1, <1>3 DEF Undisturbed
<1>4. ASSUME NEW u \in Thread, OtherCall(u) PROVE FALSE
  <2>1. ThreadCall(u) \/ MutexCall(u)
    BY <1>4 DEF OtherCall
  <2>2. u # t
    BY <2>1, CallPlace DEF Location
  <2>3. Undisturbed(u)
    BY <1>1, <2>1, CallQuiet
  <2> QED BY <1>3, <2>2, <2>3
<1>5. ASSUME NEW u \in Thread, FileCall(u) \/ FileStep(u), ~ TransferDone(t) PROVE FALSE
  <2>1. u = t
    BY <1>1, <1>3, <1>5, FileQuiet
  <2>2. FileStep(t) /\ ~ TransferDone(t)
    BY <1>5, <2>1 DEF FileCall, Open, Close, Seek, Transfer, CallsFile, At
  <2>3. TransferNext(t)
    BY <2>2 DEF FileStep, FileReturn, TransferRetry, TransferSend, TransferWait,
                TransferBlock, TransferDone, ReadFAT, At
  <2> QED BY <1>1, <2>3 DEF TransferNext, SendChunk
<1>6. ASSUME pc' = pc PROVE FALSE
  BY <1>6
<1>7. CASE \/ \E u \in Thread : ReplySignal(u) \/ Callback(u)
           \/ TimerISR \/ MachineAnswers \/ Halted \/ UNCHANGED allVars
  BY <1>6, <1>7 DEF ReplySignal, Callback, TimerISR, MachineAnswers, Halted, vars, allVars
<1> QED BY <1>2, <1>4, <1>5, <1>7 DEF FileNext

\* Every byte is transferred when no request fails or falls short.
THEOREM TransfersComplete ==
  ASSUME OnlyRepliesWake, ~ Faults
  PROVE  FileSpec /\ []UniqueIDs => TransfersAll
<1>1. SInv /\ UniqueIDs /\ TransferInv /\ [FileNext]_allVars
        => [\A t \in Thread :
              pc[t] = "chunk" /\ pc'[t] = "app" /\ cd'[t] >= 0
                => cd'[t] = call[t].len]_allVars
  BY TransferEnds DEF TransferInv
<1> QED BY <1>1, RepliesInvariant, FileInvariance, PTL DEF FileSpec, TransfersAll
=============================================================================
