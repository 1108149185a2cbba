------------------------------ MODULE Machine ------------------------------
(***************************************************************************)
(* The machine (Machine.cpp): two processes.  The parent runs the virtual  *)
(* machine; MachineFileOpen, Close, Read, Write and Seek put a request in  *)
(* a message queue and send SIGUSR2 to the child, which turns each signal  *)
(* into a byte of a pipe, polls the pipe and the descriptors with waiting  *)
(* reads, and puts its replies in a second queue, each followed by SIGUSR2 *)
(* to the parent, whose handler runs the callbacks.                        *)
(*                                                                         *)
(* A signal that is pending is not queued again: parentSig and childSig    *)
(* are booleans.  The grain is one system call of either process that the  *)
(* other can observe.                                                      *)
(***************************************************************************)
EXTENDS Integers, Sequences, SequencesExt, Vectors

CONSTANTS
  Client,    \* what the callbacks are called with: the calling threads
  FD,        \* the descriptors reads wait for
  Modulus,   \* 2^32: DRequestID is a uint32_t
  Crash,     \* whether the parent may be killed
  NULL

ASSUME MachineAssumption ==
  /\ Modulus \in Nat /\ Modulus > 1
  /\ NULL \notin Client
  /\ FD \cap {"now", "terminate"} = {}
  /\ Crash \in BOOLEAN

VARIABLES
  parent,      \* where the process of the virtual machine is
  handler,     \* whether MachineReplySignalHandler is running in it
  parentSig,   \* SIGUSR2 is pending for the parent
  requestID,   \* MachineRequestID
  pending,     \* MachinePendingCallbacks: the client of each request
  requests,    \* the request channel
  replies,     \* the reply channel
  childSig,    \* SIGUSR2 is pending for the child
  pipe,        \* the number of bytes in MachineSignalPipe
  child,       \* where the child's loop is
  terminated,  \* the child's Terminated
  pollFDs,     \* PollFDs without its first element, the pipe
  ready,       \* those of them whose revents are still to be looked at
  reads        \* PendingReads

parentVars == <<parent, handler, parentSig, requestID, pending>>
childVars == <<pipe, child, terminated, pollFDs, ready, reads>>
vars == <<parentVars, requests, replies, childSig, childVars>>

\* Opens, writes, seeks, closes and reads the child refuses (a buffer outside
\* the shared memory, more than 512 bytes) are executed "now"; the class of
\* another read is the descriptor it waits for.
Class == FD \cup {"now"}
ID == 0 .. Modulus - 1
Message == [id : ID, class : Class \cup {"terminate"}]

\* After MachineInitialize.
Init ==
  /\ parent = "run" /\ handler = FALSE /\ parentSig = FALSE
  /\ requestID = 0 /\ pending = << >>
  /\ requests = << >> /\ replies = << >>
  /\ childSig = FALSE /\ pipe = 0
  /\ child = "poll" /\ terminated = FALSE
  /\ pollFDs = << >> /\ ready = {} /\ reads = << >>

-----------------------------------------------------------------------------
(* The parent: requests                                                    *)

With(f, i, c) == [j \in DOMAIN f \cup {i} |-> IF j = i THEN c ELSE f[j]]
WithoutID(f, i) == [j \in DOMAIN f \ {i} |-> f[j]]

\* Mutant of NextID: wider than 32 bits.
NextIDWide == requestID + 1

NextID == (requestID + 1) % Modulus

\* MachineAddRequest and msgsnd.  The signals are suspended up to the kill.
Send(c, class) ==
  /\ parent = "run"
  /\ requestID' = NextID
  /\ pending' = With(pending, NextID, c)
  /\ requests' = Append(requests, [id |-> NextID, class |-> class])
  /\ UNCHANGED <<handler, parentSig, replies, childSig, childVars>>

\* MachineFileOpen and the others: a thread asks and waits for its answer.
MachineFile(c, class) ==
  /\ \A i \in DOMAIN pending : pending[i] # c
  /\ Send(c, class)
  /\ parent' = "kill"

MachineTerminate ==
  /\ Send(NULL, "terminate")
  /\ parent' = "kill_wait"

KillChild ==
  /\ parent \in {"kill", "kill_wait"}
  /\ childSig' = TRUE
  /\ parent' = IF parent = "kill" THEN "run" ELSE "wait"
  /\ UNCHANGED <<handler, parentSig, requestID, pending, requests, replies,
                 childVars>>

\* wait(): the child has exited.
WaitReturns ==
  /\ parent = "wait"
  /\ child = "exited"
  /\ parent' = "done"
  /\ UNCHANGED <<handler, parentSig, requestID, pending, requests, replies,
                 childSig, childVars>>

\* The process of the virtual machine is killed or aborts.
ParentDies ==
  /\ Crash
  /\ parent \notin {"dead", "done"}
  /\ parent' = "dead"
  /\ UNCHANGED <<handler, parentSig, requestID, pending, requests, replies,
                 childSig, childVars>>

-----------------------------------------------------------------------------
(* The parent: the handler of replies                                      *)

ReplySignal ==
  /\ parent = "run" /\ ~ handler /\ parentSig
  /\ handler' = TRUE
  /\ parentSig' = FALSE
  /\ UNCHANGED <<parent, requestID, pending, requests, replies, childSig,
                 childVars>>

\* Mutant of Receive: the callback is not erased.
ReceiveKeeps ==
  /\ parent = "run" /\ handler /\ replies # << >>
  /\ replies' = Tail(replies)
  /\ UNCHANGED <<parent, handler, parentSig, requestID, pending, requests,
                 childSig, childVars>>

\* One round of the handler's loop: the callback is erased, then called.
Receive ==
  /\ parent = "run" /\ handler /\ replies # << >>
  /\ replies' = Tail(replies)
  /\ pending' = WithoutID(pending, Head(replies).id)
  /\ UNCHANGED <<parent, handler, parentSig, requestID, requests, childSig,
                 childVars>>

\* msgrcv finds no message (or no queue).
HandlerReturn ==
  /\ parent = "run" /\ handler /\ replies = << >>
  /\ handler' = FALSE
  /\ UNCHANGED <<parent, parentSig, requestID, pending, requests, replies,
                 childSig, childVars>>

-----------------------------------------------------------------------------
(* The child                                                               *)

\* MachineRequestSignalHandler, at any point of the loop.
RequestSignal ==
  /\ childSig /\ child # "exited"
  /\ childSig' = FALSE
  /\ pipe' = pipe + 1
  /\ UNCHANGED <<parentVars, requests, replies, child, terminated, pollFDs,
                 ready, reads>>

\* poll() returns with the pipe or some descriptors ready.  (When a signal
\* interrupts it, no revents is set and the loop comes back to it.)
Poll ==
  /\ child = "poll"
  /\ \E R \in SUBSET ToSet(pollFDs) :
       /\ pipe > 0 \/ R # {}
       /\ ready' = R
  /\ child' = IF pipe > 0 THEN "take" ELSE "reads"
  /\ UNCHANGED <<parentVars, requests, replies, childSig, pipe, terminated,
                 pollFDs, reads>>

\* Mutant of PollTimeout: the parent is not looked for.
PollTimeoutForgets ==
  /\ child = "poll" /\ pipe = 0
  /\ UNCHANGED vars

\* poll() returns 0: kill(DParentPID, 0) tells whether the parent is alive.
PollTimeout ==
  /\ child = "poll" /\ pipe = 0
  /\ terminated' = (parent = "dead")
  /\ child' = IF parent = "dead" THEN "reads" ELSE "poll"
  /\ UNCHANGED <<parentVars, requests, replies, childSig, pipe, pollFDs,
                 ready, reads>>

\* Mutant of Take: the byte is not read.
TakeOnly ==
  /\ child = "take"
  /\ requests # << >>
  /\ requests' = Tail(requests)
  /\ UNCHANGED <<parentVars, childSig, pipe, ready>>

\* A byte of the pipe is read, then the first request taken: there always is one
\* (BytesAreRequests), so the case that msgrcv finds none does not arise.
Take ==
  /\ child = "take"
  /\ requests # << >>
  /\ pipe' = pipe - 1
  /\ requests' = Tail(requests)
  /\ UNCHANGED <<parentVars, childSig, ready>>

TakeNow ==
  /\ Take
  /\ Head(requests).class = "now"
  /\ replies' = Append(replies, Head(requests))
  /\ child' = "kill"
  /\ UNCHANGED <<terminated, pollFDs, reads>>

TakeRead ==
  LET fd == Head(requests).class IN
  /\ Take
  /\ fd \in FD
  /\ reads' = Append(reads, Head(requests))
  /\ pollFDs' = IF fd \in ToSet(pollFDs) THEN pollFDs ELSE Append(pollFDs, fd)
  /\ child' = "reads"
  /\ UNCHANGED <<replies, terminated>>

\* Mutant of TakeTerminate: Terminated is not set.
TakeTerminateIgnored ==
  /\ Take
  /\ Head(requests).class = "terminate"
  /\ child' = "reads"
  /\ UNCHANGED <<replies, terminated, pollFDs, reads>>

TakeTerminate ==
  /\ Take
  /\ Head(requests).class = "terminate"
  /\ terminated' = TRUE
  /\ child' = "reads"
  /\ UNCHANGED <<replies, pollFDs, reads>>

\* The end of MachineSendReply.
KillParent ==
  /\ child = "kill"
  /\ parentSig' = IF parent = "dead" THEN parentSig ELSE TRUE
  /\ child' = "reads"
  /\ UNCHANGED <<parent, handler, requestID, pending, requests, replies,
                 childSig, pipe, terminated, pollFDs, ready, reads>>

\* Mutant of FirstRead: the last one.
LastRead(fd, k) ==
  /\ reads[k].class = fd
  /\ \A j \in k + 1 .. Len(reads) : reads[j].class # fd

\* The read at position k of PendingReads waits for fd, the first that does.
FirstRead(fd, k) ==
  /\ reads[k].class = fd
  /\ \A j \in 1 .. k - 1 : reads[j].class # fd

\* Mutant of AnswerRead: the read is not erased.
AnswerReadAgain ==
  /\ child = "reads"
  /\ \E n \in DOMAIN pollFDs, k \in DOMAIN reads :
       /\ pollFDs[n] \in ready
       /\ \A j \in 1 .. n - 1 : pollFDs[j] \notin ready
       /\ FirstRead(pollFDs[n], k)
       /\ replies' = Append(replies, reads[k])
       /\ ready' = ready \ {pollFDs[n]}
  /\ child' = "kill"
  /\ UNCHANGED <<parentVars, requests, childSig, pipe, terminated, pollFDs,
                 reads>>

\* The first descriptor with revents serves its first pending read.
AnswerRead ==
  /\ child = "reads"
  /\ \E n \in DOMAIN pollFDs, k \in DOMAIN reads :
       /\ pollFDs[n] \in ready
       /\ \A j \in 1 .. n - 1 : pollFDs[j] \notin ready
       /\ FirstRead(pollFDs[n], k)
       /\ replies' = Append(replies, reads[k])
       /\ reads' = RemoveAt(reads, k)
       /\ ready' = ready \ {pollFDs[n]}
  /\ child' = "kill"
  /\ UNCHANGED <<parentVars, requests, childSig, pipe, terminated, pollFDs>>

\* The descriptors some pending read still waits for.
Polled == {reads[k].class : k \in DOMAIN reads}

\* The end of the loop's body: descriptors nobody waits for are erased.
Again ==
  /\ child = "reads" /\ ready = {} /\ ~ terminated
  /\ pollFDs' = Only(pollFDs, Polled)
  /\ child' = "poll"
  /\ UNCHANGED <<parentVars, requests, replies, childSig, pipe, terminated,
                 ready, reads>>

\* The end of the loop: the queues are removed.
Exit ==
  /\ child = "reads" /\ ready = {} /\ terminated
  /\ requests' = << >> /\ replies' = << >>
  /\ reads' = << >> /\ pollFDs' = << >>
  /\ child' = "exited"
  /\ UNCHANGED <<parentVars, childSig, pipe, terminated, ready>>

-----------------------------------------------------------------------------
Parent ==
  \/ \E c \in Client, class \in Class : MachineFile(c, class)
  \/ MachineTerminate \/ KillChild \/ WaitReturns \/ ParentDies
  \/ ReplySignal \/ Receive \/ HandlerReturn

Child ==
  \/ RequestSignal \/ Poll \/ PollTimeout
  \/ TakeNow \/ TakeRead \/ TakeTerminate
  \/ KillParent \/ AnswerRead \/ Again \/ Exit

Stopped ==
  /\ parent \in {"done", "dead"} /\ child = "exited"
  /\ UNCHANGED vars

Next == Parent \/ Child \/ Stopped

Spec == Init /\ [][Next]_vars

-----------------------------------------------------------------------------
\* The loop of the child goes on, its signals and those of the parent are
\* delivered, and every descriptor a read waits for is readable in the end.
Loop ==
  \/ Poll \/ PollTimeout
  \/ TakeNow \/ TakeRead \/ TakeTerminate
  \/ KillParent \/ AnswerRead \/ Again \/ Exit

Fairness ==
  /\ WF_vars(Loop) /\ WF_vars(RequestSignal)
  /\ \A fd \in FD : SF_vars(Poll /\ fd \in ready')
  /\ WF_vars(KillChild) /\ WF_vars(WaitReturns)
  /\ WF_vars(ReplySignal) /\ WF_vars(Receive) /\ WF_vars(HandlerReturn)

-----------------------------------------------------------------------------
(* Safety                                                                  *)

\* The variables have their types.
TypeOK ==
  /\ parent \in {"run", "kill", "kill_wait", "wait", "done", "dead"}
  /\ {handler, parentSig, childSig, terminated} \subseteq BOOLEAN
  /\ requestID \in ID
  /\ DOMAIN pending \subseteq ID
  /\ \A i \in DOMAIN pending : pending[i] \in Client \cup {NULL}
  /\ requests \in Seq(Message) /\ replies \in Seq(Message)
  /\ reads \in Seq(Message)
  /\ pipe \in Nat
  /\ child \in {"poll", "take", "reads", "kill", "exited"}
  /\ pollFDs \in Seq(FD) /\ ready \subseteq ToSet(pollFDs)

\* Where the requests that clients wait for are.
FileMessage == [id : ID, class : Class]

Travelling == Only(requests, FileMessage) \o reads \o replies

\* No request is lost and none is answered twice: while the machine runs,
\* the requests with a callback are each in one place exactly, the request
\* channel, PendingReads or the reply channel, and no other request is.
EachRequestOnce ==
  child # "exited" =>
    /\ \A j, k \in DOMAIN Travelling :
         Travelling[j].id = Travelling[k].id => j = k
    /\ {Travelling[k].id : k \in DOMAIN Travelling}
         = {i \in DOMAIN pending : pending[i] # NULL}

\* A reply is never left in its channel with nobody to fetch it: the handler
\* is running, or its signal is pending, or the child is about to send it.
RepliesAreFetched ==
  replies # << >> => handler \/ parentSig \/ child = "kill" \/ parent = "dead"

\* Every byte in the child's pipe and every signal it has not handled yet is
\* for a request in the channel: the child never fetches in vain.  (The
\* converse fails: see CallbackRuns.)
BytesAreRequests ==
  child # "exited" => pipe + (IF childSig THEN 1 ELSE 0) <= Len(requests)

\* When the child waits in poll() it polls every descriptor some read waits
\* for, and no other, each once.
PollsForReads ==
  child = "poll" =>
    /\ ToSet(pollFDs) = Polled
    /\ Cardinality(ToSet(pollFDs)) = Len(pollFDs)

\* A request is kept in one place until its callback, and while that place is
\* PendingReads its descriptor is polled.
RequestsKept == EachRequestOnce /\ PollsForReads

\* Signals that merge still match the messages they announce: none too many
\* for the child, none too few for the parent.
SignalsMatchMessages == BytesAreRequests /\ RepliesAreFetched

\* The requests of the messages of a queue, by the callbacks that are pending.
Described(calls, q) ==
  [k \in DOMAIN q |->
     [client |-> IF q[k].id \in DOMAIN calls THEN calls[q[k].id] ELSE NULL,
      class  |-> q[k].class]]

\* The messages of a class that are not answered: those of PendingReads came
\* before those of the request channel.
Asked(kept, sent, class) ==
  LET S == [id : ID, class : {class}] IN Only(kept, S) \o Only(sent, S)

\* The machine is the channel of IOChannel: the requests of a class come from
\* the request channel to PendingReads, or right to the reply channel.
Channel ==
  INSTANCE IOChannel WITH
    Request <- [client : Client, class : Class],
    asked   <- [c \in Class |-> Described(pending, Asked(reads, requests, c))],
    answers <- Described(pending, replies)

ImplementsIOChannel == Channel!Spec

-----------------------------------------------------------------------------
(* Liveness                                                                *)

Awaits(c) == \E i \in DOMAIN pending : pending[i] = c
Running == parent \in {"run", "kill"}

\* "MachineFileOpen() should return immediately, but will call the callback
\* function asynchronously when completed" (Project02.pdf, page 34).
CallbackRuns ==
  \A c \in Client : Awaits(c) ~> (~ Awaits(c) \/ ~ Running)

\* MachineTerminate returns when no request is on its way: "This closes down
\* the cooperative process that is executing the machine abstraction"
\* (Project02.pdf, page 29).
TerminateReturnsWhenIdle ==
  (parent = "wait" /\ \A c \in Client : ~ Awaits(c)) ~> parent # "wait"

\* The child notices when the parent is gone and does not outlive it.
ChildFollowsParent == parent = "dead" ~> child = "exited"
=============================================================================
