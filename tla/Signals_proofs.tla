---------------------------- MODULE Signals_proofs ----------------------------
(***************************************************************************)
(* Theorems about Signals, for every number of threads, mutexes, requests  *)
(* and nested calls.                                                       *)
(***************************************************************************)
EXTENDS Signals, KernelInv

-----------------------------------------------------------------------------
(* The inductive invariant                                                 *)

Handler == {"isr", "usr2"}

\* How the frame of a call may look.
Shape(f) ==
  /\ f.at = "body" => f.kind = "api"
  /\ f.at = "alloc" => f.kind = "alloc"
  /\ f.at \in {"request", "wait"} => f.kind \in {"write", "read"}
  /\ f.at \in {"new", "create", "made"} => f.kind = "create"
  /\ f.at = "done" => f.kind \in {"write", "read", "create"}
  /\ f.at = "tick" => f.kind = "isr"
  /\ f.at \in {"reply", "answer"} => f.kind = "usr2"
  /\ f.kind = "usr2" => f.at \in {"reply", "answer", "back"}
  /\ f.at \in {"create", "made", "answer"} => f.of \in Thread

Good == {f \in Frame : Shape(f)}

Types ==
  /\ mask \subseteq Signal /\ sigs \subseteq Signal
  /\ pt \in Thread /\ cpu \in Thread /\ contexts \subseteq Thread
  /\ stack \in [Thread -> Seq(Good)]
  /\ Within(vm, Thread)
  /\ asked \in [Thread -> 0 .. MaxRequests]
  /\ replies \in Seq(Thread) /\ Len(replies) <= MaxRequests
  /\ pending \in BOOLEAN /\ leaked \in BOOLEAN
  /\ raced \in BOOLEAN /\ crossed \in BOOLEAN

Depth == \A t \in Thread : Len(stack[t]) <= MaxFrames

\* A function of the VM is the first call on its stack; idle calls none.
AppFirst == \A t \in Thread : \A i \in 1 .. Len(stack[t]) :
  stack[t][i].kind \notin Handler => i = 1 /\ t # Idle

\* A call that has suspended the signals and not resumed them.
Inside(f) == f.kind \in {"api", "alloc"} /\ f.at \in {"body", "sched", "pick"}

\* Such a call executes: it is not interrupted, and it is not switched out.
Past == \A t \in Thread : \A i \in 1 .. Len(stack[t]) :
  Inside(stack[t][i]) => t = cpu /\ i = Len(stack[cpu])

Masked == (Suspended => mask = Signal) /\ Past

\* A mask that some handler or MachineContextCreate puts back.
Safe == {f \in Frame : ALRM \notin f.saved}

\* The alarm is blocked exactly while a function of the VM that suspended the
\* signals executes.
NotBlocked ==
  /\ ALRM \notin sigs
  /\ ~ Suspended => ALRM \notin mask
  /\ stack \in [Thread -> Seq(Safe)]

Busy(t, i) == stack[t][i].at \in {"pick", "switch"}

\* At most one call of scheduler() is at work, on the executing stack, below
\* nothing but handlers of replies; otherwise the running thread executes.
Works ==
  /\ \A t \in Thread : \A i \in 1 .. Len(stack[t]) : Busy(t, i) =>
       /\ t = cpu /\ pt = cpu
       /\ \A j \in 1 .. Len(stack[cpu]) : j > i => stack[cpu][j].kind = "usr2"
  /\ cpu = vm.tr \/ \E i \in 1 .. Len(stack[cpu]) : Busy(cpu, i)

\* The running thread is RUNNING, but while scheduler() is called because it is
\* not; nobody is while scheduler() chooses; who is chosen is.
Runner ==
  /\ \/ vm.state[vm.tr] = "RUNNING"
     \/ \E i \in 1 .. Len(stack[cpu]) : stack[cpu][i].at \in {"sched", "pick"}
  /\ \A i \in 1 .. Len(stack[cpu]) :
       /\ stack[cpu][i].at = "pick" => \A u \in Thread : vm.state[u] # "RUNNING"
       /\ stack[cpu][i].at = "switch" => vm.state[vm.tr] = "RUNNING"

\* The threads, mutexes and queues are as VirtualMachine.cpp expects them, and
\* whoever is not dead has a context.
Machinery ==
  /\ KernelInv(vm, NULL) /\ Within(vm, contexts)
  /\ vm.mutexes = Mutex /\ vm.halt = "no"

Whole == ~ crossed /\ Machinery /\ Works /\ Runner

IInv ==
  /\ Types /\ Depth /\ AppFirst /\ Masked
  /\ leaked \/ NotBlocked
  /\ raced \/ Whole

-----------------------------------------------------------------------------
(* What a step does to the stacks                                          *)

Enters(f) == stack' = [stack EXCEPT ![cpu] = Append(@, f)]

Fresh(kind, point, saved, of) ==
  [kind |-> kind, at |-> point, saved |-> saved, of |-> of]

\* The calls that begin, and when.
Begins(f) ==
  \/ f = Fresh("api", "body", {}, NULL) /\ stack[cpu] = << >> /\ cpu # Idle
  \/ /\ f = Fresh("isr", "tick", mask, NULL)
     /\ ALRM \notin mask /\ Len(stack[cpu]) < MaxFrames
  \/ /\ f = Fresh("usr2", "reply", mask, NULL)
     /\ USR2 \notin mask /\ Len(stack[cpu]) < MaxFrames

\* How an innermost call goes on.
Moves(f, g) ==
  \/ f.at \in {"body", "wait", "alloc", "tick"} /\ g = [f EXCEPT !.at = "sched"]
  \/ f.at = "sched" /\ g = [f EXCEPT !.at = "pick"]
  \/ f.at = "pick" /\ g = [f EXCEPT !.at = "switch"]
  \/ f.at \in {"switch", "reply"} /\ g = [f EXCEPT !.at = "back"]
  \/ f.at = "request" /\ g = [f EXCEPT !.at = "wait"]
  \/ /\ f.at = "back" /\ f.kind \in {"write", "read"}
     /\ g = [f EXCEPT !.at = "request"] \/ g = [f EXCEPT !.at = "done"]
  \/ f.at = "create" /\ g = [f EXCEPT !.at = "made"]
  \/ /\ f.at = "body" \/ (f.at = "back" /\ f.kind = "alloc")
     /\ g = Fresh("alloc", "alloc", {}, NULL)
  \/ /\ f.at = "back" /\ f.kind = "alloc"
     /\ \/ g = Fresh("write", "request", {}, NULL)
        \/ g = Fresh("read", "request", {}, NULL)
        \/ g = Fresh("read", "done", {}, NULL)
        \/ g = Fresh("create", "new", {}, NULL)
  \/ f.at = "made" /\ g = Fresh("create", "done", {}, NULL)
  \/ f.at = "new" /\ \E t \in AppThread : g = Fresh("create", "create", mask, t)
  \/ f.at = "reply" /\ \E t \in Thread : g = [f EXCEPT !.at = "answer", !.of = t]
  \/ f.at = "answer" /\ g = [f EXCEPT !.at = "reply", !.of = NULL]

\* Every step begins, moves or ends a call on the executing stack, or none.
\* Only the switch goes to another stack.
StackStep ==
  /\ \/ UNCHANGED stack
     \/ \E f : Begins(f) /\ Enters(f)
     \/ stack[cpu] # << >> /\ Leave
     \/ stack[cpu] # << >> /\ \E g : Moves(Top(stack[cpu]), g) /\ Becomes(g)
  /\ cpu' = cpu \/ (stack[cpu] # << >> /\ Top(stack[cpu]).at = "switch" /\ GoTo("back"))

\* A call begins.
LEMMA EnterStack ==
  ASSUME NEW A, stack \in [Thread -> Seq(A)], cpu \in Thread, NEW f \in A, Enters(f)
  PROVE  LET n == Len(stack[cpu])
         IN  /\ stack' \in [Thread -> Seq(A)]
             /\ \A t \in Thread : t # cpu => stack'[t] = stack[t]
             /\ Len(stack'[cpu]) = n + 1 /\ stack'[cpu] # << >>
             /\ stack'[cpu][n + 1] = f
             /\ \A i \in 1 .. n : stack'[cpu][i] = stack[cpu][i]
<1>1. stack[cpu] \in Seq(A)
  OBVIOUS
<1>2. /\ Append(stack[cpu], f) \in Seq(A) /\ Append(stack[cpu], f) # << >>
      /\ Len(Append(stack[cpu], f)) = Len(stack[cpu]) + 1
      /\ \A i \in 1 .. Len(stack[cpu]) : Append(stack[cpu], f)[i] = stack[cpu][i]
      /\ Append(stack[cpu], f)[Len(stack[cpu]) + 1] = f
  BY <1>1, AppendProperties
<1>3. stack' = [stack EXCEPT ![cpu] = Append(stack[cpu], f)]
  BY DEF Enters
<1>4. stack'[cpu] = Append(stack[cpu], f)
  BY <1>3
<1>5. stack' \in [Thread -> Seq(A)] /\ \A t \in Thread : t # cpu => stack'[t] = stack[t]
  BY <1>2, <1>3
<1> QED BY <1>2, <1>4, <1>5

\* The innermost call goes on.
LEMMA BecomesStack ==
  ASSUME NEW A, stack \in [Thread -> Seq(A)], cpu \in Thread, stack[cpu] # << >>,
         NEW g \in A, Becomes(g)
  PROVE  LET n == Len(stack[cpu])
         IN  /\ stack' \in [Thread -> Seq(A)]
             /\ \A t \in Thread : t # cpu => stack'[t] = stack[t]
             /\ Len(stack'[cpu]) = n /\ stack'[cpu] # << >>
             /\ stack'[cpu][n] = g
             /\ \A i \in 1 .. n : i # n => stack'[cpu][i] = stack[cpu][i]
<1> DEFINE n == Len(stack[cpu])
           q == [stack[cpu] EXCEPT ![n] = g]
<1>1. stack[cpu] \in Seq(A) /\ n \in Nat /\ n # 0
  BY LenProperties, EmptySeq
<1>2. n \in 1 .. Len(stack[cpu])
  BY <1>1
<1>3. stack' = [stack EXCEPT ![cpu] = q]
  BY DEF Becomes
<1>4. /\ q \in Seq(A) /\ Len(q) = Len(stack[cpu])
      /\ \A j \in 1 .. Len(stack[cpu]) : q[j] = IF j = n THEN g ELSE stack[cpu][j]
  <2> HIDE DEF n
  <2> QED BY <1>1, <1>2, ExceptSeq
<1>5. q # << >>
  <2> HIDE DEF q
  <2> QED BY <1>1, <1>4, EmptySeq
<1> HIDE DEF q
<1>6. stack'[cpu] = q
  BY <1>3
<1>7. stack' \in [Thread -> Seq(A)] /\ \A t \in Thread : t # cpu => stack'[t] = stack[t]
  BY <1>3, <1>4
<1> QED BY <1>2, <1>4, <1>5, <1>6, <1>7

\* The innermost call returns.
LEMMA LeaveStack ==
  ASSUME NEW A, stack \in [Thread -> Seq(A)], cpu \in Thread, stack[cpu] # << >>, Leave
  PROVE  LET n == Len(stack[cpu])
         IN  /\ stack' \in [Thread -> Seq(A)]
             /\ \A t \in Thread : t # cpu => stack'[t] = stack[t]
             /\ Len(stack'[cpu]) = n - 1
             /\ \A i \in 1 .. n - 1 : stack'[cpu][i] = stack[cpu][i]
<1> DEFINE n == Len(stack[cpu])
           q == SubSeq(stack[cpu], 1, n - 1)
<1>1. stack[cpu] \in Seq(A) /\ n \in Nat /\ n >= 1 /\ DOMAIN stack[cpu] = 1 .. n
  BY LenProperties, EmptySeq
<1>2. \A i \in 1 .. n - 1 : stack[cpu][i] \in A
  BY <1>1, ElementOfSeq
<1>3. stack' = [stack EXCEPT ![cpu] = q]
  BY DEF Leave, Below
<1>4. /\ q \in Seq(A) /\ Len(q) = n - 1
      /\ \A i \in 1 .. n - 1 : q[i] = stack[cpu][i]
  <2>1. /\ q \in Seq(A)
        /\ Len(q) = IF 1 <= n - 1 THEN (n - 1) - 1 + 1 ELSE 0
        /\ \A i \in 1 .. (n - 1) - 1 + 1 : q[i] = stack[cpu][1 + i - 1]
    <3> HIDE DEF n
    <3> QED BY <1>1, <1>2, SubSeqProperties
  <2> HIDE DEF n, q
  <2> QED BY <1>1, <2>1
<1> HIDE DEF q
<1>5. stack'[cpu] = q
  BY <1>3
<1>6. stack' \in [Thread -> Seq(A)] /\ \A t \in Thread : t # cpu => stack'[t] = stack[t]
  BY <1>3, <1>4
<1> QED BY <1>4, <1>5, <1>6

\* A set of frames that calls begin in and stay in.
LEMMA StackStays ==
  ASSUME NEW A, stack \in [Thread -> Seq(A)], cpu \in Thread, StackStep,
         \A f : Begins(f) => f \in A,
         stack[cpu] # << >> => \A g : Moves(Top(stack[cpu]), g) => g \in A
  PROVE  stack' \in [Thread -> Seq(A)]
<1>1. CASE UNCHANGED stack
  BY <1>1
<1>2. ASSUME NEW f, Begins(f), Enters(f) PROVE stack' \in [Thread -> Seq(A)]
  BY <1>2, EnterStack
<1>3. CASE stack[cpu] # << >> /\ Leave
  BY <1>3, LeaveStack
<1>4. ASSUME stack[cpu] # << >>, NEW g, Moves(Top(stack[cpu]), g), Becomes(g)
      PROVE  stack' \in [Thread -> Seq(A)]
  BY <1>4, BecomesStack
<1> QED BY <1>1, <1>2, <1>3, <1>4 DEF StackStep

-----------------------------------------------------------------------------
(* Innermost calls                                                         *)

\* What is known of a stack.
LEMMA StackOf ==
  ASSUME Types, NEW t \in Thread
  PROVE  /\ stack[t] \in Seq(Good)
         /\ Len(stack[t]) \in Nat
         /\ DOMAIN stack[t] = 1 .. Len(stack[t])
         /\ stack[t] # << >> => Len(stack[t]) \in 1 .. Len(stack[t])
         /\ stack[t] = << >> => Len(stack[t]) = 0
         /\ \A i \in 1 .. Len(stack[t]) : stack[t][i] \in Good
<1>1. stack[t] \in Seq(Good)
  BY DEF Types
<1>2. /\ Len(stack[t]) \in Nat /\ DOMAIN stack[t] = 1 .. Len(stack[t])
      /\ stack[t] = << >> <=> Len(stack[t]) = 0
  BY <1>1, EmptySeq, LenProperties
<1>3. \A i \in 1 .. Len(stack[t]) : stack[t][i] \in Good
  BY <1>1, ElementOfSeq
<1> QED BY <1>1, <1>2, <1>3

\* The innermost call.
LEMMA TopFrame ==
  ASSUME Types, stack[cpu] # << >>
  PROVE  /\ cpu \in Thread /\ Len(stack[cpu]) \in 1 .. Len(stack[cpu])
         /\ Top(stack[cpu]) = stack[cpu][Len(stack[cpu])]
         /\ Top(stack[cpu]) \in Frame /\ Shape(Top(stack[cpu]))
<1>1. cpu \in Thread
  BY DEF Types
<1>2. Len(stack[cpu]) \in 1 .. Len(stack[cpu]) /\ Top(stack[cpu]) \in Good
  BY <1>1, StackOf DEF Top
<1> QED BY <1>1, <1>2 DEF Top, Good

\* A step that At admits.
LEMMA AtFrame ==
  ASSUME Types, NEW p, At(p)
  PROVE  /\ vm.halt = "no" /\ stack[cpu] # << >> /\ Top(stack[cpu]).at = p
         /\ cpu \in Thread /\ Len(stack[cpu]) \in 1 .. Len(stack[cpu])
         /\ Top(stack[cpu]) = stack[cpu][Len(stack[cpu])]
         /\ Top(stack[cpu]) \in Frame /\ Shape(Top(stack[cpu]))
BY TopFrame DEF At, Runs

\* Calls begin with frames of their kind.
LEMMA BeginsFrame ==
  ASSUME Types, NEW f, Begins(f)
  PROVE  /\ f \in Good /\ f.at \in {"body", "tick", "reply"}
         /\ f.kind \notin Handler => f.kind = "api" /\ stack[cpu] = << >> /\ cpu # Idle
         /\ f.saved \in {{}, mask}
         /\ f.kind \in {"isr", "usr2"} => stack[cpu] = << >> \/ mask # Signal
         /\ f.kind = "isr" => ALRM \notin mask
         /\ Len(stack[cpu]) < MaxFrames
<1>1. Len(stack[cpu]) < MaxFrames
  <2>1. stack[cpu] = << >> => Len(stack[cpu]) = 0
    BY StackOf DEF Types
  <2> QED BY <2>1, SignalsAssumption DEF Begins
<1>2. mask \subseteq Signal /\ {} \subseteq Signal
  BY DEF Types
<1>3. CASE f = Fresh("api", "body", {}, NULL) /\ stack[cpu] = << >> /\ cpu # Idle
  BY <1>1, <1>2, <1>3 DEF Fresh, Good, Frame, Shape, Handler
<1>4. CASE f = Fresh("isr", "tick", mask, NULL) /\ ALRM \notin mask
  BY <1>1, <1>2, <1>4 DEF Fresh, Good, Frame, Shape, Handler, Signal
<1>5. CASE f = Fresh("usr2", "reply", mask, NULL) /\ USR2 \notin mask
  BY <1>1, <1>2, <1>5 DEF Fresh, Good, Frame, Shape, Handler, Signal
<1> QED BY <1>3, <1>4, <1>5 DEF Begins

\* Calls go on with frames of their kind.
LEMMA MovesFrame ==
  ASSUME Types, NEW f \in Frame, Shape(f), NEW g, Moves(f, g)
  PROVE  /\ g \in Good
         /\ f.kind \in Handler <=> g.kind \in Handler
         /\ f.kind = "usr2" => g.kind = "usr2"
         /\ g.saved \in {f.saved, {}} \/ (g.saved = mask /\ ~ Inside(f))
<1> USE DEF Good, Frame, Shape, Handler, Inside
<1>1. mask \subseteq Signal /\ {} \subseteq Signal /\ AppThread \subseteq Thread
  BY DEF Types, Thread
<1>2. ASSUME NEW p \in {"sched", "pick", "switch", "back", "wait", "request", "done", "made"},
             g = [f EXCEPT !.at = p],
             (f.at \in {"body", "wait", "alloc", "tick"} /\ p = "sched")
             \/ (f.at = "sched" /\ p = "pick")
             \/ (f.at = "pick" /\ p = "switch")
             \/ (f.at \in {"switch", "reply"} /\ p = "back")
             \/ (f.at = "request" /\ p = "wait")
             \/ (f.at = "back" /\ f.kind \in {"write", "read"} /\ p \in {"request", "done"})
             \/ (f.at = "create" /\ p = "made")
      PROVE  /\ g \in Good /\ g.kind = f.kind /\ g.saved = f.saved
  <2>1. g.at = p /\ g.kind = f.kind /\ g.saved = f.saved /\ g.of = f.of /\ g \in Frame
    BY <1>2
  <2>2. Shape(g)
    BY <1>2, <2>1
  <2> QED BY <2>1, <2>2
<1>3. ASSUME NEW k \in {"alloc", "write", "read", "create"}, f.kind \in {"api", "alloc", "create"},
             NEW p, NEW of \in Thread \cup {NULL}, NEW s \in {{}, mask},
             g = Fresh(k, p, s, of),
             (k = "alloc" /\ p = "alloc")
             \/ (k \in {"write", "read"} /\ p = "request")
             \/ (k = "read" /\ p = "done")
             \/ (k = "create" /\ p \in {"new", "done"})
             \/ (k = "create" /\ p = "create" /\ of \in Thread)
      PROVE  g \in Good /\ g.kind \notin Handler /\ f.kind \notin Handler
  <2>1. g.at = p /\ g.kind = k /\ g.saved = s /\ g.of = of /\ g \in Frame
    BY <1>1, <1>3 DEF Fresh
  <2>2. Shape(g)
    BY <1>3, <2>1
  <2> QED BY <1>3, <2>1, <2>2
<1>4. CASE \E p \in {"sched", "pick", "switch", "back", "wait", "request", "done", "made"} :
             /\ g = [f EXCEPT !.at = p]
             /\ (f.at \in {"body", "wait", "alloc", "tick"} /\ p = "sched")
                \/ (f.at = "sched" /\ p = "pick")
                \/ (f.at = "pick" /\ p = "switch")
                \/ (f.at \in {"switch", "reply"} /\ p = "back")
                \/ (f.at = "request" /\ p = "wait")
                \/ (f.at = "back" /\ f.kind \in {"write", "read"} /\ p \in {"request", "done"})
                \/ (f.at = "create" /\ p = "made")
  BY <1>2, <1>4
<1>5. CASE f.at = "body" \/ (f.at = "back" /\ f.kind = "alloc") \/ f.at = "made"
  <2>1. f.kind \in {"api", "alloc", "create"}
    BY <1>5
  <2>2. CASE g = Fresh("alloc", "alloc", {}, NULL)
    BY <1>3, <2>1, <2>2 DEF Fresh
  <2>3. CASE g = Fresh("write", "request", {}, NULL) \/ g = Fresh("read", "request", {}, NULL)
    BY <1>3, <2>1, <2>3 DEF Fresh
  <2>4. CASE g = Fresh("read", "done", {}, NULL) \/ g = Fresh("create", "new", {}, NULL)
             \/ g = Fresh("create", "done", {}, NULL)
    BY <1>3, <2>1, <2>4 DEF Fresh
  <2> QED BY <1>4, <1>5, <2>2, <2>3, <2>4 DEF Moves
<1>6. CASE f.at = "new" /\ \E t \in AppThread : g = Fresh("create", "create", mask, t)
  BY <1>1, <1>3, <1>6 DEF Fresh
<1>7. CASE f.at = "reply" /\ \E t \in Thread : g = [f EXCEPT !.at = "answer", !.of = t]
  BY <1>7
<1>8. CASE f.at = "answer" /\ g = [f EXCEPT !.at = "reply", !.of = NULL]
  BY <1>8
<1> QED BY <1>4, <1>5, <1>6, <1>7, <1>8 DEF Moves

-----------------------------------------------------------------------------
(* Steps                                                                   *)

\* The points a call of any kind goes through.
Route == {<<"body", "sched">>, <<"wait", "sched">>, <<"alloc", "sched">>, <<"tick", "sched">>,
          <<"sched", "pick">>, <<"pick", "switch">>, <<"switch", "back">>, <<"reply", "back">>,
          <<"request", "wait">>, <<"create", "made">>}

\* A call that moves from point to point.
LEMMA GoToStep ==
  ASSUME Types, NEW p, NEW to, <<p, to>> \in Route, At(p), GoTo(to),
         cpu' = cpu \/ p = "switch"
  PROVE  StackStep
<1> DEFINE f == Top(stack[cpu])
           g == [f EXCEPT !.at = to]
<1>1. stack[cpu] # << >> /\ f.at = p
  BY AtFrame
<1>2. Becomes(g)
  BY DEF GoTo
<1> HIDE DEF f
<1>3. Moves(f, g) /\ (p = "switch" => to = "back")
  BY <1>1 DEF Moves, Route
<1> QED BY <1>1, <1>2, <1>3 DEF StackStep, f

\* Functions that end.
LEMMA LeaveStep ==
  ASSUME NEW p, At(p), Leave, cpu' = cpu
  PROVE  StackStep
BY DEF StackStep, At

\* A call that becomes another one.
LEMMA BecomesStep ==
  ASSUME NEW p, At(p), NEW g, Becomes(g), Moves(Top(stack[cpu]), g), cpu' = cpu
  PROVE  StackStep
BY DEF StackStep, At

\* Every step enters, moves or leaves a call on one stack, or none.
LEMMA NextStacks ==
  ASSUME Types, Next PROVE StackStep
<1>1. CASE Call
  <2>1. Enters(Fresh("api", "body", {}, NULL)) /\ Begins(Fresh("api", "body", {}, NULL))
    BY <1>1 DEF Call, Enter, Enters, Begins, Fresh
  <2> QED BY <1>1, <2>1 DEF StackStep, Call, switches
<1>2. CASE Alarm
  <2>1. Enters(Fresh("isr", "tick", mask, NULL)) /\ Begins(Fresh("isr", "tick", mask, NULL))
    BY <1>2 DEF Alarm, Enter, Enters, Begins, Fresh
  <2> QED BY <1>2, <2>1 DEF StackStep, Alarm, switches
<1>3. CASE ReplySignal
  <2>1. Enters(Fresh("usr2", "reply", mask, NULL)) /\ Begins(Fresh("usr2", "reply", mask, NULL))
    BY <1>3 DEF ReplySignal, Enter, Enters, Begins, Fresh
  <2> QED BY <1>3, <2>1 DEF StackStep, ReplySignal, switches
<1>4. CASE \E t \in Thread : MachineSendReply(t)
  BY <1>4 DEF MachineSendReply, StackStep, switches
<1>5. CASE Body
  <2>1. CASE \/ VMThreadID \/ VMThreadStateNull
             \/ \E t \in Thread : VMThreadActivate(t)
             \/ \E m \in Mutex, n \in Timeouts : VMMutexAcquire(m, n)
    <3>1. At("body") /\ Leave /\ cpu' = cpu
      BY <2>1 DEF VMThreadID, VMThreadStateNull, VMThreadActivate, VMMutexAcquire,
                  Executes, Completes, switches
    <3> QED BY <3>1, LeaveStep
  <2>2. CASE \/ VMThreadSleep \/ VMFileOpen
             \/ \E t \in Thread : VMThreadTerminate(t)
             \/ \E m \in Mutex : VMMutexRelease(m)
             \/ \E m \in Mutex, n \in Timeouts : VMMutexWait(m, n)
    <3>1. At("body") /\ GoTo("sched") /\ cpu' = cpu /\ <<"body", "sched">> \in Route
      BY <2>2 DEF Route, VMThreadSleep, VMFileOpen, VMThreadTerminate, VMMutexRelease,
                  VMMutexWait, Executes, Schedules, switches
    <3> QED BY <3>1, GoToStep
  <2> QED BY <1>5, <2>1, <2>2 DEF Body
<1>6. CASE Return
  BY <1>6, LeaveStep DEF Return, switches
<1>7. CASE Allocates
  <2>1. PICK p \in {"body", "back"} : At(p) /\ (p = "body" \/ Innermost({"alloc"}))
    BY <1>7 DEF Allocates
  <2>2. Becomes(Fresh("alloc", "alloc", {}, NULL)) /\ cpu' = cpu
    BY <1>7 DEF Allocates, GoOnAs, Fresh, switches
  <2>3. Moves(Top(stack[cpu]), Fresh("alloc", "alloc", {}, NULL))
    BY <2>1, AtFrame DEF Moves, Innermost
  <2> QED BY <2>1, <2>2, <2>3, BecomesStep
<1>8. CASE AllocateSchedules
  <2>1. At("alloc") /\ GoTo("sched") /\ cpu' = cpu /\ <<"alloc", "sched">> \in Route
    BY <1>8 DEF AllocateSchedules, switches, Route
  <2> QED BY <2>1, GoToStep
<1>9. CASE Allocated
  <2>1. At("back") /\ Top(stack[cpu]).at = "back" /\ Top(stack[cpu]).kind = "alloc" /\ cpu' = cpu
    BY <1>9, AtFrame DEF Allocated, Innermost, switches
  <2>2. PICK g \in {Fresh("write", "request", {}, NULL), Fresh("read", "request", {}, NULL),
                    Fresh("read", "done", {}, NULL), Fresh("create", "new", {}, NULL)} :
          Becomes(g)
    BY <1>9 DEF Allocated, GoOnAs, Fresh
  <2>3. Moves(Top(stack[cpu]), g)
    BY <2>1, <2>2 DEF Moves
  <2> QED BY <2>1, <2>2, <2>3, BecomesStep
<1>10. CASE Transfer
  <2>1. CASE Requests
    <3>1. At("request") /\ GoTo("wait") /\ cpu' = cpu /\ <<"request", "wait">> \in Route
      BY <2>1 DEF Requests, switches, Route
    <3> QED BY <3>1, GoToStep
  <2>2. CASE Waits
    <3>1. At("wait") /\ GoTo("sched") /\ cpu' = cpu /\ <<"wait", "sched">> \in Route
      BY <2>2 DEF Waits, Schedules, switches, Route
    <3> QED BY <3>1, GoToStep
  <2>3. CASE NextPiece \/ LastPiece
    <3>1. PICK to \in {"request", "done"} :
            At("back") /\ Innermost({"write", "read"}) /\ GoTo(to) /\ cpu' = cpu
      BY <2>3 DEF NextPiece, LastPiece, switches
    <3>2. Becomes([Top(stack[cpu]) EXCEPT !.at = to])
      BY <3>1 DEF GoTo
    <3>3. Moves(Top(stack[cpu]), [Top(stack[cpu]) EXCEPT !.at = to])
      BY <3>1, AtFrame DEF Moves, Innermost
    <3> QED BY <3>1, <3>2, <3>3, BecomesStep
  <2> QED BY <1>10, <2>1, <2>2, <2>3 DEF Transfer
<1>11. CASE Create
  <2>1. ASSUME NEW t \in AppThread, NEW p \in NewPriority, NewThread(t, p) PROVE StackStep
    <3>1. At("new") /\ Becomes(Fresh("create", "create", mask, t)) /\ cpu' = cpu
      BY <2>1 DEF NewThread, Fresh, switches
    <3>2. Moves(Top(stack[cpu]), Fresh("create", "create", mask, t))
      BY <3>1, AtFrame DEF Moves
    <3> QED BY <3>1, <3>2, BecomesStep
  <2>2. CASE MachineContextCreate
    <3>1. At("create") /\ GoTo("made") /\ cpu' = cpu /\ <<"create", "made">> \in Route
      BY <2>2 DEF MachineContextCreate, switches, Route
    <3> QED BY <3>1, GoToStep
  <2>3. CASE setContext
    <3>1. At("made") /\ Becomes(Fresh("create", "done", {}, NULL)) /\ cpu' = cpu
      BY <2>3 DEF setContext, GoOnAs, Fresh
    <3>2. Moves(Top(stack[cpu]), Fresh("create", "done", {}, NULL))
      BY <3>1, AtFrame DEF Moves
    <3> QED BY <3>1, <3>2, BecomesStep
  <2> QED BY <1>11, <2>1, <2>2, <2>3 DEF Create
<1>12. CASE SchedulerRequeues
  <2>1. At("sched") /\ GoTo("pick") /\ cpu' = cpu /\ <<"sched", "pick">> \in Route
    BY <1>12 DEF SchedulerRequeues, Route
  <2> QED BY <2>1, GoToStep
<1>13. CASE SchedulerPicks
  <2>1. CASE UNCHANGED stack
    BY <1>13, <2>1 DEF SchedulerPicks, StackStep, switches
  <2>2. CASE GoTo("switch")
    <3>1. At("pick") /\ cpu' = cpu /\ <<"pick", "switch">> \in Route
      BY <1>13 DEF SchedulerPicks, switches, Route
    <3> QED BY <2>2, <3>1, GoToStep
  <2> QED BY <1>13, <2>1, <2>2 DEF SchedulerPicks
<1>14. CASE SchedulerSwitches
  <2>1. CASE UNCHANGED <<cpu, stack>>
    BY <2>1 DEF StackStep
  <2>2. CASE GoTo("back")
    <3>1. At("switch") /\ <<"switch", "back">> \in Route
      BY <1>14 DEF SchedulerSwitches, Route
    <3> QED BY <2>2, <3>1, GoToStep
  <2> QED BY <1>14, <2>1, <2>2 DEF SchedulerSwitches
<1>15. CASE timerISR
  <2>1. At("tick") /\ GoTo("sched") /\ cpu' = cpu /\ <<"tick", "sched">> \in Route
    BY <1>15 DEF timerISR, switches, Route
  <2> QED BY <2>1, GoToStep
<1>16. CASE FetchReply
  <2> DEFINE g == [Top(stack[cpu]) EXCEPT !.at = "answer", !.of = Head(replies)]
  <2>1. At("reply") /\ Becomes(g) /\ cpu' = cpu
    BY <1>16 DEF FetchReply, switches
  <2>2. Head(replies) \in Thread
    BY <1>16, HeadTailProperties DEF FetchReply, Types
  <2>3. Moves(Top(stack[cpu]), g)
    BY <2>1, <2>2, AtFrame DEF Moves
  <2> QED BY <2>1, <2>3, BecomesStep
<1>17. CASE FileCallback
  <2> DEFINE g == [Top(stack[cpu]) EXCEPT !.at = "reply", !.of = NULL]
  <2>1. At("answer") /\ Becomes(g) /\ cpu' = cpu
    BY <1>17 DEF FileCallback, switches
  <2>2. Moves(Top(stack[cpu]), g)
    BY <2>1, AtFrame DEF Moves
  <2> QED BY <2>1, <2>2, BecomesStep
<1>18. CASE NoMoreReplies
  <2>1. At("reply") /\ GoTo("back") /\ cpu' = cpu /\ <<"reply", "back">> \in Route
    BY <1>18 DEF NoMoreReplies, switches, Route
  <2> QED BY <2>1, GoToStep
<1> QED BY <1>1, <1>2, <1>3, <1>4, <1>5, <1>6, <1>7, <1>8, <1>9, <1>10, <1>11, <1>12,
           <1>13, <1>14, <1>15, <1>16, <1>17, <1>18 DEF Next, Execute

-----------------------------------------------------------------------------
(* What a step does to the virtual machine                                 *)

\* push_back of a new thread, with its identifier and priority.
Enrolled(s, t, p) == [s EXCEPT !.threads = Append(@, t), !.id[t] = s.nextID,
                               !.nextID = @ + 1, !.prio[t] = p]

\* What it leaves.
LEMMA EnrolledFields ==
  ASSUME NEW s \in VMState, NEW t \in Thread, NEW p \in Priority,
         NEW r, r = Enrolled(s, t, p)
  PROVE  /\ r \in VMState
         /\ Elems(r.threads) = Elems(s.threads) \cup {t}
         /\ r.prio = [s.prio EXCEPT ![t] = p]
         /\ r.mutexes = s.mutexes /\ r.freed = s.freed /\ r.state = s.state
         /\ r.ticks = s.ticks /\ r.held = s.held /\ r.owner = s.owner
         /\ r.QTex = s.QTex /\ r.readyQ = s.readyQ /\ r.tr = s.tr /\ r.halt = s.halt
<1>1. PICK a : a = Append(s.threads, t)
  OBVIOUS
<1>2. a \in Seq(Thread) /\ Elems(a) = Elems(s.threads) \cup {t}
  BY <1>1, AppendElems DEF VMState
<1>3. r = [s EXCEPT !.threads = a, !.id[t] = s.nextID, !.nextID = @ + 1, !.prio[t] = p]
  BY <1>1 DEF Enrolled
<1>4. r \in VMState
  <2>1. /\ [s.id EXCEPT ![t] = s.nextID] \in [Thread -> Nat] /\ s.nextID + 1 \in Nat
        /\ [s.prio EXCEPT ![t] = p] \in [Thread -> Priority]
    BY DEF VMState
  <2> QED BY <1>2, <1>3, <2>1 DEF VMState
<1>5. /\ r.threads = a /\ r.prio = [s.prio EXCEPT ![t] = p]
      /\ r.mutexes = s.mutexes /\ r.freed = s.freed /\ r.state = s.state
      /\ r.ticks = s.ticks /\ r.held = s.held /\ r.owner = s.owner
      /\ r.QTex = s.QTex /\ r.readyQ = s.readyQ /\ r.tr = s.tr /\ r.halt = s.halt
  BY <1>3 DEF VMState
<1> QED BY <1>2, <1>4, <1>5

\* A new thread is in no queue, and dead until it is activated.
LEMMA EnrolledInv ==
  ASSUME NEW s, KernelInv(s, NULL), NEW t \in AppThread, t \notin Elems(s.threads),
         s.freed = {}, NEW p \in Priority
  PROVE  KernelInv(Enrolled(s, t, p), NULL)
<1>0. PICK r : r = Enrolled(s, t, p)
  OBVIOUS
<1>1. s \in VMState /\ t \in Thread /\ t # Idle
  BY ObjectAssumption DEF KernelInv, Typed, Thread
<1>2. /\ r \in VMState /\ Elems(r.threads) = Elems(s.threads) \cup {t}
      /\ r.prio = [s.prio EXCEPT ![t] = p]
      /\ r.mutexes = s.mutexes /\ r.freed = s.freed /\ r.state = s.state
      /\ r.ticks = s.ticks /\ r.held = s.held /\ r.owner = s.owner
      /\ r.QTex = s.QTex /\ r.readyQ = s.readyQ /\ r.tr = s.tr
  BY <1>0, <1>1, EnrolledFields
<1>3. /\ \A u \in Thread : u # t => r.prio[u] = s.prio[u]
      /\ s.state[t] = "DEAD" /\ Idle \in Thread
  BY <1>1, <1>2 DEF KernelInv, Registered, VMState, Thread
<1>4. Typed(r) /\ ReadyQueued(r) /\ RunningIsTr(r) /\ IdleRuns(r)
  BY <1>1, <1>2, <1>3 DEF KernelInv, Typed, ReadyQueued, RunningIsTr, IdleRuns
<1>5. QueuedRunnable(r, NULL)
  <2>1. \A q \in Priority : Elems(s.readyQ[q]) \subseteq Thread
    BY <1>1, QueueType DEF VMState
  <2> QED BY <1>2, <1>3, <2>1 DEF KernelInv, QueuedRunnable
<1>6. Registered(r) /\ DeadReleased(r, NULL) /\ Dying(r, NULL)
  BY <1>1, <1>2 DEF KernelInv, Registered, DeadReleased, Dying
<1>7. MutexInv(r)
  BY <1>2 DEF KernelInv, MutexInv, HeldOwned, HeldOnce, HeldNotAwaited, FreeUnqueued
<1>8. KernelInv(r, NULL)
  BY <1>4, <1>5, <1>6, <1>7 DEF KernelInv
<1> QED BY <1>0, <1>8

\* Nor can it be awakened.
LEMMA EnrolledWithin ==
  ASSUME NEW C, NEW s, Within(s, C), NEW t \in AppThread, NEW p \in Priority
  PROVE  LET r == Enrolled(s, t, p)
         IN  /\ Within(r, C) /\ r.mutexes = s.mutexes /\ r.halt = s.halt
             /\ r.tr = s.tr
<1>0. PICK r : r = Enrolled(s, t, p)
  OBVIOUS
<1>1. s \in VMState /\ t \in Thread
  BY DEF Within, Thread
<1>2. /\ r \in VMState /\ Elems(r.threads) = Elems(s.threads) \cup {t}
      /\ r.prio = [s.prio EXCEPT ![t] = p]
      /\ r.mutexes = s.mutexes /\ r.freed = s.freed /\ r.state = s.state
      /\ r.ticks = s.ticks /\ r.held = s.held /\ r.owner = s.owner
      /\ r.QTex = s.QTex /\ r.readyQ = s.readyQ /\ r.tr = s.tr /\ r.halt = s.halt
  BY <1>0, <1>1, EnrolledFields
<1>3. Within(r, C)
  BY <1>2 DEF Within
<1> QED BY <1>0, <1>2, <1>3

\* Time-outs are natural numbers, but for VM_TIMEOUT_IMMEDIATE.
LEMMA TimeoutsNat == \A n \in Timeouts : n # VM_TIMEOUT_IMMEDIATE => n \in Nat
BY DEF Timeouts, VM_TIMEOUT_IMMEDIATE, VM_TIMEOUT_INFINITE

\* The steps that change the virtual machine, and how.
Changes(s) ==
  \/ s = vm
  \/ \E t \in Thread : VMThreadActivate(t) /\ s = PushReady([vm EXCEPT !.state[t] = "READY"], t)
  \/ \E m \in Mutex, n \in Timeouts : At("body") /\ s = AcquireMutex(vm, vm.tr, m, n)
  \/ \E m \in Mutex, n \in Timeouts \cap Nat :
       At("body") /\ s = Block(AcquireMutex(vm, vm.tr, m, n), vm.tr, n)
  \/ \E m \in Elems(vm.held[vm.tr]) : At("body") /\ s = ReleaseMutex(vm, vm.tr, m)
  \/ At("body") /\ s = Block(vm, vm.tr, 1)
  \/ \E t \in Thread \ {Idle} : At("body") /\ s = Terminate(vm, t)
  \/ At("body") /\ s = Wait(vm, vm.tr)
  \/ At("wait") /\ s = Wait(vm, vm.tr)
  \/ \E t \in AppThread, p \in Priority :
       At("new") /\ t \notin Elems(vm.threads) /\ s = Enrolled(vm, t, p)
  \/ At("sched") /\ s = Requeue(vm)
  \/ At("pick") /\ (\A p \in Priority : vm.readyQ[p] = << >>) /\ s = Undefined(vm)
  \/ At("pick") /\ (\E p \in Priority : vm.readyQ[p] # << >>) /\ s = Dispatch(vm, Highest(vm))
  \/ At("tick") /\ s = TimerTick(vm)
  \/ \E t \in Thread : /\ At("answer") /\ vm.state[t] = "WAITING"
                       /\ s = PushReady([vm EXCEPT !.state[t] = "READY"], t)

\* There are no other ones.
LEMMA NextChanges ==
  ASSUME Types, Next PROVE Changes(vm')
<1>1. CASE Body
  <2>1. CASE VMThreadID \/ VMThreadStateNull
    BY <2>1 DEF VMThreadID, VMThreadStateNull, Completes, Changes
  <2>2. ASSUME NEW t \in Thread, VMThreadActivate(t) PROVE Changes(vm')
    BY <2>2 DEF VMThreadActivate, Completes, Changes
  <2>3. ASSUME NEW m \in Mutex, NEW n \in Timeouts, VMMutexAcquire(m, n) PROVE Changes(vm')
    BY <2>3 DEF VMMutexAcquire, Completes, Executes, Changes
  <2>4. ASSUME NEW m \in Mutex, NEW n \in Timeouts, VMMutexWait(m, n) PROVE Changes(vm')
    BY <2>4, TimeoutsNat DEF VMMutexWait, Schedules, Executes, Changes
  <2>5. ASSUME NEW m \in Mutex, VMMutexRelease(m) PROVE Changes(vm')
    BY <2>5 DEF VMMutexRelease, Schedules, Executes, Changes
  <2>6. CASE VMThreadSleep
    BY <2>6 DEF VMThreadSleep, Schedules, Executes, Changes
  <2>7. ASSUME NEW t \in Thread, VMThreadTerminate(t) PROVE Changes(vm')
    BY <2>7 DEF VMThreadTerminate, Schedules, Executes, Changes
  <2>8. CASE VMFileOpen
    BY <2>8 DEF VMFileOpen, Executes, Changes
  <2> QED BY <1>1, <2>1, <2>2, <2>3, <2>4, <2>5, <2>6, <2>7, <2>8 DEF Body
<1>2. CASE Call \/ Return \/ Allocates \/ AllocateSchedules \/ Allocated \/ Requests
           \/ NextPiece \/ LastPiece \/ MachineContextCreate \/ setContext
           \/ SchedulerSwitches \/ FetchReply \/ NoMoreReplies \/ Alarm \/ ReplySignal
           \/ \E t \in Thread : MachineSendReply(t)
  BY <1>2 DEF Call, Return, Allocates, AllocateSchedules, Allocated, Requests, NextPiece,
     LastPiece, MachineContextCreate, setContext, SchedulerSwitches, FetchReply,
     NoMoreReplies, Alarm, ReplySignal, MachineSendReply, Changes
<1>3. CASE Waits
  BY <1>3 DEF Waits, Schedules, Changes
<1>4. ASSUME NEW t \in AppThread, NEW p \in NewPriority, NewThread(t, p) PROVE Changes(vm')
  BY <1>4, SignalsAssumption DEF NewThread, Enrolled, Changes
<1>5. CASE SchedulerRequeues \/ timerISR
  BY <1>5 DEF SchedulerRequeues, timerISR, Changes
<1>6. CASE SchedulerPicks
  BY <1>6 DEF SchedulerPicks, Changes
<1>7. CASE FileCallback
  <2>1. Top(stack[cpu]).of \in Thread
    BY <1>7, AtFrame DEF FileCallback, Shape
  <2> QED BY <1>7, <2>1 DEF FileCallback, Changes
<1> QED BY <1>1, <1>2, <1>3, <1>4, <1>5, <1>6, <1>7 DEF Next, Execute, Transfer, Create

\* Types, and who can be awakened, through every step.
LEMMA VmWithin ==
  ASSUME Types, NEW C, Within(vm, C), NEW s, Changes(s),
         At("body") \/ At("wait") => vm.tr \in C,
         \A t \in Thread : VMThreadActivate(t) => t \in C
  PROVE  /\ Within(s, C) /\ s.mutexes = vm.mutexes
         /\ \/ s.halt = vm.halt
            \/ At("pick") /\ \A p \in Priority : vm.readyQ[p] = << >>
         /\ s.tr = vm.tr \/ At("pick")
<1>1. vm \in VMState /\ vm.tr \in Thread
  BY DEF Within, VMState
<1> USE DEF Unmoved
<1>2. CASE s = vm
  BY <1>2
<1>3. ASSUME NEW t \in Thread, VMThreadActivate(t),
             s = PushReady([vm EXCEPT !.state[t] = "READY"], t)
      PROVE  Within(s, C) /\ Unmoved(vm, s)
  BY <1>3, ReadyWithin
<1>4. ASSUME NEW m \in Mutex, NEW n \in Timeouts, At("body"), s = AcquireMutex(vm, vm.tr, m, n)
      PROVE  Within(s, C) /\ Unmoved(vm, s)
  BY <1>1, <1>4, AcquireWithin
<1>5. ASSUME NEW m \in Mutex, NEW n \in Timeouts \cap Nat, At("body"),
             s = Block(AcquireMutex(vm, vm.tr, m, n), vm.tr, n)
      PROVE  Within(s, C) /\ Unmoved(vm, s)
  <2>1. PICK d : d = AcquireMutex(vm, vm.tr, m, n)
    OBVIOUS
  <2>2. Within(d, C) /\ Unmoved(vm, d) /\ vm.tr \in Thread \cap C
    BY <1>1, <1>5, <2>1, AcquireWithin
  <2>3. Within(Block(d, vm.tr, n), C) /\ Unmoved(d, Block(d, vm.tr, n))
    BY <2>2, WaitWithin
  <2> QED BY <1>5, <2>1, <2>2, <2>3
<1>6. ASSUME NEW m \in Elems(vm.held[vm.tr]), At("body"), s = ReleaseMutex(vm, vm.tr, m)
      PROVE  Within(s, C) /\ Unmoved(vm, s)
  BY <1>1, <1>6, ReleaseMutexWithin
<1>7. CASE At("body") /\ s = Block(vm, vm.tr, 1)
  BY <1>1, <1>7, WaitWithin
<1>8. ASSUME NEW t \in Thread, s = Terminate(vm, t) PROVE Within(s, C) /\ Unmoved(vm, s)
  BY <1>8, TerminateWithin
<1>9. CASE (At("body") \/ At("wait")) /\ s = Wait(vm, vm.tr)
  BY <1>1, <1>9, WaitWithin
<1>10. ASSUME NEW t \in AppThread, NEW p \in Priority, s = Enrolled(vm, t, p)
       PROVE  /\ Within(s, C) /\ s.mutexes = vm.mutexes /\ s.halt = vm.halt
              /\ s.tr = vm.tr
  BY <1>10, EnrolledWithin
<1>11. CASE s = Requeue(vm)
  BY <1>11, RequeueWithin
<1>12. ASSUME s = Undefined(vm) PROVE Within(s, C) /\ s.mutexes = vm.mutexes
  <2>1. s \in VMState
    BY <1>1, <1>12 DEF Undefined, VMState
  <2>2. /\ s.freed = vm.freed /\ s.readyQ = vm.readyQ /\ s.ticks = vm.ticks
        /\ s.state = vm.state /\ s.QTex = vm.QTex /\ s.mutexes = vm.mutexes
    BY <1>1, <1>12 DEF Undefined, VMState
  <2> QED BY <2>1, <2>2, FieldsWithin
<1>13. ASSUME NEW p \in Priority, vm.readyQ[p] # << >>, s = Dispatch(vm, Highest(vm))
       PROVE  Within(s, C) /\ s.mutexes = vm.mutexes /\ s.halt = vm.halt
  BY <1>13, HighestQueue, DispatchWithin
<1>14. CASE s = TimerTick(vm)
  BY <1>14, TimerTickWithin
<1>15. ASSUME NEW t \in Thread, vm.state[t] = "WAITING",
              s = PushReady([vm EXCEPT !.state[t] = "READY"], t)
       PROVE  Within(s, C) /\ Unmoved(vm, s)
  <2>1. t \in Thread \cap C
    BY <1>15 DEF Within
  <2> QED BY <1>15, <2>1, ReadyWithin
<1> HIDE DEF Unmoved
<1>16. Within(s, C)
  BY <1>2, <1>3, <1>4, <1>5, <1>6, <1>7, <1>8, <1>9, <1>10, <1>11, <1>12, <1>13, <1>14, <1>15
     DEF Changes
<1>17. s.mutexes = vm.mutexes
  BY <1>2, <1>3, <1>4, <1>5, <1>6, <1>7, <1>8, <1>9, <1>10, <1>11, <1>12, <1>13, <1>14, <1>15
     DEF Changes, Unmoved
<1>18. \/ s.halt = vm.halt
       \/ At("pick") /\ \A p \in Priority : vm.readyQ[p] = << >>
  BY <1>2, <1>3, <1>4, <1>5, <1>6, <1>7, <1>8, <1>9, <1>10, <1>11, <1>13, <1>14, <1>15
     DEF Changes, Unmoved
<1>19. s.tr = vm.tr \/ At("pick")
  BY <1>2, <1>3, <1>4, <1>5, <1>6, <1>7, <1>8, <1>9, <1>10, <1>11, <1>14, <1>15
     DEF Changes, Unmoved
<1> QED BY <1>16, <1>17, <1>18, <1>19

-----------------------------------------------------------------------------
(* Types, and the depth of the stacks                                      *)

\* The set of all threads bounds who can be awakened.
LEMMA VmType ==
  ASSUME Types, Next PROVE Within(vm', Thread)
<1>1. vm.tr \in Thread
  BY DEF Types, Within, VMState
<1>2. Changes(vm') /\ Within(vm, Thread)
  BY NextChanges DEF Types
<1> QED BY <1>1, <1>2, VmWithin

\* Types are preserved by every step.
LEMMA TypesStep ==
  ASSUME Types, [Next]_vars PROVE Types'
<1>1. CASE UNCHANGED vars
  BY <1>1 DEF Types, vars, masks, switches, io, history
<1> SUFFICES ASSUME Next PROVE Types'
  BY <1>1
<1>2. stack' \in [Thread -> Seq(Good)]
  <2>1. StackStep /\ cpu \in Thread /\ stack \in [Thread -> Seq(Good)]
    BY NextStacks DEF Types
  <2>2. \A f : Begins(f) => f \in Good
    BY BeginsFrame
  <2>3. stack[cpu] # << >> => \A g : Moves(Top(stack[cpu]), g) => g \in Good
    BY TopFrame, MovesFrame
  <2> QED BY <2>1, <2>2, <2>3, StackStays
<1>3. Within(vm', Thread)
  BY VmType
<1>4. vm.tr \in Thread /\ vm'.tr \in Thread
  BY <1>3 DEF Types, Within, VMState
<1> USE DEF Types, masks, switches, io, history
<1>5. mask' \subseteq Signal /\ sigs' \subseteq Signal
  <2> USE DEF MachineSuspendSignals, MachineResumeSignals
  <2>1. CASE Body
    BY <2>1 DEF Body, VMThreadID, VMThreadStateNull, VMThreadActivate, VMMutexAcquire,
       VMMutexWait, VMMutexRelease, VMThreadSleep, VMThreadTerminate, VMFileOpen,
       Completes, Schedules
  <2>2. CASE Return
    <3>1. Innermost({"isr", "usr2"}) => Top(stack[cpu]).saved \subseteq Signal
      BY TopFrame DEF Innermost, Frame
    <3> QED BY <2>2, <3>1 DEF Return
  <2>3. CASE Create
    <3>1. At("create") => Top(stack[cpu]).saved \subseteq Signal
      BY AtFrame DEF Frame
    <3> QED BY <2>3, <3>1 DEF Create, NewThread, MachineContextCreate, setContext
  <2>4. CASE Allocates \/ AllocateSchedules \/ Allocated \/ Transfer
    BY <2>4 DEF Allocates, AllocateSchedules, Allocated, Transfer, Requests, Waits,
                Schedules, NextPiece, LastPiece
  <2>5. CASE \/ SchedulerRequeues \/ SchedulerPicks \/ SchedulerSwitches
             \/ timerISR \/ FetchReply \/ FileCallback \/ NoMoreReplies
    BY <2>5 DEF SchedulerRequeues, SchedulerPicks, SchedulerSwitches, timerISR,
                FetchReply, FileCallback, NoMoreReplies
  <2>6. CASE Call \/ Alarm \/ ReplySignal \/ \E t \in Thread : MachineSendReply(t)
    BY <2>6 DEF Call, Alarm, ReplySignal, MachineSendReply, Interrupted, Signal
  <2> QED BY <2>1, <2>2, <2>3, <2>4, <2>5, <2>6 DEF Next, Execute
<1>6. pt' \in Thread /\ cpu' \in Thread /\ contexts' \subseteq Thread
  <2>1. CASE SchedulerRequeues \/ SchedulerSwitches
    BY <1>4, <2>1 DEF SchedulerRequeues, SchedulerSwitches
  <2>2. CASE setContext
    <3>1. Top(stack[cpu]).of \in Thread
      BY <2>2, AtFrame DEF setContext, Shape
    <3> QED BY <2>2, <3>1 DEF setContext
  <2>3. CASE UNCHANGED switches
    BY <2>3
  <2>4. Next => \/ SchedulerRequeues \/ SchedulerSwitches \/ setContext \/ UNCHANGED switches
    BY DEF Next, Execute, Call, Body, VMThreadID, VMThreadStateNull, VMThreadActivate,
       VMMutexAcquire, VMMutexWait, VMMutexRelease, VMThreadSleep, VMThreadTerminate,
       VMFileOpen, Completes, Schedules, Return, Allocates, AllocateSchedules, Allocated,
       Transfer, Requests, Waits, NextPiece, LastPiece, Create, NewThread,
       MachineContextCreate, SchedulerPicks, timerISR, FetchReply, FileCallback,
       NoMoreReplies, Alarm, ReplySignal, MachineSendReply
  <2> QED BY <2>1, <2>2, <2>3, <2>4
<1>7. /\ asked' \in [Thread -> 0 .. MaxRequests]
      /\ replies' \in Seq(Thread) /\ Len(replies') <= MaxRequests
  <2> DEFINE Io == /\ asked' \in [Thread -> 0 .. MaxRequests]
                   /\ replies' \in Seq(Thread) /\ Len(replies') <= MaxRequests
  <2>1. MaxRequests \in Nat
    BY SignalsAssumption
  <2>2. CASE SendsRequest
    <3>1. asked[vm.tr] + 1 \in 0 .. MaxRequests
      BY <1>4, <2>1, <2>2 DEF SendsRequest
    <3> QED BY <1>4, <2>2, <3>1 DEF SendsRequest
  <2>3. CASE FetchReply
    <3>1. Tail(replies) \in Seq(Thread) /\ Len(Tail(replies)) = Len(replies) - 1
      BY <2>3, HeadTailProperties DEF FetchReply
    <3>2. Len(replies) \in Nat
      BY LenProperties
    <3> QED BY <2>1, <2>3, <3>1, <3>2 DEF FetchReply
  <2>4. ASSUME NEW t \in Thread, MachineSendReply(t) PROVE Io
    <3>1. asked' = [asked EXCEPT ![t] = @ - 1] /\ asked[t] > 0
      BY <2>4 DEF MachineSendReply
    <3>2. asked[t] - 1 \in 0 .. MaxRequests
      BY <2>1, <3>1
    <3>3. asked' \in [Thread -> 0 .. MaxRequests]
      BY <3>1, <3>2
    <3>4. Append(replies, t) \in Seq(Thread) /\ Len(Append(replies, t)) = Len(replies) + 1
      BY AppendProperties
    <3>5. Len(replies) \in Nat
      BY LenProperties
    <3> QED BY <2>1, <2>4, <3>3, <3>4, <3>5 DEF MachineSendReply
  <2>5. CASE UNCHANGED <<asked, replies>>
    BY <2>5
  <2>6. \/ SendsRequest \/ FetchReply \/ (\E t \in Thread : MachineSendReply(t))
        \/ UNCHANGED <<asked, replies>>
    BY DEF Next, Execute, Call, Body, VMThreadID, VMThreadStateNull, VMThreadActivate,
       VMMutexAcquire, VMMutexWait, VMMutexRelease, VMThreadSleep, VMThreadTerminate,
       VMFileOpen, Completes, Schedules, Return, Allocates, AllocateSchedules, Allocated,
       Transfer, Requests, Waits, NextPiece, LastPiece, Create, NewThread,
       MachineContextCreate, setContext, SchedulerRequeues, SchedulerPicks,
       SchedulerSwitches, timerISR, FileCallback, NoMoreReplies, Alarm, ReplySignal
  <2> QED BY <2>2, <2>3, <2>4, <2>5, <2>6
<1>8. pending' \in BOOLEAN
  BY DEF Next, Execute, Call, Body, VMThreadID, VMThreadStateNull, VMThreadActivate,
     VMMutexAcquire, VMMutexWait, VMMutexRelease, VMThreadSleep, VMThreadTerminate,
     VMFileOpen, SendsRequest, Completes, Schedules, Return, Allocates, AllocateSchedules,
     Allocated, Transfer, Requests, Waits, NextPiece, LastPiece, Create, NewThread,
     MachineContextCreate, setContext, SchedulerRequeues, SchedulerPicks,
     SchedulerSwitches, timerISR, FetchReply, FileCallback, NoMoreReplies, Alarm,
     ReplySignal, MachineSendReply
<1>9. leaked' \in BOOLEAN /\ raced' \in BOOLEAN /\ crossed' \in BOOLEAN
  <2> DEFINE Q == leaked' \in BOOLEAN /\ raced' \in BOOLEAN /\ crossed' \in BOOLEAN
  <2>1. ASSUME NEW t \in Thread, VMThreadActivate(t) PROVE Q
    BY <2>1 DEF VMThreadActivate, Completes
  <2>2. CASE Alarm
    BY <2>2 DEF Alarm
  <2>3. CASE MachineContextCreate
    BY <2>3 DEF MachineContextCreate
  <2>4. CASE SchedulerSwitches \/ VMThreadStateNull
    BY <2>4 DEF SchedulerSwitches, VMThreadStateNull
  <2>5. ASSUME NEW m \in Mutex, NEW n \in Timeouts, VMMutexAcquire(m, n) PROVE Q
    BY <2>5 DEF VMMutexAcquire, Completes
  <2>6. CASE VMThreadID
    BY <2>6 DEF VMThreadID, Completes
  <2>7. CASE UNCHANGED history
    BY <2>7
  <2>8. \/ (\E t \in Thread : VMThreadActivate(t)) \/ Alarm \/ MachineContextCreate
        \/ SchedulerSwitches \/ VMThreadStateNull \/ VMThreadID
        \/ (\E m \in Mutex, n \in Timeouts : VMMutexAcquire(m, n)) \/ UNCHANGED history
    BY DEF Next, Execute, Call, Body,
       VMMutexWait, VMMutexRelease, VMThreadSleep, VMThreadTerminate,
       VMFileOpen, Schedules, Return, Allocates, AllocateSchedules, Allocated,
       Transfer, Requests, Waits, NextPiece, LastPiece, Create, NewThread,
       setContext, SchedulerRequeues, SchedulerPicks,
       timerISR, FetchReply, FileCallback, NoMoreReplies, ReplySignal, MachineSendReply
  <2> QED BY <2>1, <2>2, <2>3, <2>4, <2>5, <2>6, <2>7, <2>8
<1> QED BY <1>2, <1>3, <1>5, <1>6, <1>7, <1>8, <1>9

\* No stack has more calls than MaxFrames.
LEMMA DepthStep ==
  ASSUME Types, Depth, StackStep PROVE Depth'
<1> USE DEF Depth
<1> DEFINE n == Len(stack[cpu])
<1>1. cpu \in Thread /\ n \in Nat /\ MaxFrames \in Nat /\ stack \in [Thread -> Seq(Good)]
  BY StackOf, SignalsAssumption DEF Types
<1>2. CASE UNCHANGED stack
  BY <1>2
<1>3. ASSUME NEW f, Begins(f), Enters(f) PROVE Depth'
  <2>1. f \in Good /\ n < MaxFrames
    BY <1>3, BeginsFrame
  <2>2. Len(stack'[cpu]) = n + 1 /\ \A t \in Thread : t # cpu => stack'[t] = stack[t]
    BY <1>1, <1>3, <2>1, EnterStack
  <2> QED BY <1>1, <2>1, <2>2
<1>4. CASE stack[cpu] # << >> /\ Leave
  <2>1. Len(stack'[cpu]) = n - 1 /\ \A t \in Thread : t # cpu => stack'[t] = stack[t]
    BY <1>1, <1>4, LeaveStack
  <2>2. n - 1 <= n /\ n <= MaxFrames /\ n - 1 \in Int
    BY <1>1
  <2> QED BY <1>1, <2>1, <2>2
<1>5. ASSUME stack[cpu] # << >>, NEW g, Moves(Top(stack[cpu]), g), Becomes(g) PROVE Depth'
  <2>1. g \in Good
    BY <1>5, TopFrame, MovesFrame
  <2> QED BY <1>1, <1>5, <2>1, BecomesStack
<1> QED BY <1>2, <1>3, <1>4, <1>5 DEF StackStep

\* Functions of the VM are called with an empty stack only, and not by idle.
LEMMA AppFirstStep ==
  ASSUME Types, AppFirst, StackStep PROVE AppFirst'
<1> USE DEF AppFirst
<1> DEFINE n == Len(stack[cpu])
<1>1. cpu \in Thread /\ n \in Nat /\ stack \in [Thread -> Seq(Good)]
  BY StackOf DEF Types
<1>2. CASE UNCHANGED stack
  BY <1>2
<1>3. ASSUME NEW f, Begins(f), Enters(f) PROVE AppFirst'
  <2>1. f \in Good /\ (f.kind \notin Handler => n = 0 /\ cpu # Idle)
    BY <1>1, <1>3, BeginsFrame, StackOf
  <2>2. /\ Len(stack'[cpu]) = n + 1 /\ \A t \in Thread : t # cpu => stack'[t] = stack[t]
        /\ stack'[cpu][n + 1] = f /\ \A i \in 1 .. n : stack'[cpu][i] = stack[cpu][i]
    BY <1>1, <1>3, <2>1, EnterStack
  <2>3. ASSUME NEW t \in Thread, NEW i \in 1 .. Len(stack'[t]),
               stack'[t][i].kind \notin Handler
        PROVE  i = 1 /\ t # Idle
    <3>1. CASE t = cpu /\ i = n + 1
      BY <1>1, <2>1, <2>2, <2>3, <3>1
    <3>2. CASE t # cpu \/ i # n + 1
      BY <1>1, <2>2, <2>3, <3>2
    <3> QED BY <3>1, <3>2
  <2> QED BY <2>3
<1>4. CASE stack[cpu] # << >> /\ Leave
  BY <1>1, <1>4, LeaveStack
<1>5. ASSUME stack[cpu] # << >>, NEW g, Moves(Top(stack[cpu]), g), Becomes(g) PROVE AppFirst'
  <2>1. /\ g \in Good /\ n \in 1 .. n
        /\ g.kind \notin Handler => stack[cpu][n].kind \notin Handler
    BY <1>5, TopFrame, MovesFrame
  <2>2. /\ Len(stack'[cpu]) = n /\ \A t \in Thread : t # cpu => stack'[t] = stack[t]
        /\ stack'[cpu][n] = g /\ \A i \in 1 .. n : i # n => stack'[cpu][i] = stack[cpu][i]
    BY <1>1, <1>5, <2>1, BecomesStack
  <2> QED BY <1>1, <2>1, <2>2
<1> QED BY <1>2, <1>3, <1>4, <1>5 DEF StackStep

-----------------------------------------------------------------------------
(* Suspended signals                                                       *)

\* No call has suspended the signals without resuming them.
Resumed == \A t \in Thread : \A i \in 1 .. Len(stack[t]) : ~ Inside(stack[t][i])

\* What Suspended says of the innermost call.
LEMMA SuspendedTop ==
  Suspended <=> stack[cpu] # << >> /\ Inside(Top(stack[cpu]))
BY DEF Suspended, Innermost, Inside

\* Either the innermost call has suspended the signals, or none has.
LEMMA ResumedOrNot ==
  ASSUME Types, Past, ~ Suspended PROVE Resumed
<1>1. SUFFICES ASSUME NEW t \in Thread, NEW i \in 1 .. Len(stack[t]), Inside(stack[t][i])
               PROVE  FALSE
  BY DEF Resumed
<1>2. t = cpu /\ i = Len(stack[cpu])
  BY <1>1 DEF Past
<1>3. stack[cpu] # << >>
  BY <1>1, <1>2, StackOf
<1> QED BY <1>1, <1>2, <1>3, TopFrame, SuspendedTop

\* When none has, the executing one has not.
LEMMA ResumedTop ==
  ASSUME stack \in [Thread -> Seq(Good)], cpu \in Thread, Resumed PROVE ~ Suspended
<1>1. SUFFICES ASSUME stack[cpu] # << >> PROVE ~ Inside(Top(stack[cpu]))
  BY SuspendedTop
<1>2. Len(stack[cpu]) \in 1 .. Len(stack[cpu])
  BY <1>1, LenProperties, EmptySeq
<1> QED BY <1>2 DEF Resumed, Top

\* The same of the next state.
LEMMA ResumedTopNext ==
  ASSUME stack' \in [Thread -> Seq(Good)], cpu' \in Thread, Resumed' PROVE ~ Suspended'
<1>1. SUFFICES ASSUME stack'[cpu'] # << >> PROVE ~ Inside(Top(stack'[cpu']))
  BY DEF Suspended, Innermost, Inside
<1>2. stack'[cpu'] \in Seq(Good)
  OBVIOUS
<1>3. Len(stack'[cpu']) \in 1 .. Len(stack'[cpu'])
  BY <1>1, <1>2, LenProperties, EmptySeq
<1> QED BY <1>3 DEF Resumed, Top

\* A call that returns, or goes on with the signals resumed, leaves none.
LEMMA ResumedStep ==
  ASSUME Types, Past, stack[cpu] # << >>,
         Leave \/ \E g \in Good : Becomes(g) /\ ~ Inside(g)
  PROVE  Resumed'
<1> USE DEF Resumed, Past
<1> DEFINE n == Len(stack[cpu])
<1>1. /\ cpu \in Thread /\ n \in Nat /\ n \in 1 .. n /\ stack \in [Thread -> Seq(Good)]
  BY StackOf, TopFrame DEF Types
<1>2. CASE Leave
  <2>1. /\ Len(stack'[cpu]) = n - 1 /\ \A t \in Thread : t # cpu => stack'[t] = stack[t]
        /\ \A i \in 1 .. n - 1 : stack'[cpu][i] = stack[cpu][i]
    BY <1>1, <1>2, LeaveStack
  <2> QED BY <1>1, <2>1, SMTT(30)
<1>3. ASSUME NEW g \in Good, Becomes(g), ~ Inside(g) PROVE Resumed'
  <2>1. /\ Len(stack'[cpu]) = n /\ \A t \in Thread : t # cpu => stack'[t] = stack[t]
        /\ stack'[cpu][n] = g /\ \A i \in 1 .. n : i # n => stack'[cpu][i] = stack[cpu][i]
    BY <1>1, <1>3, BecomesStack
  <2> QED BY <1>1, <1>3, <2>1, SMTT(30)
<1> QED BY <1>2, <1>3

\* A handler that begins leaves none either.
LEMMA ResumedEnters ==
  ASSUME Types, Resumed, NEW f \in Good, Enters(f), ~ Inside(f) PROVE Resumed'
<1> USE DEF Resumed
<1> DEFINE n == Len(stack[cpu])
<1>1. cpu \in Thread /\ n \in Nat /\ stack \in [Thread -> Seq(Good)]
  BY StackOf DEF Types
<1>2. /\ Len(stack'[cpu]) = n + 1 /\ \A t \in Thread : t # cpu => stack'[t] = stack[t]
      /\ stack'[cpu][n + 1] = f /\ \A i \in 1 .. n : stack'[cpu][i] = stack[cpu][i]
  BY <1>1, EnterStack
<1>3. ASSUME NEW t \in Thread, NEW i \in 1 .. Len(stack'[t]) PROVE ~ Inside(stack'[t][i])
  <2>1. CASE t = cpu /\ i = n + 1
    BY <1>2, <2>1
  <2>2. CASE t # cpu \/ i # n + 1
    BY <1>1, <1>2, <2>2
  <2> QED BY <2>1, <2>2
<1> QED BY <1>3

\* A call that has suspended the signals executes, and stays where it is.
LEMMA PastStep ==
  ASSUME Types, Types', Masked, StackStep PROVE Past'
<1> DEFINE n == Len(stack[cpu])
<1>1. /\ cpu \in Thread /\ cpu' \in Thread /\ n \in Nat
      /\ stack \in [Thread -> Seq(Good)] /\ Past
  BY StackOf DEF Types, Masked
<1>2. Resumed' => Past'
  BY DEF Resumed, Past
<1>3. CASE UNCHANGED <<stack, cpu>>
  BY <1>1, <1>3 DEF Past
<1>4. ASSUME NEW f, Begins(f), Enters(f), cpu' = cpu PROVE Past'
  <2>1. f \in Good
    BY <1>4, BeginsFrame
  <2>2. CASE f.kind \in Handler
    <3>1. stack[cpu] = << >> \/ mask # Signal
      BY <1>4, <2>2, BeginsFrame DEF Handler
    <3>2. Resumed /\ ~ Inside(f)
      BY <1>1, <2>2, <3>1, ResumedOrNot, SuspendedTop DEF Masked, Inside, Handler
    <3> QED BY <1>2, <1>4, <2>1, <3>2, ResumedEnters
  <2>3. CASE f.kind \notin Handler
    <3>1. stack[cpu] = << >>
      BY <1>4, <2>3, BeginsFrame
    <3>2. Resumed /\ n = 0
      BY <1>1, <3>1, ResumedOrNot, SuspendedTop, StackOf
    <3>3. Len(stack'[cpu]) = n + 1 /\ \A t \in Thread : t # cpu => stack'[t] = stack[t]
      BY <1>1, <1>4, <2>1, EnterStack
    <3> QED BY <1>4, <3>2, <3>3 DEF Resumed, Past
  <2> QED BY <2>2, <2>3
<1>5. CASE stack[cpu] # << >> /\ Leave
  BY <1>1, <1>2, <1>5, ResumedStep
<1>6. ASSUME stack[cpu] # << >>, NEW g, Moves(Top(stack[cpu]), g), Becomes(g), cpu' = cpu
      PROVE  Past'
  <2>1. g \in Good
    BY <1>6, TopFrame, MovesFrame
  <2>2. /\ Len(stack'[cpu]) = n /\ \A t \in Thread : t # cpu => stack'[t] = stack[t]
        /\ stack'[cpu][n] = g /\ \A i \in 1 .. n : i # n => stack'[cpu][i] = stack[cpu][i]
    BY <1>1, <1>6, <2>1, BecomesStack
  <2> QED BY <1>1, <1>6, <2>2 DEF Past
<1>7. CASE stack[cpu] # << >> /\ Top(stack[cpu]).at = "switch" /\ GoTo("back")
  <2> DEFINE g == [Top(stack[cpu]) EXCEPT !.at = "back"]
  <2>1. g \in Good /\ ~ Inside(g)
    <3>1. Moves(Top(stack[cpu]), g)
      BY <1>7 DEF Moves
    <3>2. g.at = "back"
      BY <1>7, TopFrame DEF Frame
    <3> QED BY <1>7, <3>1, <3>2, TopFrame, MovesFrame DEF Inside
  <2>2. Becomes(g)
    BY <1>7 DEF GoTo
  <2> HIDE DEF g
  <2> QED BY <1>1, <1>2, <1>7, <2>1, <2>2, ResumedStep
<1> QED BY <1>3, <1>4, <1>5, <1>6, <1>7 DEF StackStep

\* What a step does to the masks: nothing; it suspends the signals; it resumes
\* them; a handler begins or a mask is put back; or VMThreadState leaks.
Keep == UNCHANGED masks /\ (Suspended' <=> Suspended)

Suspend == ~ Suspended /\ Suspended' /\ sigs' = mask /\ mask' = Signal

Resume == ~ Suspended' /\ mask' = sigs /\ sigs' = sigs

Restore ==
  /\ ~ Suspended /\ ~ Suspended' /\ sigs' \in {sigs, mask}
  /\ \/ mask' \in {mask, mask \cup {USR2}}
     \/ stack[cpu] # << >> /\ mask' = Top(stack[cpu]).saved

Leak == ~ Suspended' /\ UNCHANGED masks /\ leaked'

MaskStep == Keep \/ Suspend \/ Resume \/ Restore \/ Leak

\* A call that goes on to a point where the signals are resumed.
LEMMA GoesResumed ==
  ASSUME Types, Types', Past, NEW p, At(p), NEW g, Becomes(g),
         Moves(Top(stack[cpu]), g), ~ Inside(g)
  PROVE  ~ Suspended'
<1>1. g \in Good /\ stack[cpu] # << >>
  BY AtFrame, MovesFrame
<1>2. Resumed'
  BY <1>1, ResumedStep
<1>3. stack' \in [Thread -> Seq(Good)] /\ cpu' \in Thread
  BY DEF Types
<1> QED BY <1>2, <1>3, ResumedTopNext

\* One that returns.
LEMMA LeavesResumed ==
  ASSUME Types, Types', Past, NEW p, At(p), Leave PROVE ~ Suspended'
<1>1. stack[cpu] # << >>
  BY AtFrame
<1>2. Resumed'
  BY <1>1, ResumedStep
<1>3. stack' \in [Thread -> Seq(Good)] /\ cpu' \in Thread
  BY DEF Types
<1> QED BY <1>2, <1>3, ResumedTopNext

\* A handler.
LEMMA HandlerResumed ==
  ASSUME Types, Types', Past, ~ Suspended, NEW f, Begins(f), Enters(f), f.kind \in Handler
  PROVE  ~ Suspended'
<1>1. f \in Good /\ ~ Inside(f)
  BY BeginsFrame DEF Inside, Handler
<1>2. Resumed'
  BY <1>1, ResumedOrNot, ResumedEnters
<1>3. stack' \in [Thread -> Seq(Good)] /\ cpu' \in Thread
  BY DEF Types
<1> QED BY <1>2, <1>3, ResumedTopNext

\* A call that goes on to a point.
LEMMA GoToMoves ==
  ASSUME Types, NEW p, NEW to, <<p, to>> \in Route, At(p), GoTo(to)
  PROVE  LET f == Top(stack[cpu])
             g == [f EXCEPT !.at = to]
         IN  /\ Becomes(g) /\ Moves(f, g) /\ g \in Good
             /\ g.at = to /\ g.kind = f.kind /\ f.at = p /\ Shape(f)
<1> DEFINE f == Top(stack[cpu])
           g == [f EXCEPT !.at = to]
<1>1. f.at = p /\ f \in Frame /\ Shape(f)
  BY AtFrame
<1>2. Becomes(g)
  BY DEF GoTo
<1> HIDE DEF f
<1>3. Moves(f, g)
  BY <1>1 DEF Moves, Route
<1>4. g \in Good
  BY <1>1, <1>3, MovesFrame
<1>5. g.at = to /\ g.kind = f.kind
  BY <1>1 DEF Frame
<1> QED BY <1>1, <1>2, <1>3, <1>4, <1>5 DEF f

\* From inside the stretch to its next point, or outside of it to outside.
LEMMA SuspendedKept ==
  ASSUME Types, stack[cpu] # << >>, NEW g \in Good, Becomes(g), cpu' = cpu
  PROVE  /\ Suspended' <=> Inside(g)
         /\ Suspended <=> Inside(Top(stack[cpu]))
<1>1. /\ Len(stack'[cpu]) = Len(stack[cpu]) /\ stack'[cpu] # << >>
      /\ stack'[cpu][Len(stack[cpu])] = g
  BY BecomesStack DEF Types
<1>2. Top(stack'[cpu']) = g /\ stack'[cpu'] # << >>
  BY <1>1 DEF Top
<1>3. Suspended' <=> stack'[cpu'] # << >> /\ Inside(Top(stack'[cpu']))
  BY DEF Suspended, Innermost, Inside
<1> QED BY <1>2, <1>3, SuspendedTop

\* A function of the VM that begins.
LEMMA EntersSuspended ==
  ASSUME Types, NEW f \in Good, Enters(f), Inside(f), cpu' = cpu
  PROVE  Suspended'
<1>1. /\ Len(stack'[cpu]) = Len(stack[cpu]) + 1 /\ stack'[cpu] # << >>
      /\ stack'[cpu][Len(stack[cpu]) + 1] = f
  BY EnterStack DEF Types
<1>2. Top(stack'[cpu']) = f /\ stack'[cpu'] # << >>
  BY <1>1 DEF Top
<1> QED BY <1>2 DEF Suspended, Innermost, Inside

\* A call at a point outside of the stretch.
LEMMA OutsideAt ==
  ASSUME Types, NEW p, At(p),
         p \notin {"body", "sched", "pick"} \/ Top(stack[cpu]).kind \notin {"api", "alloc"}
  PROVE  ~ Suspended
BY AtFrame, SuspendedTop DEF Inside

\* These are the effects of steps on the masks.
LEMMA MaskSteps ==
  ASSUME Types, Types', Masked, Next PROVE MaskStep
<1> USE DEF MaskStep, MachineSuspendSignals, MachineResumeSignals, masks
<1>0. Past /\ (Suspended => mask = Signal)
  BY DEF Masked
<1>1. CASE Call
  <2> DEFINE f == Fresh("api", "body", {}, NULL)
  <2>1. ~ Suspended
    BY <1>1, SuspendedTop DEF Call
  <2>2. Enters(f) /\ cpu' = cpu /\ f \in Good /\ Inside(f)
    BY <1>1 DEF Call, Enter, Enters, Fresh, switches, Inside, Good, Frame, Shape
  <2> HIDE DEF f
  <2>3. Suspended'
    BY <2>2, EntersSuspended
  <2> QED BY <1>1, <2>1, <2>3 DEF Call, Suspend
<1>2. CASE \/ VMThreadID \/ (\E t \in Thread : VMThreadActivate(t))
           \/ \E m \in Mutex, n \in Timeouts : VMMutexAcquire(m, n)
  <2>1. At("body") /\ Leave /\ mask' = sigs /\ sigs' = sigs
    BY <1>2 DEF VMThreadID, VMThreadActivate, VMMutexAcquire, Executes, Completes
  <2> QED BY <1>0, <2>1, LeavesResumed DEF Resume
<1>3. CASE VMThreadStateNull
  <2>1. At("body") /\ Leave /\ leaked' /\ UNCHANGED masks
    BY <1>3 DEF VMThreadStateNull, Executes
  <2> QED BY <1>0, <2>1, LeavesResumed DEF Leak
<1>4. ASSUME NEW p, NEW to, <<p, to>> \in Route, At(p), GoTo(to), UNCHANGED masks, cpu' = cpu,
             p \in {"body", "sched", "wait", "tick", "reply", "request"}
      PROVE  Keep
  <2>1. PICK f : f = Top(stack[cpu])
    OBVIOUS
  <2>2. PICK g : g = [f EXCEPT !.at = to]
    OBVIOUS
  <2>3. /\ Becomes(g) /\ g \in Good
        /\ g.at = to /\ g.kind = f.kind /\ f.at = p /\ Shape(f)
    BY <1>4, <2>1, <2>2, GoToMoves
  <2>4. Inside(g) <=> Inside(f)
    BY <1>4, <2>3 DEF Inside, Route, Shape
  <2>5. stack[cpu] # << >>
    BY <1>4, AtFrame
  <2>6. Suspended' <=> Suspended
    BY <1>4, <2>1, <2>3, <2>4, <2>5, SuspendedKept
  <2> QED BY <1>4, <2>6 DEF Keep
<1>5. CASE \/ VMThreadSleep \/ VMFileOpen \/ (\E t \in Thread : VMThreadTerminate(t))
           \/ (\E m \in Mutex : VMMutexRelease(m))
           \/ \E m \in Mutex, n \in Timeouts : VMMutexWait(m, n)
  <2>1. At("body") /\ GoTo("sched") /\ UNCHANGED masks /\ cpu' = cpu
        /\ <<"body", "sched">> \in Route
    BY <1>5 DEF VMThreadSleep, VMFileOpen, VMThreadTerminate, VMMutexRelease, VMMutexWait,
                Executes, Schedules, switches, Route
  <2> QED BY <1>4, <2>1
<1>6. CASE Return
  <2>1. PICK p \in {"done", "back"} : At(p)
    BY <1>6 DEF Return
  <2>2. Leave /\ stack[cpu] # << >> /\ sigs' = sigs
        /\ (mask' = Top(stack[cpu]).saved \/ mask' = sigs)
    BY <1>6, <2>1, AtFrame DEF Return
  <2>3. ~ Suspended' /\ ~ Suspended
    BY <1>0, <2>1, <2>2, LeavesResumed, OutsideAt
  <2> QED BY <2>2, <2>3 DEF Resume, Restore
<1>7. CASE Allocates
  <2> DEFINE g == Fresh("alloc", "alloc", {}, NULL)
  <2>1. PICK p \in {"body", "back"} : At(p) /\ (p = "body" \/ Innermost({"alloc"}))
    BY <1>7 DEF Allocates
  <2>2. Becomes(g) /\ mask' = sigs /\ sigs' = sigs
    BY <1>7 DEF Allocates, GoOnAs, Fresh
  <2>3. Moves(Top(stack[cpu]), g) /\ ~ Inside(g)
    BY <2>1, AtFrame DEF Moves, Innermost, Inside, Fresh
  <2> HIDE DEF g
  <2> QED BY <1>0, <2>1, <2>2, <2>3, GoesResumed DEF Resume
<1>8. CASE AllocateSchedules
  <2>1. ~ Suspended
    BY <1>8, OutsideAt DEF AllocateSchedules
  <2>2. At("alloc") /\ GoTo("sched") /\ cpu' = cpu /\ <<"alloc", "sched">> \in Route
    BY <1>8 DEF AllocateSchedules, switches, Route
  <2>3. PICK f : f = Top(stack[cpu])
    OBVIOUS
  <2>4. PICK g : g = [f EXCEPT !.at = "sched"]
    OBVIOUS
  <2>5. /\ Becomes(g) /\ g \in Good
        /\ g.at = "sched" /\ g.kind = f.kind /\ f.at = "alloc" /\ Shape(f)
    BY <2>2, <2>3, <2>4, GoToMoves
  <2>6. Inside(g) /\ stack[cpu] # << >>
    BY <2>2, <2>5, AtFrame DEF Inside, Shape
  <2>7. Suspended'
    BY <2>2, <2>5, <2>6, SuspendedKept
  <2> QED BY <1>8, <2>1, <2>7 DEF AllocateSchedules, Suspend
<1>9. CASE Allocated
  <2>1. At("back") /\ Top(stack[cpu]).at = "back" /\ Top(stack[cpu]).kind = "alloc"
        /\ UNCHANGED masks
    BY <1>9, AtFrame DEF Allocated, Innermost
  <2>2. PICK g \in {Fresh("write", "request", {}, NULL), Fresh("read", "request", {}, NULL),
                    Fresh("read", "done", {}, NULL), Fresh("create", "new", {}, NULL)} :
          Becomes(g)
    BY <1>9 DEF Allocated, GoOnAs, Fresh
  <2>3. Moves(Top(stack[cpu]), g)
    BY <2>1, <2>2 DEF Moves
  <2>4. ~ Inside(g)
    BY <2>2 DEF Inside, Fresh
  <2>5. ~ Suspended' /\ ~ Suspended
    BY <1>0, <2>1, <2>2, <2>3, <2>4, GoesResumed, OutsideAt
  <2> QED BY <2>1, <2>5 DEF Restore
<1>10. CASE Requests
  <2>1. At("request") /\ GoTo("wait") /\ UNCHANGED masks /\ cpu' = cpu
        /\ <<"request", "wait">> \in Route
    BY <1>10 DEF Requests, switches, Route
  <2> QED BY <1>4, <2>1
<1>11. CASE Waits
  <2>1. At("wait") /\ GoTo("sched") /\ UNCHANGED masks /\ cpu' = cpu
        /\ <<"wait", "sched">> \in Route
    BY <1>11 DEF Waits, Schedules, switches, Route
  <2> QED BY <1>4, <2>1
<1>12. CASE NextPiece \/ LastPiece
  <2>1. PICK to \in {"request", "done"} : At("back") /\ Innermost({"write", "read"}) /\ GoTo(to)
    BY <1>12 DEF NextPiece, LastPiece
  <2> DEFINE g == [Top(stack[cpu]) EXCEPT !.at = to]
  <2>2. Becomes(g) /\ Moves(Top(stack[cpu]), g)
    BY <2>1, AtFrame DEF GoTo, Moves, Innermost
  <2>3. ~ Inside(g)
    BY <2>1, AtFrame DEF Inside, Frame
  <2> HIDE DEF g
  <2>4. ~ Suspended' /\ ~ Suspended
    BY <1>0, <2>1, <2>2, <2>3, GoesResumed, OutsideAt
  <2>5. mask' = mask /\ sigs' \in {sigs, mask}
    BY <1>12 DEF NextPiece, LastPiece
  <2> QED BY <2>4, <2>5 DEF Restore
<1>13. ASSUME NEW t \in AppThread, NEW p \in NewPriority, NewThread(t, p) PROVE MaskStep
  <2> DEFINE g == Fresh("create", "create", mask, t)
  <2>1. At("new") /\ Becomes(g) /\ UNCHANGED masks
    BY <1>13 DEF NewThread, Fresh
  <2>2. Moves(Top(stack[cpu]), g) /\ ~ Inside(g)
    BY <2>1, AtFrame DEF Moves, Inside, Fresh
  <2> HIDE DEF g
  <2>3. ~ Suspended' /\ ~ Suspended
    BY <1>0, <2>1, <2>2, GoesResumed, OutsideAt
  <2> QED BY <2>1, <2>3 DEF Restore
<1>14. CASE MachineContextCreate
  <2> DEFINE g == [Top(stack[cpu]) EXCEPT !.at = "made"]
  <2>1. At("create") /\ GoTo("made") /\ mask' = Top(stack[cpu]).saved /\ sigs' = sigs
        /\ <<"create", "made">> \in Route
    BY <1>14 DEF MachineContextCreate, Route
  <2>2. Becomes(g) /\ Moves(Top(stack[cpu]), g) /\ ~ Inside(g) /\ stack[cpu] # << >>
    BY <2>1, GoToMoves, AtFrame DEF Inside
  <2> HIDE DEF g
  <2>3. ~ Suspended' /\ ~ Suspended
    BY <1>0, <2>1, <2>2, GoesResumed, OutsideAt
  <2> QED BY <2>1, <2>2, <2>3 DEF Restore
<1>15. CASE setContext
  <2> DEFINE g == Fresh("create", "done", {}, NULL)
  <2>1. At("made") /\ Becomes(g) /\ UNCHANGED masks
    BY <1>15 DEF setContext, GoOnAs, Fresh
  <2>2. Moves(Top(stack[cpu]), g) /\ ~ Inside(g)
    BY <2>1, AtFrame DEF Moves, Inside, Fresh
  <2> HIDE DEF g
  <2>3. ~ Suspended' /\ ~ Suspended
    BY <1>0, <2>1, <2>2, GoesResumed, OutsideAt
  <2> QED BY <2>1, <2>3 DEF Restore
<1>16. CASE SchedulerRequeues
  <2>1. At("sched") /\ GoTo("pick") /\ UNCHANGED masks /\ cpu' = cpu
        /\ <<"sched", "pick">> \in Route
    BY <1>16 DEF SchedulerRequeues, Route
  <2> QED BY <1>4, <2>1
<1>17. CASE SchedulerPicks
  <2>1. CASE UNCHANGED <<masks, stack>>
    BY <1>17, <2>1 DEF SchedulerPicks, switches, Keep, Suspended, Innermost
  <2>2. CASE mask' = sigs /\ sigs' = sigs /\ GoTo("switch")
    <3> DEFINE g == [Top(stack[cpu]) EXCEPT !.at = "switch"]
    <3>1. At("pick") /\ <<"pick", "switch">> \in Route
      BY <1>17 DEF SchedulerPicks, Route
    <3>2. Becomes(g) /\ Moves(Top(stack[cpu]), g) /\ ~ Inside(g)
      BY <2>2, <3>1, GoToMoves DEF Inside
    <3> HIDE DEF g
    <3>3. ~ Suspended'
      BY <1>0, <3>1, <3>2, GoesResumed
    <3> QED BY <2>2, <3>3 DEF Resume
  <2> QED BY <1>17, <2>1, <2>2 DEF SchedulerPicks
<1>18. CASE SchedulerSwitches
  <2>1. At("switch") /\ UNCHANGED masks
    BY <1>18 DEF SchedulerSwitches
  <2>2. CASE UNCHANGED <<cpu, stack>>
    BY <2>1, <2>2 DEF Keep, Suspended, Innermost
  <2>3. CASE GoTo("back")
    <3> DEFINE g == [Top(stack[cpu]) EXCEPT !.at = "back"]
    <3>1. <<"switch", "back">> \in Route
      BY DEF Route
    <3>2. Becomes(g) /\ Moves(Top(stack[cpu]), g) /\ ~ Inside(g)
      BY <2>1, <2>3, <3>1, GoToMoves DEF Inside
    <3> HIDE DEF g
    <3>3. ~ Suspended' /\ ~ Suspended
      BY <1>0, <2>1, <3>2, GoesResumed, OutsideAt
    <3> QED BY <2>1, <3>3 DEF Restore
  <2> QED BY <1>18, <2>2, <2>3 DEF SchedulerSwitches
<1>19. CASE timerISR
  <2>1. At("tick") /\ GoTo("sched") /\ sigs' = mask /\ mask' = mask
        /\ <<"tick", "sched">> \in Route
    BY <1>19 DEF timerISR, Route
  <2> DEFINE g == [Top(stack[cpu]) EXCEPT !.at = "sched"]
  <2>2. Top(stack[cpu]).kind = "isr"
    BY <2>1, AtFrame DEF Shape
  <2>3. Becomes(g) /\ Moves(Top(stack[cpu]), g) /\ ~ Inside(g)
    BY <2>1, <2>2, GoToMoves DEF Inside
  <2> HIDE DEF g
  <2>4. ~ Suspended' /\ ~ Suspended
    BY <1>0, <2>1, <2>2, <2>3, GoesResumed, OutsideAt
  <2> QED BY <2>1, <2>4 DEF Restore
<1>20. CASE FetchReply
  <2> DEFINE g == [Top(stack[cpu]) EXCEPT !.at = "answer", !.of = Head(replies)]
  <2>1. At("reply") /\ Becomes(g) /\ UNCHANGED masks
    BY <1>20 DEF FetchReply
  <2>2. Head(replies) \in Thread
    BY <1>20, HeadTailProperties DEF FetchReply, Types
  <2>3. Moves(Top(stack[cpu]), g) /\ ~ Inside(g)
    BY <2>1, <2>2, AtFrame DEF Moves, Inside, Frame
  <2> HIDE DEF g
  <2>4. ~ Suspended' /\ ~ Suspended
    BY <1>0, <2>1, <2>3, GoesResumed, OutsideAt
  <2> QED BY <2>1, <2>4 DEF Restore
<1>21. CASE FileCallback
  <2> DEFINE g == [Top(stack[cpu]) EXCEPT !.at = "reply", !.of = NULL]
  <2>1. At("answer") /\ Becomes(g) /\ UNCHANGED masks
    BY <1>21 DEF FileCallback
  <2>2. Moves(Top(stack[cpu]), g) /\ ~ Inside(g)
    BY <2>1, AtFrame DEF Moves, Inside, Frame
  <2> HIDE DEF g
  <2>3. ~ Suspended' /\ ~ Suspended
    BY <1>0, <2>1, <2>2, GoesResumed, OutsideAt
  <2> QED BY <2>1, <2>3 DEF Restore
<1>22. CASE NoMoreReplies
  <2>1. At("reply") /\ GoTo("back") /\ UNCHANGED masks /\ cpu' = cpu
        /\ <<"reply", "back">> \in Route
    BY <1>22 DEF NoMoreReplies, switches, Route
  <2> QED BY <1>4, <2>1
<1>23. CASE Alarm
  <2> DEFINE f == Fresh("isr", "tick", mask, NULL)
  <2>1. /\ Enters(f) /\ Begins(f) /\ f.kind \in Handler /\ mask # Signal
        /\ sigs' = sigs /\ mask' = mask \cup (Signal \ {ALRM})
    BY <1>23 DEF Alarm, Enter, Enters, Begins, Fresh, Handler, Signal, Interrupted
  <2> HIDE DEF f
  <2>2. ~ Suspended' /\ ~ Suspended
    BY <1>0, <2>1, HandlerResumed
  <2>3. mask' = mask \cup {USR2}
    BY <2>1 DEF Signal, ALRM, USR2
  <2> QED BY <2>1, <2>2, <2>3 DEF Restore
<1>24. CASE ReplySignal
  <2> DEFINE f == Fresh("usr2", "reply", mask, NULL)
  <2>1. /\ Enters(f) /\ Begins(f) /\ f.kind \in Handler /\ mask # Signal
        /\ sigs' = sigs /\ mask' = mask \cup {USR2}
    BY <1>24 DEF ReplySignal, Enter, Enters, Begins, Fresh, Handler, Signal, Interrupted,
                 ALRM, USR2
  <2> HIDE DEF f
  <2>2. ~ Suspended' /\ ~ Suspended
    BY <1>0, <2>1, HandlerResumed
  <2> QED BY <2>1, <2>2 DEF Restore
<1>25. CASE \E t \in Thread : MachineSendReply(t)
  BY <1>25 DEF MachineSendReply, switches, Keep, Suspended, Innermost
<1> QED BY <1>1, <1>2, <1>3, <1>4, <1>5, <1>6, <1>7, <1>8, <1>9, <1>10, <1>11, <1>12, <1>13,
           <1>14, <1>15, <1>16, <1>17, <1>18, <1>19, <1>20, <1>21, <1>22, <1>23, <1>24, <1>25
        DEF Next, Execute, Body, Transfer, Create

\* Whoever has suspended the signals and not resumed them runs with all of
\* them blocked.
LEMMA MaskedStep ==
  ASSUME Types, Types', Masked, Next PROVE Masked'
<1>1. Past'
  BY NextStacks, PastStep
<1>2. Suspended' => mask' = Signal
  BY MaskSteps DEF MaskStep, Keep, Suspend, Resume, Restore, Leak, masks, Masked
<1> QED BY <1>1, <1>2 DEF Masked

\* The leak is not forgotten.
LEMMA LeakedStays ==
  ASSUME Next, leaked PROVE leaked'
BY DEF Next, Execute, Call, Body, VMThreadID, VMThreadStateNull, VMThreadActivate,
   VMMutexAcquire, VMMutexWait, VMMutexRelease, VMThreadSleep, VMThreadTerminate,
   VMFileOpen, Completes, Schedules, Return, Allocates, AllocateSchedules, Allocated,
   Transfer, Requests, Waits, NextPiece, LastPiece, Create, NewThread,
   MachineContextCreate, setContext, SchedulerRequeues, SchedulerPicks,
   SchedulerSwitches, timerISR, FetchReply, FileCallback, NoMoreReplies, Alarm,
   ReplySignal, MachineSendReply, history

\* The alarm stays enabled, in the mask and in the masks that are put back.
LEMMA NotBlockedStep ==
  ASSUME Types, Types', Masked, leaked \/ NotBlocked, Next
  PROVE  leaked' \/ NotBlocked'
<1> SUFFICES ASSUME NotBlocked, ~ leaked' PROVE NotBlocked'
  BY LeakedStays
<1> USE DEF NotBlocked
<1>1. MaskStep /\ ~ Leak
  BY MaskSteps DEF Leak
<1>2. stack[cpu] # << >> => ALRM \notin Top(stack[cpu]).saved
  <2>1. SUFFICES ASSUME stack[cpu] # << >> PROVE Top(stack[cpu]) \in Safe
    BY DEF Safe
  <2>2. Len(stack[cpu]) \in 1 .. Len(stack[cpu]) /\ stack[cpu] \in Seq(Safe)
    BY <2>1, TopFrame
  <2> QED BY <2>2, ElementOfSeq DEF Top
<1>3. ALRM \notin sigs'
  BY <1>1 DEF MaskStep, Keep, Suspend, Resume, Restore, masks
<1>4. ~ Suspended' => ALRM \notin mask'
  BY <1>1, <1>2 DEF MaskStep, Keep, Suspend, Resume, Restore, masks, ALRM, USR2
<1>5. stack' \in [Thread -> Seq(Safe)]
  <2>1. StackStep /\ cpu \in Thread
    BY NextStacks DEF Types
  <2>2. ASSUME NEW f, Begins(f) PROVE f \in Safe
    <3>1. /\ f \in Good /\ f.saved \in {{}, mask}
          /\ stack[cpu] = << >> \/ mask # Signal
      BY <2>2, BeginsFrame DEF Handler
    <3>2. ~ Suspended
      BY <3>1, SuspendedTop DEF Masked
    <3> QED BY <3>1, <3>2 DEF Safe, Good
  <2>3. ASSUME stack[cpu] # << >>, NEW g, Moves(Top(stack[cpu]), g) PROVE g \in Safe
    <3>1. /\ g \in Good
          /\ g.saved \in {Top(stack[cpu]).saved, {}} \/ (g.saved = mask /\ ~ Inside(Top(stack[cpu])))
      BY <2>3, TopFrame, MovesFrame
    <3>2. ~ Inside(Top(stack[cpu])) => ALRM \notin mask
      BY SuspendedTop
    <3> QED BY <1>2, <2>3, <3>1, <3>2 DEF Safe, Good
  <2> QED BY <2>1, <2>2, <2>3, StackStays
<1> QED BY <1>3, <1>4, <1>5

-----------------------------------------------------------------------------
(* The machinery                                                           *)

\* No call of scheduler() is at work.
Quiet == \A t \in Thread : \A i \in 1 .. Len(stack[t]) : ~ Busy(t, i)

\* Above a call of scheduler() at work there are handlers of replies only.
LEMMA TopQuiet ==
  ASSUME Types, Works, stack[cpu] # << >>,
         Top(stack[cpu]).at \notin {"pick", "switch"}, Top(stack[cpu]).kind # "usr2"
  PROVE  Quiet /\ cpu = vm.tr
<1> DEFINE n == Len(stack[cpu])
<1>1. cpu \in Thread /\ n \in Nat /\ n \in 1 .. n /\ Top(stack[cpu]) = stack[cpu][n]
  BY TopFrame, StackOf
<1>2. ASSUME NEW t \in Thread, NEW i \in 1 .. Len(stack[t]), Busy(t, i) PROVE FALSE
  <2>1. t = cpu /\ (n > i => stack[cpu][n].kind = "usr2")
    BY <1>1, <1>2 DEF Works
  <2>2. i = n
    BY <1>1, <1>2, <2>1
  <2> QED BY <1>1, <1>2, <2>1, <2>2 DEF Busy
<1>3. Quiet
  BY <1>2 DEF Quiet
<1> QED BY <1>1, <1>3 DEF Quiet, Works

\* In the application and in functions of the VM outside of scheduler(), the
\* running thread executes.
LEMMA Alone ==
  ASSUME Types, AppFirst, Works, Runner,
         stack[cpu] # << >> => /\ Top(stack[cpu]).kind \notin Handler
                               /\ Top(stack[cpu]).at \notin {"sched", "pick", "switch"}
  PROVE  /\ Quiet /\ cpu = vm.tr /\ vm.state[vm.tr] = "RUNNING"
         /\ stack[cpu] # << >> => cpu # Idle
<1> DEFINE n == Len(stack[cpu])
<1>1. cpu \in Thread /\ n \in Nat
  BY StackOf DEF Types
<1>2. \A i \in 1 .. n : i = n /\ stack[cpu][i].at \notin {"sched", "pick", "switch"}
  <2>1. CASE stack[cpu] = << >>
    BY <1>1, <2>1, StackOf
  <2>2. CASE stack[cpu] # << >>
    <3>1. n \in 1 .. n /\ Top(stack[cpu]) = stack[cpu][n]
      BY <2>2, TopFrame
    <3>2. n = 1
      BY <1>1, <2>2, <3>1 DEF AppFirst
    <3> QED BY <2>2, <3>1, <3>2
  <2> QED BY <2>1, <2>2
<1>3. Quiet
  BY <1>1, <1>2 DEF Quiet, Works, Busy
<1>4. cpu = vm.tr /\ vm.state[vm.tr] = "RUNNING"
  BY <1>1, <1>2 DEF Works, Runner, Busy
<1>5. stack[cpu] # << >> => cpu # Idle
  BY <1>1, TopFrame DEF AppFirst
<1> QED BY <1>3, <1>4, <1>5

\* At such a point.
LEMMA AloneAt ==
  ASSUME Types, AppFirst, Works, Runner, NEW p, At(p),
         \/ p \in {"body", "alloc", "request", "wait", "new", "create", "made", "done"}
         \/ p = "back" /\ Top(stack[cpu]).kind \notin Handler
  PROVE  Quiet /\ cpu = vm.tr /\ vm.state[vm.tr] = "RUNNING" /\ cpu # Idle
<1>1. /\ stack[cpu] # << >> /\ Top(stack[cpu]).kind \notin Handler
      /\ Top(stack[cpu]).at \notin {"sched", "pick", "switch"}
  BY AtFrame DEF Shape, Handler
<1> QED BY <1>1, Alone

\* The races are not forgotten.
LEMMA RacedStays ==
  ASSUME Next, raced PROVE raced'
BY DEF Next, Execute, Call, Body, VMThreadID, VMThreadStateNull, VMThreadActivate,
   VMMutexAcquire, VMMutexWait, VMMutexRelease, VMThreadSleep, VMThreadTerminate,
   VMFileOpen, Completes, Schedules, Return, Allocates, AllocateSchedules, Allocated,
   Transfer, Requests, Waits, NextPiece, LastPiece, Create, NewThread,
   MachineContextCreate, setContext, SchedulerRequeues, SchedulerPicks,
   SchedulerSwitches, timerISR, FetchReply, FileCallback, NoMoreReplies, Alarm,
   ReplySignal, MachineSendReply, history

\* Contexts are made, and not unmade.
LEMMA ContextsStay ==
  ASSUME Next PROVE contexts \subseteq contexts'
BY DEF Next, Execute, Call, Body, VMThreadID, VMThreadStateNull, VMThreadActivate,
   VMMutexAcquire, VMMutexWait, VMMutexRelease, VMThreadSleep, VMThreadTerminate,
   VMFileOpen, Completes, Schedules, Return, Allocates, AllocateSchedules, Allocated,
   Transfer, Requests, Waits, NextPiece, LastPiece, Create, NewThread,
   MachineContextCreate, setContext, SchedulerRequeues, SchedulerPicks,
   SchedulerSwitches, timerISR, FetchReply, FileCallback, NoMoreReplies, Alarm,
   ReplySignal, MachineSendReply, switches

\* When scheduler() chooses, some queue is not empty.
LEMMA SomebodyReady ==
  ASSUME Types, Machinery, Runner, At("pick")
  PROVE  /\ \A t \in Thread : vm.state[t] # "RUNNING"
         /\ \E p \in Priority : vm.readyQ[p] # << >>
<1>1. /\ Len(stack[cpu]) \in 1 .. Len(stack[cpu])
      /\ stack[cpu][Len(stack[cpu])].at = "pick"
  BY AtFrame
<1>2. \A t \in Thread : vm.state[t] # "RUNNING"
  BY <1>1 DEF Runner
<1>3. Idle \in Thread /\ VM_THREAD_PRIORITY_NIL \in Priority
  BY DEF Thread, Priority, VM_THREAD_PRIORITY_NIL, VM_THREAD_PRIORITY_HIGH
<1>4. Idle \in Elems(vm.readyQ[VM_THREAD_PRIORITY_NIL])
  BY <1>2, <1>3 DEF Machinery, KernelInv, IdleRuns, ReadyQueued
<1>5. vm.readyQ[VM_THREAD_PRIORITY_NIL] # << >>
  BY <1>4 DEF Elems
<1> QED BY <1>2, <1>3, <1>5

\* Every step keeps the virtual machine as its functions expect it, unless a
\* thread is activated before it has a context.
LEMMA MachineryStep ==
  ASSUME Types, AppFirst, Machinery, Works, Runner, Next, ~ raced'
  PROVE  Machinery'
<1> DEFINE s == vm'
<1>1. /\ KernelInv(vm, NULL) /\ Within(vm, contexts) /\ vm.mutexes = Mutex
      /\ vm.halt = "no" /\ vm.freed = {} /\ vm \in VMState /\ vm.tr \in Thread
  BY DEF Machinery, Within, VMState
<1>2. Changes(s)
  BY NextChanges
<1>3. At("body") \/ At("wait") => vm.tr \in Thread \ {Idle} /\ vm.state[vm.tr] = "RUNNING"
  BY <1>1, AloneAt
<1>4. Within(s, contexts) /\ s.mutexes = Mutex /\ s.halt = "no"
  <2>1. At("body") \/ At("wait") => vm.tr \in contexts
    BY <1>1, <1>3 DEF Within
  <2>2. \A t \in Thread : VMThreadActivate(t) => t \in contexts
    BY DEF VMThreadActivate
  <2> HIDE DEF s
  <2> QED BY <1>1, <1>2, <2>1, <2>2, VmWithin, SomebodyReady
<1>5. Within(s, contexts')
  BY <1>4, ContextsStay DEF Within
<1>6. KernelInv(s, NULL)
  <2> HIDE DEF s
  <2>1. CASE s = vm
    BY <1>1, <2>1
  <2>2. ASSUME NEW t \in Thread, VMThreadActivate(t),
               s = PushReady([vm EXCEPT !.state[t] = "READY"], t)
        PROVE  KernelInv(s, NULL)
    <3>1. t \in Elems(vm.threads) /\ t # NULL
      BY <2>2, ObjectAssumption DEF VMThreadActivate
    <3> QED BY <1>1, <2>2, <3>1, PushInv
  <2>3. ASSUME NEW m \in Mutex, NEW n, At("body"), s = AcquireMutex(vm, vm.tr, m, n)
        PROVE  KernelInv(s, NULL)
    BY <1>1, <1>3, <2>3, AcquireInv
  <2>4. ASSUME NEW m \in Mutex, NEW n \in Timeouts \cap Nat, At("body"),
               s = Block(AcquireMutex(vm, vm.tr, m, n), vm.tr, n)
        PROVE  KernelInv(s, NULL)
    <3>1. PICK d : d = AcquireMutex(vm, vm.tr, m, n)
      OBVIOUS
    <3>2. KernelInv(d, NULL) /\ d.state[vm.tr] = "RUNNING"
      BY <1>1, <1>3, <2>4, <3>1, AcquireInv
    <3>3. KernelInv(Block(d, vm.tr, n), NULL)
      BY <1>3, <2>4, <3>2, BlockInv
    <3> QED BY <2>4, <3>1, <3>3
  <2>5. ASSUME NEW m \in Elems(vm.held[vm.tr]), At("body"), s = ReleaseMutex(vm, vm.tr, m)
        PROVE  KernelInv(s, NULL)
    BY <1>1, <2>5, ReleaseMutexInv
  <2>6. CASE At("body") /\ s = Block(vm, vm.tr, 1)
    BY <1>1, <1>3, <2>6, BlockInv
  <2>7. ASSUME NEW t \in Thread \ {Idle}, s = Terminate(vm, t) PROVE KernelInv(s, NULL)
    BY <1>1, <2>7, TerminateInv
  <2>8. CASE (At("body") \/ At("wait")) /\ s = Wait(vm, vm.tr)
    BY <1>1, <1>3, <2>8, WaitInv
  <2>9. ASSUME NEW t \in AppThread, NEW p \in Priority, t \notin Elems(vm.threads),
               s = Enrolled(vm, t, p)
        PROVE  KernelInv(s, NULL)
    BY <1>1, <2>9, EnrolledInv
  <2>10. CASE s = Requeue(vm)
    BY <1>1, <2>10, RequeueInv
  <2>11. CASE At("pick")
    <3>1. PICK p \in Priority : vm.readyQ[p] # << >>
      BY <2>11, SomebodyReady
    <3>2. Highest(vm) \in Priority /\ vm.readyQ[Highest(vm)] # << >>
      BY <3>1, HighestQueue
    <3>3. KernelInv(Dispatch(vm, Highest(vm)), NULL)
      BY <1>1, <2>11, <3>2, SomebodyReady, DispatchInv
    <3>4. ~ At("body") /\ ~ At("wait") /\ ~ At("sched") /\ ~ At("tick") /\ ~ At("answer")
          /\ ~ At("new")
      BY <2>11 DEF At
    <3>5. \A t \in Thread : ~ VMThreadActivate(t)
      BY <3>4 DEF VMThreadActivate, Executes
    <3> QED BY <1>2, <2>1, <3>1, <3>3, <3>4, <3>5 DEF Changes
  <2>12. CASE s = TimerTick(vm)
    BY <1>1, <2>12, TimerTickInv
  <2>13. ASSUME NEW t \in Thread, vm.state[t] = "WAITING",
                s = PushReady([vm EXCEPT !.state[t] = "READY"], t)
         PROVE  KernelInv(s, NULL)
    <3>1. t \in Elems(vm.threads) /\ t # NULL
      BY <1>1, <2>13, WaitingRegistered
    <3> QED BY <1>1, <2>13, <3>1, PushInv
  <2> QED BY <1>2, <2>1, <2>2, <2>3, <2>4, <2>5, <2>6, <2>7, <2>8, <2>9, <2>10, <2>11,
             <2>12, <2>13 DEF Changes
<1> QED BY <1>4, <1>5, <1>6 DEF Machinery

-----------------------------------------------------------------------------
(* Calls and switches                                                      *)

\* The running thread goes on.
StillRuns == vm.state[vm.tr] = "RUNNING" => vm'.state[vm.tr] = "RUNNING"

\* A step of the executing stack, with no call of scheduler() at work on any.
LEMMA QuietStep ==
  ASSUME Types, Types', Quiet, Runner, cpu = vm.tr, cpu' = cpu, vm'.tr = vm.tr,
         \/ StillRuns /\ \E f \in Good : Enters(f) /\ f.at \notin {"pick", "switch"}
         \/ StillRuns /\ stack[cpu] # << >> /\ Top(stack[cpu]).at # "sched" /\ Leave
         \/ /\ stack[cpu] # << >>
            /\ \E g \in Good : /\ Becomes(g) /\ g.at \notin {"pick", "switch"}
                               /\ g.at = "sched" \/ (StillRuns /\ Top(stack[cpu]).at # "sched")
  PROVE  Works' /\ Runner'
<1> DEFINE n == Len(stack[cpu])
           N == Len(stack'[cpu])
<1>1. /\ cpu \in Thread /\ n \in Nat /\ N \in Nat /\ stack \in [Thread -> Seq(Good)]
      /\ stack' \in [Thread -> Seq(Good)]
      /\ stack[cpu] # << >> => n \in 1 .. n /\ Top(stack[cpu]) = stack[cpu][n]
      /\ stack[cpu] = << >> => n = 0
  BY StackOf, LenProperties DEF Types, Top
<1>2. \A i \in 1 .. n : stack[cpu][i].at \notin {"pick", "switch"}
  BY <1>1 DEF Quiet, Busy
<1>3. /\ \A t \in Thread : t # cpu => stack'[t] = stack[t]
      /\ \A i \in 1 .. N : stack'[cpu][i].at \notin {"pick", "switch"}
      /\ \/ \E i \in 1 .. N : stack'[cpu][i].at = "sched"
         \/ /\ StillRuns
            /\ \A i \in 1 .. n : stack[cpu][i].at # "sched"
  <2>1. ASSUME NEW f \in Good, Enters(f), f.at \notin {"pick", "switch"}, StillRuns
        PROVE  <1>3!:
    <3>1. /\ N = n + 1 /\ \A t \in Thread : t # cpu => stack'[t] = stack[t]
          /\ stack'[cpu][n + 1] = f /\ \A i \in 1 .. n : stack'[cpu][i] = stack[cpu][i]
      BY <1>1, <2>1, EnterStack
    <3>2. \A i \in 1 .. N : i = n + 1 \/ i \in 1 .. n
      BY <1>1, <3>1
    <3>3. \A i \in 1 .. n : i \in 1 .. N
      BY <1>1, <3>1
    <3> QED BY <1>2, <2>1, <3>1, <3>2, <3>3
  <2>2. ASSUME stack[cpu] # << >>, Leave, Top(stack[cpu]).at # "sched", StillRuns
        PROVE  <1>3!:
    <3>1. /\ N = n - 1 /\ \A t \in Thread : t # cpu => stack'[t] = stack[t]
          /\ \A i \in 1 .. n - 1 : stack'[cpu][i] = stack[cpu][i]
      BY <1>1, <2>2, LeaveStack
    <3>2. \A i \in 1 .. n : i = n \/ i \in 1 .. N
      BY <1>1, <3>1
    <3>3. \A i \in 1 .. N : i \in 1 .. n /\ i \in 1 .. n - 1
      BY <1>1, <3>1
    <3> QED BY <1>1, <1>2, <2>2, <3>1, <3>2, <3>3
  <2>3. ASSUME stack[cpu] # << >>, NEW g \in Good, Becomes(g),
               g.at \notin {"pick", "switch"},
               g.at = "sched" \/ (StillRuns /\ Top(stack[cpu]).at # "sched")
        PROVE  <1>3!:
    <3>1. /\ N = n /\ \A t \in Thread : t # cpu => stack'[t] = stack[t]
          /\ stack'[cpu][n] = g /\ \A i \in 1 .. n : i # n => stack'[cpu][i] = stack[cpu][i]
      BY <1>1, <2>3, BecomesStack
    <3> QED BY <1>1, <1>2, <2>3, <3>1
  <2> QED BY <2>1, <2>2, <2>3
<1>4. \A t \in Thread : \A i \in 1 .. Len(stack'[t]) : ~ Busy(t, i)'
  <2>1. ASSUME NEW t \in Thread, t # cpu, NEW i \in 1 .. Len(stack'[t])
        PROVE  stack'[t][i].at \notin {"pick", "switch"}
    BY <1>3, <2>1 DEF Quiet, Busy
  <2> QED BY <1>3, <2>1 DEF Busy
<1>5. Works'
  BY <1>4 DEF Works
<1>6. Runner'
  <2>1. \/ vm'.state[vm'.tr] = "RUNNING"
        \/ \E i \in 1 .. N : stack'[cpu][i].at = "sched"
    BY <1>2, <1>3 DEF Runner, StillRuns
  <2> QED BY <1>3, <2>1 DEF Runner
<1> QED BY <1>5, <1>6

\* A step of a handler of replies, wherever it interrupted, or of nobody.
LEMMA ReplyStep ==
  ASSUME Types, Types', Works, Runner, cpu' = cpu, pt' = pt, vm'.tr = vm.tr,
         \A t \in Thread : vm.state[t] = "RUNNING" <=> vm'.state[t] = "RUNNING",
         \/ UNCHANGED stack
         \/ \E f \in Good : Enters(f) /\ f.kind = "usr2"
         \/ /\ stack[cpu] # << >> /\ Top(stack[cpu]).kind = "usr2"
            /\ Leave \/ \E g \in Good : Becomes(g) /\ g.kind = "usr2"
  PROVE  Works' /\ Runner'
<1> DEFINE n == Len(stack[cpu])
           N == Len(stack'[cpu])
           Same(i) == /\ i \in 1 .. n /\ i \in 1 .. N
                      /\ stack'[cpu][i] = stack[cpu][i]
           Outside(f) == f.kind = "usr2" /\ f.at \notin {"sched", "pick", "switch"}
<1>1. /\ cpu \in Thread /\ n \in Nat /\ N \in Nat /\ stack \in [Thread -> Seq(Good)]
      /\ stack' \in [Thread -> Seq(Good)] /\ vm.tr \in Thread
      /\ stack[cpu] # << >> => n \in 1 .. n /\ Top(stack[cpu]) = stack[cpu][n]
      /\ stack[cpu] = << >> => n = 0
  BY StackOf, LenProperties DEF Types, Top, Within, VMState
<1>2. \A f \in Good : f.kind = "usr2" => Outside(f)
  BY DEF Good, Shape
<1> HIDE DEF Outside
<1>3. /\ \A t \in Thread : t # cpu => stack'[t] = stack[t]
      /\ \A i \in 1 .. n : Same(i) \/ Outside(stack[cpu][i])
      /\ \A i \in 1 .. N : Same(i) \/ Outside(stack'[cpu][i])
  <2>1. CASE UNCHANGED stack
    BY <2>1
  <2>2. ASSUME NEW f \in Good, Enters(f), f.kind = "usr2" PROVE <1>3!:
    <3>1. /\ N = n + 1 /\ \A t \in Thread : t # cpu => stack'[t] = stack[t]
          /\ stack'[cpu][n + 1] = f /\ \A i \in 1 .. n : stack'[cpu][i] = stack[cpu][i]
      BY <1>1, <2>2, EnterStack
    <3>2. \A i \in 1 .. N : i = n + 1 \/ i \in 1 .. n
      BY <1>1, <3>1
    <3>3. \A i \in 1 .. n : i \in 1 .. N
      BY <1>1, <3>1
    <3> QED BY <1>2, <2>2, <3>1, <3>2, <3>3
  <2>3. ASSUME stack[cpu] # << >>, Top(stack[cpu]).kind = "usr2", Leave PROVE <1>3!:
    <3>1. /\ N = n - 1 /\ \A t \in Thread : t # cpu => stack'[t] = stack[t]
          /\ \A i \in 1 .. n - 1 : stack'[cpu][i] = stack[cpu][i]
      BY <1>1, <2>3, LeaveStack
    <3>2. \A i \in 1 .. n : i = n \/ (i \in 1 .. N /\ i \in 1 .. n - 1)
      BY <1>1, <3>1
    <3>3. \A i \in 1 .. N : i \in 1 .. n /\ i \in 1 .. n - 1
      BY <1>1, <3>1
    <3>4. Outside(stack[cpu][n])
      BY <1>1, <1>2, <2>3, StackOf
    <3> QED BY <3>1, <3>2, <3>3, <3>4
  <2>4. ASSUME stack[cpu] # << >>, Top(stack[cpu]).kind = "usr2",
               NEW g \in Good, Becomes(g), g.kind = "usr2"
        PROVE  <1>3!:
    <3>1. /\ N = n /\ \A t \in Thread : t # cpu => stack'[t] = stack[t]
          /\ stack'[cpu][n] = g /\ \A i \in 1 .. n : i # n => stack'[cpu][i] = stack[cpu][i]
      BY <1>1, <2>4, BecomesStack
    <3>2. Outside(stack[cpu][n]) /\ Outside(g)
      BY <1>1, <1>2, <2>4, StackOf
    <3> QED BY <3>1, <3>2
  <2> QED BY <2>1, <2>2, <2>3, <2>4
<1>4. ASSUME NEW t \in Thread, NEW i \in 1 .. Len(stack'[t]), Busy(t, i)'
      PROVE  /\ t = cpu' /\ pt' = cpu'
             /\ \A j \in 1 .. N : j > i => stack'[cpu][j].kind = "usr2"
  <2>1. CASE t # cpu
    <3>1. i \in 1 .. Len(stack[t]) /\ Busy(t, i)
      BY <1>3, <1>4, <2>1 DEF Busy
    <3> QED BY <2>1, <3>1 DEF Works
  <2>2. CASE t = cpu
    <3>1. Same(i) /\ Busy(cpu, i)
      BY <1>3, <1>4, <2>2 DEF Busy, Outside
    <3>2. pt = cpu /\ \A j \in 1 .. n : j > i => stack[cpu][j].kind = "usr2"
      BY <1>1, <3>1 DEF Works
    <3>3. \A j \in 1 .. N : j > i => stack'[cpu][j].kind = "usr2"
      BY <1>3, <3>2 DEF Outside
    <3> QED BY <2>2, <3>2, <3>3
  <2> QED BY <2>1, <2>2
<1>5. cpu = vm.tr \/ \E i \in 1 .. N : stack'[cpu][i].at \in {"pick", "switch"}
  BY <1>1, <1>3 DEF Works, Busy, Outside
<1>6. Works'
  BY <1>4, <1>5 DEF Works, Busy
<1>7. Runner'
  <2>1. \/ vm'.state[vm'.tr] = "RUNNING"
        \/ \E i \in 1 .. N : stack'[cpu][i].at \in {"sched", "pick"}
    BY <1>1, <1>3 DEF Runner, Outside
  <2>2. ASSUME NEW i \in 1 .. N
        PROVE  /\ stack'[cpu][i].at = "pick" => \A u \in Thread : vm'.state[u] # "RUNNING"
               /\ stack'[cpu][i].at = "switch" => vm'.state[vm'.tr] = "RUNNING"
    <3>1. CASE Same(i)
      <4>1. /\ stack[cpu][i].at = "pick" => \A u \in Thread : vm.state[u] # "RUNNING"
            /\ stack[cpu][i].at = "switch" => vm.state[vm.tr] = "RUNNING"
        BY <3>1 DEF Runner
      <4> QED BY <1>1, <3>1, <4>1
    <3>2. CASE Outside(stack'[cpu][i])
      BY <3>2 DEF Outside
    <3> QED BY <1>3, <3>1, <3>2
  <2> QED BY <2>1, <2>2 DEF Runner
<1> QED BY <1>6, <1>7

\* scheduler() requeues the thread that executes.
LEMMA RequeuesStep ==
  ASSUME Types, Types', Machinery, Works, Runner, SchedulerRequeues
  PROVE  Works' /\ Runner'
<1> DEFINE n == Len(stack[cpu])
<1>1. /\ At("sched") /\ GoTo("pick") /\ cpu' = cpu /\ pt' = vm.tr /\ vm' = Requeue(vm)
      /\ <<"sched", "pick">> \in Route /\ stack[cpu] # << >>
  BY AtFrame DEF SchedulerRequeues, Route, At
<1>2. PICK g : g = [Top(stack[cpu]) EXCEPT !.at = "pick"]
  OBVIOUS
<1>3. Becomes(g) /\ g \in Good /\ g.at = "pick"
  BY <1>1, <1>2, GoToMoves
<1>4. Quiet /\ cpu = vm.tr
  BY <1>1, AtFrame, TopQuiet DEF Shape
<1>5. cpu \in Thread /\ n \in 1 .. n /\ stack \in [Thread -> Seq(Good)]
  BY <1>1, TopFrame DEF Types
<1>6. /\ Len(stack'[cpu]) = n /\ \A t \in Thread : t # cpu => stack'[t] = stack[t]
      /\ stack'[cpu][n] = g /\ \A i \in 1 .. n : i # n => stack'[cpu][i] = stack[cpu][i]
  BY <1>1, <1>3, <1>5, BecomesStack
<1>7. vm'.tr = vm.tr
  BY <1>1, RequeueWithin DEF Machinery, Unmoved
<1>8. \A t \in Thread : vm'.state[t] # "RUNNING"
  BY <1>1, RequeueInv DEF Machinery
<1>9. ASSUME NEW t \in Thread, NEW i \in 1 .. Len(stack'[t]), stack'[t][i].at \in {"pick", "switch"}
      PROVE  t = cpu /\ i = n
  BY <1>4, <1>5, <1>6, <1>9 DEF Quiet, Busy
<1>10. Works'
  BY <1>1, <1>4, <1>5, <1>6, <1>7, <1>9 DEF Works, Busy
<1>11. Runner'
  BY <1>1, <1>3, <1>5, <1>6, <1>8, <1>9 DEF Runner
<1> QED BY <1>10, <1>11

\* The call that is at work in scheduler() is the innermost one.
LEMMA AtWork ==
  ASSUME Types, Works, NEW p \in {"pick", "switch"}, At(p)
  PROVE  /\ pt = cpu
         /\ \A t \in Thread : \A i \in 1 .. Len(stack[t]) : Busy(t, i) =>
              t = cpu /\ i = Len(stack[cpu])
<1> DEFINE n == Len(stack[cpu])
<1>1. /\ cpu \in Thread /\ n \in Nat /\ n \in 1 .. n
      /\ stack[cpu][n].at = p /\ stack[cpu][n].kind # "usr2"
  BY AtFrame, StackOf DEF Shape
<1>2. Busy(cpu, n)
  BY <1>1 DEF Busy
<1>3. pt = cpu
  BY <1>1, <1>2 DEF Works
<1>4. ASSUME NEW t \in Thread, NEW i \in 1 .. Len(stack[t]), Busy(t, i)
      PROVE  t = cpu /\ i = n
  <2>1. t = cpu /\ (n > i => stack[cpu][n].kind = "usr2")
    BY <1>1, <1>4 DEF Works
  <2> QED BY <1>1, <1>4, <2>1
<1> QED BY <1>3, <1>4

\* It chooses a thread.
LEMMA PicksStep ==
  ASSUME Types, Types', Machinery, Works, Runner, SchedulerPicks
  PROVE  Works' /\ Runner'
<1> DEFINE n == Len(stack[cpu])
<1>1. /\ At("pick") /\ cpu' = cpu /\ pt' = pt /\ <<"pick", "switch">> \in Route
      /\ stack[cpu] # << >>
  BY AtFrame DEF SchedulerPicks, Route, switches
<1>2. PICK p \in Priority : vm.readyQ[p] # << >>
  BY <1>1, SomebodyReady
<1>3. GoTo("switch") /\ vm' = Dispatch(vm, Highest(vm))
  BY <1>2 DEF SchedulerPicks
<1>4. PICK g : g = [Top(stack[cpu]) EXCEPT !.at = "switch"]
  OBVIOUS
<1>5. Becomes(g) /\ g \in Good /\ g.at = "switch"
  BY <1>1, <1>3, <1>4, GoToMoves
<1>6. cpu \in Thread /\ n \in 1 .. n /\ stack \in [Thread -> Seq(Good)] /\ n \in Nat
  BY <1>1, TopFrame, StackOf DEF Types
<1>7. /\ Len(stack'[cpu]) = n /\ \A t \in Thread : t # cpu => stack'[t] = stack[t]
      /\ stack'[cpu][n] = g /\ \A i \in 1 .. n : i # n => stack'[cpu][i] = stack[cpu][i]
  BY <1>1, <1>5, <1>6, BecomesStack
<1>8. vm'.state[vm'.tr] = "RUNNING"
  <2>1. Highest(vm) \in Priority /\ vm.readyQ[Highest(vm)] # << >>
    BY <1>2, HighestQueue
  <2> QED BY <1>3, <2>1, DispatchWithin DEF Machinery
<1>9. pt = cpu
  BY <1>1, AtWork
<1>10. ASSUME NEW t \in Thread, NEW i \in 1 .. Len(stack'[t]), stack'[t][i].at \in {"pick", "switch"}
       PROVE  t = cpu /\ i = n
  <2>1. \A u \in Thread : \A j \in 1 .. Len(stack[u]) :
          stack[u][j].at \in {"pick", "switch"} => u = cpu /\ j = n
    BY <1>1, AtWork DEF Busy
  <2> QED BY <1>6, <1>7, <1>10, <2>1
<1>11. Works'
  BY <1>1, <1>5, <1>6, <1>7, <1>9, <1>10 DEF Works, Busy
<1>12. Runner'
  BY <1>1, <1>5, <1>6, <1>7, <1>8, <1>10 DEF Runner
<1> QED BY <1>11, <1>12

\* It switches to the context of that thread, from its own.
LEMMA SwitchesStep ==
  ASSUME Types, Types', Machinery, Works, Runner, SchedulerSwitches
  PROVE  Works' /\ Runner' /\ crossed' = crossed
<1> DEFINE n == Len(stack[cpu])
<1>1. At("switch") /\ vm' = vm /\ <<"switch", "back">> \in Route /\ stack[cpu] # << >>
  BY AtFrame DEF SchedulerSwitches, Route
<1>2. cpu \in Thread /\ n \in 1 .. n /\ stack \in [Thread -> Seq(Good)] /\ n \in Nat
  BY <1>1, TopFrame, StackOf DEF Types
<1>3. vm.state[vm.tr] = "RUNNING" /\ vm.tr \in Thread
  <2>1. stack[cpu][n].at = "switch"
    BY <1>1, AtFrame
  <2> QED BY <1>2, <2>1 DEF Runner, Machinery, Within, VMState
<1>4. vm.tr \in contexts /\ pt = cpu
  BY <1>1, <1>3, AtWork DEF Machinery, Within
<1>5. cpu' = vm.tr /\ GoTo("back") /\ crossed' = crossed
  BY <1>4 DEF SchedulerSwitches
<1>6. PICK g : g = [Top(stack[cpu]) EXCEPT !.at = "back"]
  OBVIOUS
<1>7. Becomes(g) /\ g \in Good /\ g.at = "back"
  BY <1>1, <1>5, <1>6, GoToMoves
<1>8. /\ Len(stack'[cpu]) = n /\ \A t \in Thread : t # cpu => stack'[t] = stack[t]
      /\ stack'[cpu][n] = g /\ \A i \in 1 .. n : i # n => stack'[cpu][i] = stack[cpu][i]
  BY <1>1, <1>2, <1>7, BecomesStack
<1>9. ASSUME NEW t \in Thread, NEW i \in 1 .. Len(stack'[t])
      PROVE  stack'[t][i].at \notin {"pick", "switch"}
  <2>1. \A u \in Thread : \A j \in 1 .. Len(stack[u]) :
          stack[u][j].at \in {"pick", "switch"} => u = cpu /\ j = n
    BY <1>1, AtWork DEF Busy
  <2> QED BY <1>2, <1>7, <1>8, <1>9, <2>1
<1>10. Works'
  BY <1>1, <1>5, <1>9 DEF Works, Busy
<1>11. Runner'
  <2>1. cpu' \in Thread
    BY DEF Types
  <2> QED BY <1>1, <1>3, <1>9, <2>1 DEF Runner
<1> QED BY <1>5, <1>10, <1>11

\* Only scheduler() makes another thread the running one.
LEMMA TrStays ==
  ASSUME Types, Next, ~ At("pick") PROVE vm'.tr = vm.tr
<1>1. vm.tr \in Thread /\ Within(vm, Thread) /\ Changes(vm')
  BY NextChanges DEF Types, Within, VMState
<1> QED BY <1>1, VmWithin

\* The switch is the only step that crosses contexts before a race.
LEMMA CrossedStays ==
  ASSUME Types, Next, ~ raced, ~ SchedulerSwitches PROVE crossed' = FALSE \/ crossed' = crossed
BY DEF Next, Execute, Call, Body, VMThreadID, VMThreadStateNull, VMThreadActivate,
   VMMutexAcquire, VMMutexWait, VMMutexRelease, VMThreadSleep, VMThreadTerminate,
   VMFileOpen, Completes, Schedules, Return, Allocates, AllocateSchedules, Allocated,
   Transfer, Requests, Waits, NextPiece, LastPiece, Create, NewThread,
   MachineContextCreate, setContext, SchedulerRequeues, SchedulerPicks,
   timerISR, FetchReply, FileCallback, NoMoreReplies, Alarm,
   ReplySignal, MachineSendReply, history, Types

\* A function of the VM goes on, outside of scheduler().
LEMMA GoesOn ==
  ASSUME Types, Types', AppFirst, Works, Runner, NEW p, At(p), cpu' = cpu,
         vm'.tr = vm.tr,
         \/ p \in {"body", "alloc", "request", "wait", "new", "create", "made", "done"}
         \/ p = "back" /\ Top(stack[cpu]).kind \notin Handler,
         NEW g, Becomes(g), Moves(Top(stack[cpu]), g),
         g.at \notin {"pick", "switch"}, StillRuns \/ g.at = "sched"
  PROVE  Works' /\ Runner'
<1>1. /\ stack[cpu] # << >> /\ Top(stack[cpu]).at # "sched" /\ g \in Good
  BY AtFrame, MovesFrame
<1>2. Quiet /\ cpu = vm.tr
  BY AloneAt
<1> QED BY <1>1, <1>2, QuietStep

\* Where it goes on to.
LEMMA GoesOutside ==
  ASSUME Types,
         \/ Allocates \/ Allocated \/ Requests \/ NextPiece \/ LastPiece
         \/ (\E t \in AppThread, q \in NewPriority : NewThread(t, q))
         \/ MachineContextCreate \/ setContext
  PROVE  \E g : Becomes(g) /\ Moves(Top(stack[cpu]), g) /\ g.at \notin {"pick", "switch"}
<1>1. CASE Allocates
  <2> DEFINE g == Fresh("alloc", "alloc", {}, NULL)
  <2>1. Becomes(g) /\ g.at = "alloc"
    BY <1>1 DEF Allocates, GoOnAs, Fresh
  <2>2. Top(stack[cpu]).at = "body" \/ (Top(stack[cpu]).at = "back" /\ Top(stack[cpu]).kind = "alloc")
    BY <1>1 DEF Allocates, At, Innermost
  <2>3. Moves(Top(stack[cpu]), g)
    BY <2>2 DEF Moves
  <2> QED BY <2>1, <2>3
<1>2. CASE Allocated
  <2>1. PICK g \in {Fresh("write", "request", {}, NULL), Fresh("read", "request", {}, NULL),
                    Fresh("read", "done", {}, NULL), Fresh("create", "new", {}, NULL)} :
          Becomes(g)
    BY <1>2 DEF Allocated, GoOnAs, Fresh
  <2>2. Top(stack[cpu]).at = "back" /\ Top(stack[cpu]).kind = "alloc"
    BY <1>2 DEF Allocated, At, Innermost
  <2>3. Moves(Top(stack[cpu]), g) /\ g.at \in {"request", "done", "new"}
    BY <2>1, <2>2 DEF Moves, Fresh
  <2> QED BY <2>1, <2>3
<1>3. ASSUME NEW p, NEW to, <<p, to>> \in {<<"request", "wait">>, <<"create", "made">>},
             At(p), GoTo(to)
      PROVE  \E g : Becomes(g) /\ Moves(Top(stack[cpu]), g) /\ g.at \notin {"pick", "switch"}
  <2>1. <<p, to>> \in Route /\ to \notin {"pick", "switch"}
    BY <1>3 DEF Route
  <2> DEFINE g == [Top(stack[cpu]) EXCEPT !.at = to]
  <2>2. Becomes(g) /\ Moves(Top(stack[cpu]), g) /\ g.at = to
    BY <1>3, <2>1, GoToMoves
  <2> QED BY <2>1, <2>2
<1>4. CASE NextPiece \/ LastPiece
  <2>1. PICK to \in {"request", "done"} : At("back") /\ Innermost({"write", "read"}) /\ GoTo(to)
    BY <1>4 DEF NextPiece, LastPiece
  <2> DEFINE g == [Top(stack[cpu]) EXCEPT !.at = to]
  <2>2. Becomes(g) /\ Moves(Top(stack[cpu]), g)
    BY <2>1, AtFrame DEF GoTo, Moves, Innermost
  <2>3. g.at = to
    BY <2>1, AtFrame DEF Frame
  <2> QED BY <2>2, <2>3
<1>5. ASSUME NEW t \in AppThread, NEW q \in NewPriority, NewThread(t, q)
      PROVE  \E g : Becomes(g) /\ Moves(Top(stack[cpu]), g) /\ g.at \notin {"pick", "switch"}
  <2> DEFINE g == Fresh("create", "create", mask, t)
  <2>1. Becomes(g) /\ g.at = "create" /\ At("new")
    BY <1>5 DEF NewThread, Fresh
  <2>2. Moves(Top(stack[cpu]), g)
    BY <2>1, AtFrame DEF Moves
  <2> QED BY <2>1, <2>2
<1>6. CASE setContext
  <2> DEFINE g == Fresh("create", "done", {}, NULL)
  <2>1. Becomes(g) /\ g.at = "done" /\ At("made")
    BY <1>6 DEF setContext, GoOnAs, Fresh
  <2>2. Moves(Top(stack[cpu]), g)
    BY <2>1, AtFrame DEF Moves
  <2> QED BY <2>1, <2>2
<1>7. CASE Requests
  BY <1>3, <1>7 DEF Requests
<1>8. CASE MachineContextCreate
  BY <1>3, <1>8 DEF MachineContextCreate
<1> QED BY <1>1, <1>2, <1>4, <1>5, <1>6, <1>7, <1>8

\* How the handler of replies goes on.
LEMMA AnswersMove ==
  ASSUME Types, FetchReply \/ FileCallback \/ NoMoreReplies
  PROVE  \E g : Becomes(g) /\ Moves(Top(stack[cpu]), g)
<1>1. CASE FetchReply
  <2> DEFINE g == [Top(stack[cpu]) EXCEPT !.at = "answer", !.of = Head(replies)]
  <2>1. At("reply") /\ Becomes(g)
    BY <1>1 DEF FetchReply
  <2>2. Head(replies) \in Thread
    BY <1>1, HeadTailProperties DEF FetchReply, Types
  <2>3. Moves(Top(stack[cpu]), g)
    BY <2>1, <2>2, AtFrame DEF Moves
  <2> QED BY <2>1, <2>3
<1>2. CASE FileCallback
  <2> DEFINE g == [Top(stack[cpu]) EXCEPT !.at = "reply", !.of = NULL]
  <2>1. At("answer") /\ Becomes(g)
    BY <1>2 DEF FileCallback
  <2>2. Moves(Top(stack[cpu]), g)
    BY <2>1, AtFrame DEF Moves
  <2> QED BY <2>1, <2>2
<1>3. CASE NoMoreReplies
  <2>1. At("reply") /\ GoTo("back") /\ <<"reply", "back">> \in Route
    BY <1>3 DEF NoMoreReplies, Route
  <2> QED BY <2>1, GoToMoves
<1> QED BY <1>1, <1>2, <1>3

\* It calls scheduler().
LEMMA CallsScheduler ==
  ASSUME Types, Types', AppFirst, Works, Runner, NEW p \in {"body", "wait", "alloc"}, At(p),
         GoTo("sched"), cpu' = cpu, Next
  PROVE  Works' /\ Runner'
<1>1. PICK g : g = [Top(stack[cpu]) EXCEPT !.at = "sched"]
  OBVIOUS
<1>2. <<p, "sched">> \in Route
  BY DEF Route
<1>3. Becomes(g) /\ Moves(Top(stack[cpu]), g) /\ g.at = "sched"
  BY <1>1, <1>2, GoToMoves
<1>4. vm'.tr = vm.tr
  BY TrStays DEF At
<1> QED BY <1>3, <1>4, GoesOn

\* It returns.
LEMMA Returns ==
  ASSUME Types, Types', AppFirst, Works, Runner, At("body"), Leave, cpu' = cpu,
         StillRuns, Next
  PROVE  Works' /\ Runner'
<1>1. Quiet /\ cpu = vm.tr /\ stack[cpu] # << >> /\ Top(stack[cpu]).at # "sched"
  BY AloneAt, AtFrame
<1>2. vm'.tr = vm.tr
  BY TrStays DEF At
<1> QED BY <1>1, <1>2, QuietStep

\* The contexts stay apart through every step but the races.
LEMMA WholeStep ==
  ASSUME Types, Types', AppFirst, Whole, Next, ~ raced' PROVE Whole'
<1>0. /\ Machinery /\ Works /\ Runner /\ ~ crossed /\ ~ raced
      /\ vm \in VMState /\ vm.tr \in Thread /\ KernelInv(vm, NULL)
  BY RacedStays DEF Whole, Machinery, Within, VMState
<1>1. Machinery'
  BY <1>0, MachineryStep
<1>2. ~ crossed'
  <2>1. CASE SchedulerSwitches
    BY <1>0, <2>1, SwitchesStep
  <2>2. CASE ~ SchedulerSwitches
    BY <1>0, <2>2, CrossedStays
  <2> QED BY <2>1, <2>2
<1> SUFFICES Works' /\ Runner'
  BY <1>1, <1>2 DEF Whole
<1> USE <1>0
<1>3. CASE Call
  <2> DEFINE f == Fresh("api", "body", {}, NULL)
  <2>1. /\ stack[cpu] = << >> /\ Enters(f) /\ Begins(f) /\ cpu' = cpu /\ vm' = vm
        /\ f.at \notin {"pick", "switch"}
    BY <1>3 DEF Call, Enter, Enters, Begins, Fresh, switches
  <2> HIDE DEF f
  <2>2. f \in Good
    BY <2>1, BeginsFrame
  <2>3. Quiet /\ cpu = vm.tr
    BY <2>1, Alone
  <2> QED BY <2>1, <2>2, <2>3, QuietStep DEF StillRuns
<1>4. CASE VMThreadID \/ VMThreadStateNull
  <2>1. At("body") /\ Leave /\ cpu' = cpu /\ vm' = vm
    BY <1>4 DEF VMThreadID, VMThreadStateNull, Executes, Completes, switches
  <2> QED BY <2>1, Returns DEF StillRuns
<1>5. ASSUME NEW t \in Thread, VMThreadActivate(t) PROVE Works' /\ Runner'
  <2>1. /\ At("body") /\ Leave /\ cpu' = cpu /\ vm.state[t] = "DEAD"
        /\ vm' = PushReady([vm EXCEPT !.state[t] = "READY"], t)
    BY <1>5 DEF VMThreadActivate, Executes, Completes, switches
  <2>2. vm'.state = [vm.state EXCEPT ![t] = "READY"] /\ vm'.tr = vm.tr
    BY <2>1 DEF PushReady, VMState
  <2>3. StillRuns
    BY <2>1, <2>2 DEF StillRuns, VMState
  <2> QED BY <2>1, <2>3, Returns
<1>6. ASSUME NEW m \in Mutex, NEW n \in Timeouts, VMMutexAcquire(m, n) PROVE Works' /\ Runner'
  <2>1. At("body") /\ Leave /\ cpu' = cpu /\ vm' = AcquireMutex(vm, vm.tr, m, n)
    BY <1>6 DEF VMMutexAcquire, Executes, Completes, switches
  <2>2. vm.state[vm.tr] = "RUNNING" /\ m \in vm.mutexes
    BY <2>1, AloneAt DEF Machinery
  <2>3. vm'.state = vm.state
    BY <2>1, <2>2, AcquireInv
  <2>4. StillRuns
    BY <2>3 DEF StillRuns
  <2> QED BY <2>1, <2>4, Returns
<1>7. CASE \/ VMThreadSleep \/ VMFileOpen \/ (\E t \in Thread : VMThreadTerminate(t))
           \/ (\E m \in Mutex : VMMutexRelease(m))
           \/ (\E m \in Mutex, n \in Timeouts : VMMutexWait(m, n))
           \/ Waits \/ AllocateSchedules
  <2>1. PICK p \in {"body", "wait", "alloc"} : At(p) /\ GoTo("sched") /\ cpu' = cpu
    BY <1>7 DEF VMThreadSleep, VMFileOpen, VMThreadTerminate, VMMutexRelease, VMMutexWait,
                Waits, AllocateSchedules, Executes, Schedules, switches
  <2> QED BY <2>1, CallsScheduler
<1>8. CASE Return
  <2>1. /\ stack[cpu] # << >> /\ Leave /\ cpu' = cpu /\ vm' = vm /\ pt' = pt
        /\ Top(stack[cpu]).at \in {"done", "back"}
    BY <1>8 DEF Return, At, switches
  <2>2. CASE Top(stack[cpu]).kind = "usr2"
    BY <2>1, <2>2, ReplyStep
  <2>3. CASE Top(stack[cpu]).kind # "usr2"
    BY <2>1, <2>3, TopQuiet, QuietStep DEF StillRuns
  <2> QED BY <2>2, <2>3
<1>9. CASE Allocates \/ Allocated \/ Requests \/ NextPiece \/ LastPiece
           \/ (\E t \in AppThread, q \in NewPriority : NewThread(t, q))
           \/ MachineContextCreate \/ setContext
  <2>1. PICK p : /\ At(p) /\ cpu' = cpu
                 /\ \/ p \in {"body", "alloc", "request", "wait", "new", "create", "made", "done"}
                    \/ p = "back" /\ Top(stack[cpu]).kind \notin Handler
    BY <1>9 DEF Allocates, Allocated, Requests, NextPiece, LastPiece, NewThread,
                MachineContextCreate, setContext, switches, Innermost, Handler
  <2>2. PICK g : /\ Becomes(g) /\ Moves(Top(stack[cpu]), g)
                 /\ g.at \notin {"pick", "switch"}
    BY <1>9, GoesOutside
  <2>3. StillRuns
    <3>1. CASE vm' = vm
      BY <3>1 DEF StillRuns
    <3>2. ASSUME NEW t \in AppThread, NEW q \in NewPriority, NewThread(t, q) PROVE StillRuns
      <4>1. vm'.state = vm.state /\ vm'.tr = vm.tr
        BY <3>2 DEF NewThread, VMState
      <4> QED BY <4>1 DEF StillRuns
    <3> QED BY <1>9, <3>1, <3>2 DEF Allocates, Allocated, Requests, NextPiece, LastPiece,
                                    MachineContextCreate, setContext
  <2>4. vm'.tr = vm.tr
    BY <2>1, TrStays DEF At
  <2> QED BY <2>1, <2>2, <2>3, <2>4, GoesOn
<1>10. CASE SchedulerRequeues
  BY <1>10, RequeuesStep
<1>11. CASE SchedulerPicks
  BY <1>11, PicksStep
<1>12. CASE SchedulerSwitches
  BY <1>12, SwitchesStep
<1>13. CASE timerISR
  <2>1. /\ At("tick") /\ GoTo("sched") /\ cpu' = cpu /\ <<"tick", "sched">> \in Route
        /\ stack[cpu] # << >>
    BY <1>13 DEF timerISR, switches, Route, At
  <2>2. PICK g : g = [Top(stack[cpu]) EXCEPT !.at = "sched"]
    OBVIOUS
  <2>3. Becomes(g) /\ g \in Good /\ g.at = "sched"
    BY <2>1, <2>2, GoToMoves
  <2>4. Quiet /\ cpu = vm.tr
    BY <2>1, AtFrame, TopQuiet DEF Shape
  <2>5. vm'.tr = vm.tr
    BY <2>1, TrStays DEF At
  <2> QED BY <2>1, <2>3, <2>4, <2>5, QuietStep
<1>14. CASE Alarm
  <2> DEFINE f == Fresh("isr", "tick", mask, NULL)
  <2>1. /\ Enters(f) /\ Begins(f) /\ cpu' = cpu /\ vm' = vm /\ f.at \notin {"pick", "switch"}
        /\ ~ Active(cpu, {"pick", "switch", "create"})
    BY <1>14 DEF Alarm, Enter, Enters, Begins, Fresh, switches
  <2> HIDE DEF f
  <2>2. f \in Good
    BY <2>1, BeginsFrame
  <2>3. Quiet /\ cpu = vm.tr
    <3>1. cpu \in Thread /\ DOMAIN stack[cpu] = 1 .. Len(stack[cpu])
      BY StackOf DEF Types
    <3>2. \A i \in 1 .. Len(stack[cpu]) : ~ Busy(cpu, i)
      BY <2>1, <3>1 DEF Active, Busy
    <3> QED BY <3>2 DEF Works, Quiet
  <2> QED BY <2>1, <2>2, <2>3, QuietStep DEF StillRuns
<1>15. CASE ReplySignal
  <2> DEFINE f == Fresh("usr2", "reply", mask, NULL)
  <2>1. Enters(f) /\ Begins(f) /\ cpu' = cpu /\ vm' = vm /\ pt' = pt /\ f.kind = "usr2"
    BY <1>15 DEF ReplySignal, Enter, Enters, Begins, Fresh, switches
  <2> HIDE DEF f
  <2>2. f \in Good
    BY <2>1, BeginsFrame
  <2> QED BY <2>1, <2>2, ReplyStep
<1>16. CASE FetchReply \/ NoMoreReplies
  <2>1. At("reply") /\ cpu' = cpu /\ vm' = vm /\ pt' = pt
    BY <1>16 DEF FetchReply, NoMoreReplies, switches
  <2>2. stack[cpu] # << >> /\ Top(stack[cpu]).kind = "usr2"
    BY <2>1, AtFrame DEF Shape
  <2>3. PICK g : Becomes(g) /\ Moves(Top(stack[cpu]), g)
    BY <1>16, AnswersMove
  <2>4. g \in Good /\ g.kind = "usr2"
    BY <2>1, <2>2, <2>3, AtFrame, MovesFrame
  <2> QED BY <2>1, <2>2, <2>3, <2>4, ReplyStep
<1>17. CASE FileCallback
  <2>1. At("answer") /\ cpu' = cpu /\ pt' = pt
    BY <1>17 DEF FileCallback, switches
  <2>2. PICK t \in Thread : /\ vm.state[t] = "WAITING"
                            /\ vm' = PushReady([vm EXCEPT !.state[t] = "READY"], t)
    BY <1>17, AtFrame DEF FileCallback, Shape
  <2>3. vm'.state = [vm.state EXCEPT ![t] = "READY"] /\ vm'.tr = vm.tr
    BY <2>2 DEF PushReady, VMState
  <2>4. \A u \in Thread : vm.state[u] = "RUNNING" <=> vm'.state[u] = "RUNNING"
    BY <2>2, <2>3 DEF VMState
  <2>5. stack[cpu] # << >> /\ Top(stack[cpu]).kind = "usr2"
    BY <2>1, AtFrame DEF Shape
  <2>6. PICK g : Becomes(g) /\ Moves(Top(stack[cpu]), g)
    BY <1>17, AnswersMove
  <2>7. g \in Good /\ g.kind = "usr2"
    BY <2>1, <2>5, <2>6, AtFrame, MovesFrame
  <2> QED BY <2>1, <2>3, <2>4, <2>5, <2>6, <2>7, ReplyStep
<1>18. CASE \E t \in Thread : MachineSendReply(t)
  <2>1. UNCHANGED stack /\ cpu' = cpu /\ pt' = pt /\ vm' = vm
    BY <1>18 DEF MachineSendReply, switches
  <2> QED BY <2>1, ReplyStep
<1> QED BY <1>3, <1>4, <1>5, <1>6, <1>7, <1>8, <1>9, <1>10, <1>11, <1>12, <1>13, <1>14, <1>15,
           <1>16, <1>17, <1>18 DEF Next, Execute, Body, Transfer, Create

-----------------------------------------------------------------------------
(* The invariant, and the theorems                                         *)

\* At the start main executes, and idle is ready.
LEMMA InitMachinery ==
  ASSUME Init
  PROVE  /\ Machinery /\ Within(vm, Thread)
         /\ vm.tr = Main /\ vm.state[Main] = "RUNNING"
<1>1. Main \in Thread /\ Idle \in Thread /\ Main # Idle
  BY ObjectAssumption DEF Thread
<1>2. vm = [threads |-> <<Main, Idle>>,
            mutexes |-> Mutex,
            freed   |-> {},
            id      |-> [t \in Thread |-> IF t = Idle THEN 1 ELSE 0],
            state   |-> [t \in Thread |-> CASE t = Main -> "RUNNING"
                                            [] t = Idle -> "READY"
                                            [] OTHER    -> "DEAD"],
            prio    |-> [t \in Thread |-> IF t = Main
                                          THEN VM_THREAD_PRIORITY_NORMAL
                                          ELSE VM_THREAD_PRIORITY_NIL],
            ticks   |-> [t \in Thread |-> -1],
            held    |-> [t \in Thread |-> << >>],
            waiting |-> [t \in Thread |-> NULL],
            owner   |-> [m \in Mutex |-> NULL],
            QTex    |-> [m \in Mutex |-> << >>],
            readyQ  |-> [p \in Priority |->
                           IF p = VM_THREAD_PRIORITY_NIL THEN <<Idle>>
                           ELSE << >>],
            tr      |-> Main,
            nextID  |-> 2,
            halt    |-> "no"]
  BY DEF Init
<1>3. contexts = {Main, Idle} /\ -1 \in Int
  BY DEF Init
<1>4. /\ \A t \in Thread : vm.state[t] = CASE t = Main -> "RUNNING"
                                           [] t = Idle -> "READY"
                                           [] OTHER    -> "DEAD"
      /\ \A t \in Thread : vm.prio[t] = IF t = Main THEN 2 ELSE 0
      /\ \A t \in Thread : vm.ticks[t] = -1
      /\ \A t \in Thread : vm.held[t] = << >>
      /\ \A m \in Mutex : vm.QTex[m] = << >>
      /\ \A p \in Priority : vm.readyQ[p] = IF p = 0 THEN <<Idle>> ELSE << >>
      /\ vm.threads = <<Main, Idle>> /\ vm.freed = {} /\ vm.tr = Main
      /\ vm.mutexes = Mutex /\ vm.halt = "no"
  BY <1>2 DEF VM_THREAD_PRIORITY_NIL, VM_THREAD_PRIORITY_NORMAL
<1>5. Elems(<< >>) = {} /\ Elems(<<Idle>>) = {Idle} /\ Elems(<<Main, Idle>>) = {Main, Idle}
  BY DEF Elems
<1>6. 0 \in Priority /\ 2 \in Priority
  BY DEF Priority, VM_THREAD_PRIORITY_NIL, VM_THREAD_PRIORITY_HIGH
<1>7. vm \in VMState
  <2>1. <<Main, Idle>> \in Seq(Thread)
    BY <1>1
  <2>2. [t \in Thread |-> CASE t = Main -> "RUNNING" [] t = Idle -> "READY" [] OTHER -> "DEAD"]
          \in [Thread -> ThreadState]
    BY <1>1 DEF ThreadState
  <2>3. [p \in Priority |-> IF p = VM_THREAD_PRIORITY_NIL THEN <<Idle>> ELSE << >>]
          \in [Priority -> Seq(Thread)]
    BY <1>1
  <2> QED BY <1>1, <1>2, <1>3, <1>6, <2>1, <2>2, <2>3
          DEF VMState, VM_THREAD_PRIORITY_NIL, VM_THREAD_PRIORITY_NORMAL
<1>8. KernelInv(vm, NULL)
  <2>1. Typed(vm) /\ ReadyQueued(vm) /\ RunningIsTr(vm) /\ IdleRuns(vm)
    BY <1>1, <1>4, <1>5, <1>6, <1>7 DEF Typed, ReadyQueued, RunningIsTr, IdleRuns, Thread,
                                       VM_THREAD_PRIORITY_NIL
  <2>2. QueuedRunnable(vm, NULL) /\ Registered(vm)
    BY <1>1, <1>4, <1>5 DEF QueuedRunnable, Registered
  <2>3. MutexInv(vm) /\ DeadReleased(vm, NULL) /\ Dying(vm, NULL)
    BY <1>4, <1>5 DEF MutexInv, HeldOwned, HeldOnce, HeldNotAwaited, FreeUnqueued,
                      DeadReleased, Dying
  <2> QED BY <2>1, <2>2, <2>3 DEF KernelInv
<1>9. \A C : {Main, Idle} \subseteq C => Within(vm, C)
  BY <1>1, <1>4, <1>5, <1>7 DEF Within
<1> QED BY <1>1, <1>3, <1>4, <1>8, <1>9 DEF Machinery

\* Nothing has been called yet.
LEMMA InitIInv ==
  ASSUME Init PROVE IInv
<1>1. Machinery /\ Within(vm, Thread) /\ vm.tr = Main /\ vm.state[Main] = "RUNNING"
  BY InitMachinery
<1>2. /\ mask = {} /\ sigs = {} /\ pt = Main /\ cpu = Main /\ contexts = {Main, Idle}
      /\ stack = [t \in Thread |-> << >>]
      /\ asked = [t \in Thread |-> 0] /\ replies = << >> /\ pending = FALSE
      /\ leaked = FALSE /\ raced = FALSE /\ crossed = FALSE
  BY DEF Init
<1>3. /\ Main \in Thread /\ Idle \in Thread
      /\ MaxFrames \in Nat /\ MaxRequests \in Nat
  BY SignalsAssumption DEF Thread
<1>4. \A A : stack \in [Thread -> Seq(A)]
  BY <1>2
<1>5. \A t \in Thread : stack[t] = << >> /\ Len(stack[t]) = 0
  BY <1>2
<1>6. Types
  <2>1. stack \in [Thread -> Seq(Good)]
    BY <1>4
  <2>2. asked \in [Thread -> 0 .. MaxRequests]
    BY <1>2, <1>3
  <2>3. replies \in Seq(Thread) /\ Len(replies) <= MaxRequests
    BY <1>2, <1>3
  <2>4. /\ mask \subseteq Signal /\ sigs \subseteq Signal
        /\ pt \in Thread /\ cpu \in Thread /\ contexts \subseteq Thread
    BY <1>2, <1>3
  <2> QED BY <1>1, <1>2, <2>1, <2>2, <2>3, <2>4 DEF Types
<1>7. Depth /\ AppFirst /\ Past
  BY <1>3, <1>5 DEF Depth, AppFirst, Past
<1>8. ~ Suspended
  BY <1>2, <1>3, <1>5 DEF Suspended, Innermost
<1>9. Masked /\ NotBlocked
  BY <1>2, <1>4, <1>7, <1>8 DEF Masked, NotBlocked
<1>10. Works /\ Runner
  BY <1>1, <1>2, <1>3, <1>5 DEF Works, Runner
<1> QED BY <1>1, <1>2, <1>6, <1>7, <1>9, <1>10 DEF IInv, Whole

\* A step that changes nothing keeps the invariant.
LEMMA StutterIInv ==
  ASSUME IInv, UNCHANGED vars PROVE IInv'
<1> USE DEF vars, masks, switches, io, history
<1>1. Types' /\ Depth' /\ AppFirst'
  BY DEF IInv, Types, Depth, AppFirst
<1>2. Masked'
  BY DEF IInv, Masked, Past, Suspended, Innermost
<1>3. leaked' \/ NotBlocked'
  BY DEF IInv, NotBlocked, Suspended, Innermost
<1>4. raced' \/ Whole'
  BY DEF IInv, Whole, Machinery, Works, Runner, Busy
<1> QED BY <1>1, <1>2, <1>3, <1>4 DEF IInv

\* The invariant is inductive.
LEMMA NextIInv ==
  ASSUME IInv, [Next]_vars PROVE IInv'
<1> SUFFICES ASSUME Next PROVE IInv'
  BY StutterIInv
<1>1. Types /\ Types' /\ StackStep
  BY TypesStep, NextStacks DEF IInv
<1>2. Depth' /\ AppFirst' /\ Masked'
  BY <1>1, DepthStep, AppFirstStep, MaskedStep DEF IInv
<1>3. leaked' \/ NotBlocked'
  BY <1>1, NotBlockedStep DEF IInv
<1>4. raced' \/ Whole'
  BY <1>1, WholeStep, RacedStays DEF IInv
<1> QED BY <1>1, <1>2, <1>3, <1>4 DEF IInv

\* The invariant holds, for any number of threads, mutexes and nested calls.
THEOREM Invariance == Spec => []IInv
<1>1. Init => IInv
  BY InitIInv
<1>2. IInv /\ [Next]_vars => IInv'
  BY NextIInv
<1> QED BY <1>1, <1>2, PTL DEF Spec

\* The alarm is never left blocked, whatever interrupts what and however the
\* masks wander through sigs: only VMThreadState of a null pointer does it.
THEOREM AlarmEnabled == Spec => []TimeGoesOn
<1>1. IInv => TimeGoesOn
  BY DEF IInv, NotBlocked, TimeGoesOn
<1> QED BY <1>1, Invariance, PTL

\* Until one of three interleavings happens - an alarm in scheduler(), an alarm
\* in MachineContextCreate, an activation before setContext - the executing
\* stack is that of the running thread, a switch saves the context it should
\* and finds one to restore, and scheduler() finds a thread.
THEOREM ContextsApart == Spec => []SwitchesWhole
<1>1. IInv => SwitchesWhole
  <2>1. SUFFICES ASSUME IInv, ~ raced PROVE SwitchesWhole
    BY DEF SwitchesWhole
  <2>2. vm.halt = "no" /\ ~ crossed /\ Works /\ Types /\ cpu \in Thread
    BY <2>1 DEF IInv, Whole, Machinery, Types
  <2>3. DOMAIN stack[cpu] = 1 .. Len(stack[cpu])
    BY <2>2, StackOf
  <2> QED BY <2>2, <2>3 DEF Works, SwitchesWhole, Scheduling, Active, Busy, Runs
<1> QED BY <1>1, Invariance, PTL

\* Until then, a thread that is awakened by whomever is in its ready queue, and
\* the queues have no dead threads.
THEOREM NoWakeUpLost == Spec => []WokenAreQueued
<1>1. IInv => WokenAreQueued
  <2>1. SUFFICES ASSUME IInv, ~ raced PROVE WokenAreQueued
    BY DEF WokenAreQueued
  <2>2. KernelInv(vm, NULL) /\ vm \in VMState
    BY <2>1 DEF IInv, Whole, Machinery, Within
  <2>3. ReadyQueued(vm)
    BY <2>2 DEF KernelInv
  <2>4. ASSUME NEW p \in Priority, NEW t \in Elems(vm.readyQ[p])
        PROVE  vm.prio[t] = p /\ vm.state[t] # "DEAD"
    <3>1. t # NULL
      <4>1. vm.readyQ[p] \in Seq(Thread)
        BY <2>2 DEF VMState
      <4> QED BY <4>1, QueueType, ObjectAssumption
    <3> QED BY <2>2, <3>1 DEF KernelInv, QueuedRunnable
  <2> QED BY <2>3, <2>4 DEF WokenAreQueued, ReadyQueued
<1> QED BY <1>1, Invariance, PTL

\* Type correctness, with at most MaxFrames calls on a stack, also after a
\* race or a leak.
THEOREM SignalsTypeCorrect == Spec => []SignalsTypeOK
<1>1. IInv => SignalsTypeOK
  <2>1. SUFFICES ASSUME IInv PROVE SignalsTypeOK
    OBVIOUS
  <2>2. stack \in [Thread -> Seq(Frame)]
    <3>1. stack \in [Thread -> Seq(Good)] /\ Good \subseteq Frame
      BY <2>1 DEF IInv, Types, Good
    <3>2. \A t \in Thread : stack[t] \in Seq(Frame)
      <4>1. SUFFICES ASSUME NEW t \in Thread PROVE stack[t] \in Seq(Frame)
        OBVIOUS
      <4>2. stack[t] \in Seq(Good)
        BY <3>1
      <4> QED BY <3>1, <4>2, SeqMonotonic
    <3> QED BY <3>1, <3>2
  <2> QED BY <2>1, <2>2 DEF IInv, Types, Depth, Within, SignalsTypeOK
<1> QED BY <1>1, Invariance, PTL
=============================================================================
