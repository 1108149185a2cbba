----------------------------- MODULE IOChannel -----------------------------
(***************************************************************************)
(* What the machine promises the virtual machine about input and output:   *)
(* each request is answered once and its callback runs once, with the      *)
(* calldata of that request.  Requests of one class are answered in the    *)
(* order they were made: those the child executes at once are a class, and *)
(* the reads that wait for one descriptor are a class.  Callbacks run in   *)
(* the order of the answers.                                               *)
(***************************************************************************)
EXTENDS Sequences

CONSTANTS
  Class,
  Request   \* requests, records with a field class

VARIABLES
  asked,    \* of each class, the requests that are not answered, in the order
            \* they came
  answers   \* the requests answered whose callback has not run

vars == <<asked, answers>>

Init == asked = [c \in Class |-> << >>] /\ answers = << >>

Ask(r) ==
  /\ asked' = [asked EXCEPT ![r.class] = Append(@, r)]
  /\ UNCHANGED answers

\* The oldest request of class c is answered.
Answer(c) ==
  /\ asked[c] # << >>
  /\ asked' = [asked EXCEPT ![c] = Tail(@)]
  /\ answers' = Append(answers, Head(asked[c]))

\* The callback of r runs.
Deliver(r) ==
  /\ answers # << >>
  /\ r = Head(answers)
  /\ answers' = Tail(answers)
  /\ UNCHANGED asked

\* The machine is gone, and with it what it had not delivered.
Close == asked' = [c \in Class |-> << >>] /\ answers' = << >>

Next ==
  \/ \E r \in Request : Ask(r) \/ Deliver(r)
  \/ \E c \in Class : Answer(c)
  \/ Close

Spec == Init /\ [][Next]_vars
=============================================================================
