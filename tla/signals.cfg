\* Signals, masks and context switches: main, idle and one more thread.
SPECIFICATION Spec
CONSTANTS
  Main = Main
  Idle = Idle
  AppThread = {a}
  Mutex = {m}
  NULL = NULL
  NewPriority <- MCPriority
  Calls <- AllCalls
  MaxFrames = 3
  MaxRequests = 1
INVARIANT SignalsTypeOK
INVARIANT TimeGoesOn
INVARIANT SwitchesWhole
 
CONSTRAINT FewFrames
CONSTRAINT FewRequests
CONSTRAINT FewReads
CONSTRAINT FewUsers
CONSTRAINT ShortQueues
CONSTRAINT Undisturbed
\* The model stops when two contexts share a stack, and the system does when
\* a function returned with all signals suspended and nothing more is asked.
CHECK_DEADLOCK FALSE
