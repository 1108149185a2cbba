\* A reply that is never handled, since its signal stays blocked.
SPECIFICATION FairSpec
CONSTANTS
  Main = Main
  Idle = Idle
  AppThread = {a}
  Mutex = {}
  NULL = NULL
  NewPriority <- MCPriority
  Calls <- FewCalls
  MaxFrames = 1
  MaxRequests = 1
PROPERTY ReplyHandled
CHECK_DEADLOCK FALSE
