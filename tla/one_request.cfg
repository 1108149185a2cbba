\* One client: a request is answered before the next one is made.
SPECIFICATION MCFairSpec
CONSTANTS
  NULL = NULL
  Client = {a}
  FD = {f}
  Modulus = 4
  MaxRequests = 4
  Crash = TRUE
  Terminates = TRUE
PROPERTIES
  CallbackRuns
  TerminateReturnsWhenIdle
  ChildFollowsParent
