\* Two threads in VMThreadCreate at once.
SPECIFICATION MCSpec
CONSTANTS
  Main = Main
  Idle = Idle
  NULL = NULL
  AppThread = {a, b, c, d}
  Mutex = {}
  MainCalls = {"create", "activate"}
  AppCalls = {"create"}
  AppPriority = {2}
  SleepTicks = {1}
  MainTicks = {0}
  QueueBound = 3
PROPERTIES
  NextIDGrows
