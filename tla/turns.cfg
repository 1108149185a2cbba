\* Waits with a tick count end, and threads of the highest priority take turns.
SPECIFICATION MCFairSpec
CONSTANTS
  Main = Main
  Idle = Idle
  NULL = NULL
  AppThread = {a, b}
  Mutex = {m}
  MainCalls = {"create", "activate", "mutex_create"}
  AppCalls = {"sleep", "yield", "acquire", "release"}
  AppPriority = {3}
  SleepTicks = {1, 2}
  MainTicks = {0}
  QueueBound = 3
PROPERTIES
  TimeoutsExpire
  HighPriorityRuns
