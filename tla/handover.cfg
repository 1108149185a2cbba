\* The hand-over of a mutex against the comment "case: timeout failure".
SPECIFICATION MCSpec
CONSTANTS
  Main = Main
  Idle = Idle
  NULL = NULL
  AppThread = {a}
  Mutex = {m}
  MainCalls = {"create", "activate", "mutex_create", "acquire", "release", "sleep"}
  AppCalls = {"acquire", "release"}
  AppPriority = {2}
  SleepTicks = {2}
  MainTicks = {0}
  QueueBound = 3
INVARIANTS
  FailsOnlyOnTimeout
