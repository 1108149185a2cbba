\* The scheduler and the mutexes with the calls that make waiting hard:
\* time-outs, attempts that fail, termination and reactivation of waiters,
\* deletion.
SPECIFICATION MCSpec
CONSTANTS
  Main = Main
  Idle = Idle
  NULL = NULL
  AppThread = {a, b}
  Mutex = {m}
  MainCalls = {"create", "activate", "terminate", "delete", "mutex_create", "mutex_delete", "acquire", "release"}
  AppCalls = {"acquire", "try_acquire", "release", "return"}
  AppPriority = {3}
  SleepTicks = {1}
  MainTicks = {0}
  QueueBound = 2
SYMMETRY Symmetry
INVARIANTS
  TypeOK
  OneRunning
  IdleAvailable
  ReadyIsQueued
  QueuedIsRunnable
  HeldByOwner
  FreeHasNoWaiters
  WaitersQueued
PROPERTIES
  SwitchesToHighest
  DeathReleases
  ImplementsMutexSpec
