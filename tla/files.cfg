\* The file functions, lengths around the chunk; no request fails.
SPECIFICATION MCFileSpec
CONSTANTS
  Main = Main
  Idle = Idle
  NULL = NULL
  AppThread = {a}
  Mutex = {}
  MainCalls = {"create", "activate"}
  AppCalls = {"sleep"}
  AppPriority = {1, 2}
  SleepTicks = {1}
  MainTicks = {0}
  FileCalls = {"open", "close", "seek", "read", "read_fat", "write"}
  Buffer = {p, q}
  Chunk = 2
  Lengths = {0, 1, 2, 3}
  Faults = FALSE
  QueueBound = 4
  RequestBound = 3
SYMMETRY Symmetry
INVARIANTS
  FileTypeOK
  NothingBeforeReply
  RepliesFindTheirThread
PROPERTIES
  TransfersAll
