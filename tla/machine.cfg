\* Three clients, waiting reads on two descriptors, shutdown and crash.
SPECIFICATION MCSpec
CONSTANTS
  NULL = NULL
  Client = {a, b, c}
  FD = {f, g}
  Modulus = 5
  MaxRequests = 4
  Crash = TRUE
  Terminates = TRUE
SYMMETRY Symmetry
INVARIANTS
  TypeOK
  RequestsKept
  SignalsMatchMessages
PROPERTIES
  ImplementsIOChannel
