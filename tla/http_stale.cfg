SPECIFICATION Spec
CONSTANTS
  Changes <- SomeChanges
  PowerFails = 1
  Sockets = 1
  DATA_BUF_SIZE = 4
  Pages <- SomePages
  content_len <- Lengths
  Connections = 2
INVARIANTS
  RemainderToItsClient
CHECK_DEADLOCK FALSE
