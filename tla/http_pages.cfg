SPECIFICATION FairSpec
CONSTANTS
  Changes <- SomeChanges
  PowerFails = 1
  Sockets = 2
  DATA_BUF_SIZE = 4
  Pages <- SomePages
  content_len <- Lengths
  Connections = 3
INVARIANTS
  TypeOK
  FileStateSound
  PageInParts
  RunsOnStoredConfig
  AnsweredIsStored
PROPERTIES
  RequestEnds
CHECK_DEADLOCK FALSE
