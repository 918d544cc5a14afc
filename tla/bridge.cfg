SPECIFICATION FairSpec
CONSTANTS
  N = 2
  Ids <- BusIds
  FilterSpec = "CAN_SPEC_A"
  FilterId <- OnlyBit9
  FilterMask <- UpperBits
  Frames = 2
  Connections = 2
  Segments <- Pieces
  RxSize = 19
  BufSize = 19
  Behind <- Texts
  Commands <- SomeCommands
INVARIANTS
  TypeOK
  FirstCommandDecidesUnheard
  FramesOfThisConnection
  ClearedOnlyByReset
PROPERTIES
  Served
CHECK_DEADLOCK FALSE
