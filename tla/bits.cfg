SPECIFICATION Spec
CONSTANTS
  Pairs <- MCPairs
  Disturbed <- MCDisturbed
  LongGap = 10
INVARIANTS
  TypeOK
  TransmitsCanFrame
  ReceivesWhatWasSent
  PredictsCrcDelimiter
CHECK_DEADLOCK FALSE
