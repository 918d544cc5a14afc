SPECIFICATION Spec
CONSTANTS
  Msg <- AllMsgs
  PeerMsgs <- OtherMsgs
  AppMsgs <- OwnMsgs
  PeerFrames = 1
  Faults = 0
  Overruns = 0
  Wraps = 0
  FifoCap = 6
  QueueLen = 2
  PosMod = 4
  AppSends = 1
  SameCore = TRUE
  Slack = 2
  NoMsg = NoMsg
INVARIANTS
  TxConfirmedIsAcked
CHECK_DEADLOCK FALSE
