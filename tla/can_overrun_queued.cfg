SPECIFICATION Spec
CONSTANTS
  Msg <- AllMsgs
  PeerMsgs <- OtherMsgs
  AppMsgs <- OneMsg
  PeerFrames = 1
  Faults = 0
  Overruns = 1
  Wraps = 0
  FifoCap = 6
  QueueLen = 2
  PosMod = 4
  AppSends = 1
  SameCore = TRUE
  Slack = 2
  NoMsg = NoMsg
INVARIANTS
  QueuedIsArmed
CHECK_DEADLOCK FALSE
