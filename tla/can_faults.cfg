SPECIFICATION FairSpec
CONSTANTS
  Msg <- AllMsgs
  PeerMsgs <- UrgentMsg
  AppMsgs <- OneMsg
  PeerFrames = 1
  Faults = 1
  Overruns = 0
  Wraps = 1
  FifoCap = 6
  QueueLen = 2
  PosMod = 4
  AppSends = 1
  SameCore = TRUE
  Slack = 2
  NoMsg = NoMsg
INVARIANTS
  RxOnceAndValid
  OwnFrameNotReceived
  AckedIsDelivered
  NoLostWakeup
PROPERTIES
  EveryMessageConfirmed
CHECK_DEADLOCK FALSE
