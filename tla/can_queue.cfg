SPECIFICATION Spec
CONSTANTS
  Msg <- AllMsgs
  PeerMsgs <- OtherMsgs
  AppMsgs <- OwnMsgs
  PeerFrames = 0
  Faults = 0
  Overruns = 0
  Wraps = 0
  FifoCap = 6
  QueueLen = 2
  PosMod = 4
  AppSends = 5
  SameCore = FALSE
  Slack = 2
  NoMsg = NoMsg
INVARIANTS
  TypeOK
  QueueSound
  WakeupPending
PROPERTIES
  FifoSpec
CHECK_DEADLOCK FALSE
