SPECIFICATION FairSpec
CONSTANTS
  MaxLen = 6
  WordMax = 1000
INVARIANTS
  TypeOK
  FrameOnTheWire
  ReadsWhatTheChipSent
  HeaderPairing
PROPERTIES
  AccessEnds
