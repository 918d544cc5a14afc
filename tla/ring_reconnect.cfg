SPECIFICATION Spec
CONSTANTS
  N = 3
  Ids <- BusIds
  FilterSpec = "CAN_SPEC_A"
  FilterId <- OnlyBit9
  FilterMask <- UpperBits
  Frames = 8
  Connections = 2
INVARIANTS
  TypeOK
  DeliveredInOrder
  FirstConnectionPassesFilter
PROPERTIES
  RingIsFifo
CHECK_DEADLOCK FALSE
