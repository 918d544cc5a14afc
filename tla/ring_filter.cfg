SPECIFICATION Spec
CONSTANTS
  N = 3
  Ids <- BusIds
  FilterSpec = "CAN_SPEC_A"
  FilterId <- OnlyBit9
  FilterMask <- UpperBits
  Frames = 6
  Connections = 2
INVARIANTS
  DeliveredPassFilter
CHECK_DEADLOCK FALSE
