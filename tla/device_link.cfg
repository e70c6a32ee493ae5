SPECIFICATION FairSpec
CONSTANTS
  MaxTransmits = 4
  ResponseSizes = {1, 3}
  MAX_RESPONSE = 3
  Faults = {"write", "read", "timer"}
INVARIANTS
  NothingLeftBehind
PROPERTIES
  TransmitIsOneExchange
  TransmitReturns
CHECK_DEADLOCK FALSE
