SPECIFICATION Spec
CONSTANTS
  MaxTransmits = 2
  MaxPowerOns = 0
  CommandSizes = {1}
  ResponseSizes = {0, 1}
  MAX_RESPONSE = 2
  Localities = {0}
  Faults = {"oversized"}
INVARIANT OneResponseEach
CHECK_DEADLOCK FALSE
