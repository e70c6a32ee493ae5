SPECIFICATION FairSpec
CONSTANTS
  MaxTransmits = 2
  MaxPowerOns = 2
  CommandSizes = {1, 2}
  ResponseSizes = {0, 2}
  MAX_RESPONSE = 2
  Localities = {3}
  Faults = {"break", "refused"}
INVARIANTS
  TypeOK
  PowerComesFirst
PROPERTIES
  TransmitIsOneExchange
  TransmitReturns
CHECK_DEADLOCK FALSE
