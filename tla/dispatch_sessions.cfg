SPECIFICATION Spec
CONSTANTS
  h1 = h1
  h2 = h2
  s1 = s1
  s2 = s2
  o1 = o1
  o2 = o2
  a1 = a1
  z1 = z1
  RH_NULL = RH_NULL
  RS_PW = RS_PW
  Slots <- OneSlot
  Handles <- OneHandle
  Objects <- TwoObjects
  Secrets <- MCSecrets
  Codes = {"Unseal"}
  AuthOf <- MCAuthOf
  AuthValues <- MCAuthValues
  Salts <- MCSalts
  Algs = {"Sha256"}
  HostAlgs = {"Sha256"}
  MAX_TRANSIENT_RETRIES = 0
  NotReadyCodes = {2338}
  RefusalCodes = {}
  Uses = {"start", "flush", "session", "adopt", "attributes"}
  Faults = {"lost", "garble", "shared"}
  StaleKinds = {}
  MaxCalls = 2
  MaxRolls = 3
INVARIANTS
  AuthDecidesAcceptance
  OutOfStepOnlyAfterLostReply
CHECK_DEADLOCK FALSE
