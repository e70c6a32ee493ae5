SPECIFICATION Spec
CONSTANTS
  h1 = h1
  h2 = h2
  s1 = s1
  s2 = s2
  o1 = o1
  o2 = o2
  a1 = a1
  z1 = z1
  RH_NULL = RH_NULL
  RS_PW = RS_PW
  Slots <- OneSlot
  Handles <- OneHandle
  Objects <- OneObject
  Secrets <- MCSecrets
  Codes = {"Unseal"}
  AuthOf <- MCAuthOf
  AuthValues <- MCAuthValues
  Salts <- NoSalts
  Algs = {"Sha256"}
  HostAlgs = {"Sha256"}
  MAX_TRANSIENT_RETRIES = 1
  NotReadyCodes = {2338}
  RefusalCodes <- MCRefusals
  Uses = {"session", "adopt", "none"}
  Faults = {"stale", "retag"}
  StaleKinds = {"plain"}
  MaxCalls = 2
  MaxRolls = 4
INVARIANT UnexpectedTagIsProtocolError
CHECK_DEADLOCK FALSE
