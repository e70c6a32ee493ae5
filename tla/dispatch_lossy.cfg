SPECIFICATION FairSpec
CONSTANTS
  h1 = h1
  h2 = h2
  s1 = s1
  s2 = s2
  o1 = o1
  o2 = o2
  a1 = a1
  z1 = z1
  RH_NULL = RH_NULL
  RS_PW = RS_PW
  Slots <- OneSlot
  Handles <- TwoHandles
  Objects <- OneObject
  Secrets <- MCSecrets
  Codes = {"Unseal"}
  AuthOf <- MCAuthOf
  AuthValues <- RightAuthOnly
  Salts <- NoSalts
  Algs = {"Sha256", "Sha512"}
  HostAlgs = {"Sha256"}
  MAX_TRANSIENT_RETRIES = 1
  NotReadyCodes = {2338}
  RefusalCodes <- MCRefusals
  Uses = {"start", "none", "session"}
  Faults = {"lost", "garble", "retag"}
  StaleKinds = {}
  MaxCalls = 3
  MaxRolls = 2
INVARIANTS
  ResultTellsExecution
  PatienceExhausted
  LostSessionsAreReported
PROPERTIES
  RunKeepsItsPromise
  CallsReturn
CHECK_DEADLOCK FALSE
