SPECIFICATION Spec
CONSTANTS
  MaxCalls = 4
  MaxEvents = 1
  MaxFailed = 2
  Handles = {h1, h2}
  Sha1 = Sha1
  Sha256 = Sha256
  Banks <- MCBanks
  Allocated = {Sha256}
  Extended <- MCExtended
  Selections <- MCSelections
  Auths = {"password", "session"}
  Clients = {{"objects"}, {"pcr"}, {"misc"}}
SYMMETRY HandleSymmetry
INVARIANTS
  StrandedOnlyAfterError
  KeptUntilFlushed
  UnsealGivesWhatWasSealed
  ExtendedOnceInOrder
  ValuesMatchSelection
CHECK_DEADLOCK FALSE
