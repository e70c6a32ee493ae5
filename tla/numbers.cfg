SPECIFICATION Spec
CONSTANTS
  MaxCode = 4095
  MaxBits = 600
INVARIANTS
  ParameterAndHandleCodesDecode
  OnlyWarningsAreResubmitted
  DigestListsAgree
  KdfaIsTheStandard
CHECK_DEADLOCK FALSE
