SPECIFICATION Spec
CONSTANTS
  MaxCode = 4095
  MaxBits = 0
INVARIANT SessionNumbersDecode
CHECK_DEADLOCK FALSE
