SPECIFICATION Spec
CONSTANTS
  B = 12
  Lengths = {0, 1, 143}
  CreateLengths = {0, 3, 100, 139, 140, 144}
  MaxFields = 2
  Inputs <- CodecInputs
INVARIANTS
  RoundTrip
  CutIsMalformed
  NeverAnotherObject
  OnePcrSelected
CHECK_DEADLOCK FALSE
