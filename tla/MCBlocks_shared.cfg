SPECIFICATION Spec
CONSTANTS
  Nested = {}
  Dictionary = {"d"}
  Flat = {"f"}
  GivenRows <- MCEvenRows
  Columnwise = {"d"}
  Clones = TRUE
  MaxRows = 3
  MaxData = 10
INVARIANTS NeverShared
CHECK_DEADLOCK FALSE
