SPECIFICATION Spec
CONSTANTS
  Nested = {"n"}
  Dictionary = {"d"}
  Flat = {"f"}
  GivenRows <- MCRows
  Columnwise = {}
  Clones = FALSE
  MaxRows = 3
  MaxData = 10
INVARIANTS AlwaysRectangular
CHECK_DEADLOCK FALSE
