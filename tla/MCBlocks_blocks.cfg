SPECIFICATION Spec
CONSTANTS
  Nested = {"n"}
  Dictionary = {"d"}
  Flat = {"f"}
  GivenRows <- MCRows
  Columnwise = {"n", "d"}
  Clones = TRUE
  MaxRows = 2
  MaxData = 7
INVARIANTS TypeOK Isolated ElementsMatch Rectangular
PROPERTY AcceptsRows
CHECK_DEADLOCK FALSE
