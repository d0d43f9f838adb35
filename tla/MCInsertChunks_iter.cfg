SPECIFICATION Spec
CONSTANTS
  Cases <- Iterators
  INSERT_BLOCK_SIZE = 2
  FetchSizes = {1, 2}
  NanoDigits = 2
  StampMod = 64
  DayMod = 64
  IntMod = 4096
  IndexMax <- MCIndexMax
INVARIANT IterRight
CHECK_DEADLOCK FALSE
