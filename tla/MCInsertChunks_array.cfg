SPECIFICATION Spec
CONSTANTS
  Cases <- LongArrays
  INSERT_BLOCK_SIZE = 2
  FetchSizes = {1, 2}
  NanoDigits = 2
  StampMod = 64
  DayMod = 64
  IntMod = 4096
  IndexMax <- MCIndexMax
INVARIANTS StoredAsPushed
CHECK_DEADLOCK FALSE
