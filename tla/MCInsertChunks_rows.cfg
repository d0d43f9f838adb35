SPECIFICATION Spec
CONSTANTS
  Cases <- Rows_
  INSERT_BLOCK_SIZE = 2
  FetchSizes = {1, 2}
  NanoDigits = 2
  StampMod = 64
  DayMod = 64
  IntMod = 4096
  IndexMax <- MCIndexMax
INVARIANT StoredAsPushed
CHECK_DEADLOCK FALSE
