SPECIFICATION Spec
CONSTANTS
  capacity = 1
  AVG_STR_SIZE = 3
  MaxStrings = 5
  MaxLen = 4
INVARIANTS TypeOK ReadsOwnBytes
PROPERTY ReservesOnce
CHECK_DEADLOCK FALSE
