SPECIFICATION FairSpec
CONSTANTS
  MaxChunks = 4
  MaxSize = 3
INVARIANTS TypeOK AtIsExact EndToEnd
PROPERTIES SearchEnds
CHECK_DEADLOCK FALSE
