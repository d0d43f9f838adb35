SPECIFICATION FairSpec
CONSTANTS
  Tasks = {p1, p2, p3}
  Conns = {c1, c2}
  None = None
  Min = 1
  Max = 2
  SendRetries = 1
  PingBeforeQuery = {FALSE}
  PingMayTimeOut = TRUE
  Direct = FALSE
  Cancellation = FALSE
  MaxFaults = 1
PROPERTIES CheckEnds
