SPECIFICATION Spec
CONSTANTS
  Tasks = {p1}
  Conns = {c1}
  None = None
  Min = 1
  Max = 1
  SendRetries = 1
  PingBeforeQuery = {TRUE}
  PingMayTimeOut = FALSE
  Direct = FALSE
  Cancellation = FALSE
  MaxFaults = 1
INVARIANTS NoUnreachable
