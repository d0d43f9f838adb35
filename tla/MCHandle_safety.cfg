SPECIFICATION Spec
CONSTANTS
  Tasks = {p1, p2}
  Conns = {c1, c2, c3}
  None = None
  Min = 1
  Max = 2
  SendRetries = 1
  PingBeforeQuery = {TRUE, FALSE}
  PingMayTimeOut = TRUE
  Direct = TRUE
  Cancellation = TRUE
  MaxFaults = 3
SYMMETRY Symmetry
INVARIANTS TypeOK Accounting DetachedIsEmpty ReconnectsEmptyHanded
