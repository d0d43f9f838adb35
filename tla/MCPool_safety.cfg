SPECIFICATION Spec
CONSTANTS
  Tasks = {t1, t2, t3}
  NoTask = NoTask
  Min = 1
  Max = 2
  PollBudget = 1
  SingleThreaded = FALSE
  Cancellation = TRUE
SYMMETRY Symmetry
INVARIANTS TypeOK Accounting WithinMax NoFallback
PROPERTY ImplementsAbs
