SPECIFICATION FairSpec
CONSTANTS
  Tasks = {t1, t2, t3}
  NoTask = NoTask
  Min = 1
  Max = 2
  PollBudget = 1
  SingleThreaded = TRUE
  Cancellation = FALSE
INVARIANTS NoStranded
PROPERTY WaiterProgress
