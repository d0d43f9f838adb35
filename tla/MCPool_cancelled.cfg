SPECIFICATION FairSpec
CONSTANTS
  Tasks = {t1, t2}
  NoTask = NoTask
  Min = 1
  Max = 1
  PollBudget = 4
  SingleThreaded = TRUE
  Cancellation = TRUE
PROPERTY WaiterProgress
