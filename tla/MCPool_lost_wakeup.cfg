SPECIFICATION FairSpec
CONSTANTS
  Tasks = {t1, t2}
  NoTask = NoTask
  Min = 1
  Max = 1
  PollBudget = 4
  SingleThreaded = FALSE
  Cancellation = FALSE
PROPERTY WaiterProgress
