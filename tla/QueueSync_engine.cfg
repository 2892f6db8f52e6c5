\* One connection: two queues compete for one active slot and for the budgets.
CONSTANTS
  q1 = q1  q2 = q2  q3 = q3
  Queues = {q1, q2}
  PullWorkers = {p1, p2}
  BatchWorkers = {b1}
  MaxActiveQueues = 1
  PullRequestCapacity = 1
  BatchCapacity = 1
  Weights = {1, 2}
  QueueBudget = 3
  ProcessQueueBudget = 2
  BatchBudget = 2
  MaxMessages <- TwoOne
  MaxGeneration = 1
  MaxRepeats = 0
  MaxPushes = 0
SPECIFICATION Spec
INVARIANTS ActiveCountExact DeferredRingExact  PullIsTimed QueueChargesExact NoReplayBelowCursor
SYMMETRY Symmetry
CHECK_DEADLOCK FALSE
