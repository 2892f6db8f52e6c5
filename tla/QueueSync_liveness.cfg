\* Fair schedules: messages get through a lost connection, a silent server and a shared slot.
CONSTANTS
  q1 = q1  q2 = q2  q3 = q3
  Queues = {q1, q2}
  PullWorkers = {p1}
  BatchWorkers = {b1}
  MaxActiveQueues = 1
  PullRequestCapacity = 1
  BatchCapacity = 1
  Weights = {1}
  QueueBudget = 2
  ProcessQueueBudget = 2
  BatchBudget = 2
  MaxMessages <- One
  MaxGeneration = 2
  MaxRepeats = 0
  MaxPushes = 0
SPECIFICATION FairSpec
PROPERTIES EveryMessageHandled CloseReleasesAll
CHECK_DEADLOCK FALSE
