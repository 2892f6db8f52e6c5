\* Two connections, a server that repeats a NOTICE and sends a page nobody asked for.
CONSTANTS
  q1 = q1  q2 = q2  q3 = q3
  Queues = {q1}
  PullWorkers = {p1}
  BatchWorkers = {b1}
  MaxActiveQueues = 1
  PullRequestCapacity = 1
  BatchCapacity = 1
  Weights = {1}
  QueueBudget = 2
  ProcessQueueBudget = 2
  BatchBudget = 4
  MaxMessages <- TwoOne
  MaxGeneration = 2
  MaxRepeats = 1
  MaxPushes = 1
SPECIFICATION Spec
INVARIANTS NoNoticeLost BatchChargesExact
PROPERTY DeliveryInOrder
CHECK_DEADLOCK FALSE
