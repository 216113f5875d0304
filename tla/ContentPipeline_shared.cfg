SPECIFICATION SharedQueueSpec
CONSTANTS
  c1 = c1
  c2 = c2
  Contents <- TwoContents
  NumWorkers = 1
  MaxDeliveries = 2
PROPERTIES
  QueueDrains
CHECK_DEADLOCK FALSE
