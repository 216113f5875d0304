SPECIFICATION Spec
CONSTANTS
  c1 = c1
  c2 = c2
  Contents <- OneContent
  NumWorkers = 1
  MaxDeliveries = 1
PROPERTIES
  CleanedAfterDeletion
CHECK_DEADLOCK FALSE
