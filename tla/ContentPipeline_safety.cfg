SPECIFICATION Spec
CONSTANTS
  c1 = c1
  c2 = c2
  Contents <- OneContent
  NumWorkers = 1
  MaxDeliveries = 2
INVARIANTS
  TypeOK
  OriginalNeverLost
  ReadyIsStored
  TranscodingIsTracked
  LocalKeptUntilTracked
  CalmDeleteLeavesNothing
PROPERTIES
  ReadyIsFinal
  ImplementsCustody
CHECK_DEADLOCK FALSE
