SPECIFICATION FairSpec
CONSTANTS
  c1 = c1
  c2 = c2
  Contents <- OneContent
  NumWorkers = 1
  MaxDeliveries = 2
PROPERTIES
  UploadBecomesReady
CHECK_DEADLOCK FALSE
