SPECIFICATION Spec
CONSTANTS
  u1 = u1
  u2 = u2
  c1 = c1
  c2 = c2
  r1 = r1
  r2 = r2
  Users <- TwoUsers
  Admins <- OneAdmin
  Contents <- OneContent
  Requests <- TwoRequests
  MaxSubs = 2
SYMMETRY Symmetry
INVARIANTS
  TypeOK
  SubscribedOnce
  CompletedKept
PROPERTIES
  UnsubscribedIsOut
  DeletionSucceeds
CHECK_DEADLOCK FALSE
