SPECIFICATION Spec
CONSTANTS
  tf = tf
  mc = mc
  s1 = s1
  s2 = s2
  a1 = a1
  a2 = a2
  r1 = r1
  r2 = r2
  Questions <- BothKinds
  TrueFalse <- OnlyTrueFalse
  Arrays <- TwoArrays
  Subscriptions <- OneStudent
  Attempts <- TwoAttempts
  Requests <- OneRequest
  MaxEdits = 1
PROPERTIES
  RetakeOnlyIfAllowed
CHECK_DEADLOCK FALSE
