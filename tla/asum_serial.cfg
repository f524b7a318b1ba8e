SPECIFICATION SerialSpec
CONSTANTS
  i1 = i1
  i2 = i2
  n1 = n1
  v1 = v1
  v2 = v2
  s1 = s1
  a = a
  Ids = {i1, i2}
  Names = {n1}
  Values = {v1, v2}
  MaxDate = 2
  Admins = {a}
  PowerUsers = {}
  Sessions = {s1}
  MaxLog = 3
SYMMETRY Symmetric
INVARIANTS
  HistoryChains
  AtMostOneInEffect
PROPERTIES
  ReviewedIsFrozen
  FollowsLifecycle
CHECK_DEADLOCK FALSE
