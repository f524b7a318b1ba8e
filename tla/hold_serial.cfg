SPECIFICATION SerialSpec
CONSTANTS
  h1 = h1
  h2 = h2
  Holds = {h1, h2}
  s1 = s1
  s2 = s2
  Sessions = {s1, s2}
  MaxDay = 3
  FutureDates = FALSE
  MaxLog = 5
INVARIANTS
  HistoryChains
  AgingAgrees
PROPERTIES
  FollowsLifecycle
  PastIsSettled
CHECK_DEADLOCK FALSE
