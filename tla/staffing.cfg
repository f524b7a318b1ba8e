SPECIFICATION MCSpec
CONSTANTS
  e1 = e1
  k1 = k1
  k2 = k2
  k3 = k3
  c1 = c1
  s1 = s1
  s2 = s2
  Employees = {e1}
  Keys = {k1, k2, k3}
  Clients = {c1}
  Sessions = {s1, s2}
  MaxDay = 2
  MaxLines = 3
  MaxPool = 3
  MaxTrail = 2
  NewAssignments <- MCNewAssignments
  Updates <- MCUpdates
  Windows <- MCWindows
  PoolEdits = TRUE
  Followed = {"promoted"}
SYMMETRY Symmetric
INVARIANTS
  LimitsHold
  TrailTellsAll
  BookedOnce
CHECK_DEADLOCK FALSE
