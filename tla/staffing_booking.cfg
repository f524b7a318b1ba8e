SPECIFICATION MCSpec
CONSTANTS
  e1 = e1
  k1 = k1
  c1 = c1
  c2 = c2
  s1 = s1
  Employees = {e1}
  Keys = {k1}
  Clients = {c1, c2}
  Sessions = {s1}
  MaxDay = 2
  MaxLines = 0
  MaxPool = 3
  MaxTrail = 0
  NewAssignments <- MCNewAssignments
  Updates <- MCUpdates
  Windows <- MCWindows
  PoolEdits = FALSE
  Followed = {"crowded"}
INVARIANTS
  NoDoubleBooking
CHECK_DEADLOCK FALSE
