SPECIFICATION SerialSpec
CONSTANTS
  WorkOrderIds = {"w1", "w2"}
  s1 = s1
  s2 = s2
  Sessions = {s1, s2}
  ClientConfigs <- ResumableConfigs
  NewRows <- MCNewRows
  Edits <- MCEdits
  StatementFaults = {"w2"}
  MaxLog = 3
SYMMETRY SymmetricSessions
INVARIANTS
  StatusExplained
  HoldRemembers
PROPERTIES
  FollowsLifecycle
  TerminalIsFinal
  GatesHold
