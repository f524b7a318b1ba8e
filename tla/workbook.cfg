SPECIFICATION MCSpec
CONSTANTS
  c1 = c1
  c2 = c2
  Clients = {c1, c2}
  Order <- MCOrder
  Unlisted = {"inputs"}
  Analysed = {"scenarios"}
  Runs = {1, 2}
  MaxHistory = 2
  MaxActs = 3
INVARIANTS
  SavesOwnRows
  CleanIsAccepted
PROPERTIES
  SavedAllOrSaid
  SavingEnds
CHECK_DEADLOCK FALSE
