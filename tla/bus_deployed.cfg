SPECIFICATION FairSpec
CONSTANTS
  Requests = {"schedule"}
  MaxEvents = 1
  Hooked = FALSE
PROPERTIES
  CommittedIsHandled
CHECK_DEADLOCK FALSE
