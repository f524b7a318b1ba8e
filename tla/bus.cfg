SPECIFICATION FairSpec
CONSTANTS
  Requests <- MCRequests
  MaxEvents = 2
  Hooked = TRUE
INVARIANTS
  HandledOnce
  ExactlyCommitted
  InOrder
PROPERTIES
  CommittedIsHandled
CHECK_DEADLOCK FALSE
