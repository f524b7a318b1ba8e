SPECIFICATION SchedulingSpec
CONSTANTS
  Orders = {1, 2, 3}
  Lines = {1, 2}
  Schedules = {1}
  s1 = s1
  s2 = s2
  Planners = {s1, s2}
  LastDay = 2
  Demands <- MCDemands
  Rates <- MCRates
SYMMETRY SymmetricPlanners
CHECK_DEADLOCK FALSE
INVARIANTS
  WithinCapacity
  UrgentFirst
  CommitmentsStored
PROPERTY
  CommittedStays
