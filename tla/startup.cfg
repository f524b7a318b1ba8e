SPECIFICATION FairSpec
CONSTANTS
  Workers <- MCWorkers
  Expected <- MCExpected
  Others <- MCOthers
  Batches = 3
  MaxFaults = 2
INVARIANTS
  OneSeeder
  ServesWhole
PROPERTIES
  WholeIsKept
  Completes
CHECK_DEADLOCK FALSE
