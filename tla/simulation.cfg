SPECIFICATION FairSimulationSpec
CONSTANTS
  Tools <- MCTools
  Route <- MCRoute
  Demand <- MCDemand
  MixDriven = FALSE
  Total = 0
  HorizonDays = 2
  WorkDays = 4
  BreakDowns = {"press"}
INVARIANTS
  CountersAgree
  MachinesShared
  DemandMet
PROPERTIES
  Drains
CHECK_DEADLOCK FALSE
