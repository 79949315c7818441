SPECIFICATION SumSpec
CONSTANTS
  Threads = {"t1", "t2", "t3"}
  Handles = {"h", "g"}
  HandleOf <- MCHandleOf
  MaxInterface = 1
  Native = {0}
  MaxLoads = 1
  MaxResets = 1
  DetachOverlaps = FALSE
  CallsOverlap = FALSE
INVARIANTS
  FreedOnlyWhenRetired
  ReportIsTrue
  ClaimsAndDriversAgree
  ConfigurationsAreTrue
  NothingLostOrReordered
PROPERTIES
  EveryTransferEnds
  EveryReadReturns
  NothingIsLostInSilence
CHECK_DEADLOCK FALSE
