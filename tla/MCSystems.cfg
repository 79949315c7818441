SPECIFICATION SumSpec
CONSTANTS
  Devices = {"d"}
  Callbacks = {1, 2}
  Inside = {1}
  Wanted <- MCWanted
  Events <- MCEvents
  Enumerate = {1, 2}
  Finishing = {1}
  NoMemory = {2}
  Hasty = FALSE
INVARIANTS
  CallbacksAreToldTheTruth
  DescriptorsServeTheirDevice
  WaitsAreKnown
  InterfacesServeTheirTransfers
  CacheIsTrue
  

  
CHECK_DEADLOCK FALSE
