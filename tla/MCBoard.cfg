SPECIFICATION BoardSpec
CONSTANTS
  t1 = t1
  t2 = t2
  NoOwner = NoOwner
  Threads <- TwoThreads
  Calls <- MCCalls
  MayOverlap <- PointerKept
  Fds = {3, 4, 5}
  Slaves <- MCSlaves
  N = 3
  BlockMax = 2
  Span = 4
  Bytes = {0, 1}
  Garbage = {7}
  Failures = {"slave", "transfer"}
INVARIANTS
  TransfersAreTrue
  HandlesServeTheirDevices
  PrivateFd
  OnlyRefusedWritesLeak
  PinsNameTheirLines
PROPERTY OnlyAskedRegistersChange
