SPECIFICATION LinesSpec
CONSTANTS
  t1 = t1
  t2 = t2
  NoOwner = NoOwner
  Owners <- TwoThreads
  Threads <- TwoThreads
  Pins <- LinesPins
  Calls <- LinesCalls
  MayOverlap <- Anything
  MaxFd = 1
  Inputs <- InputP9_12
  Failures = {"mmap", "export"}
INVARIANTS
  TypeOK
  NoWildAccess
  DevMemKept
PROPERTIES
  OnlyAskedLinesChange
  ForeignFdsKept
  ImplementsAtomicLines
