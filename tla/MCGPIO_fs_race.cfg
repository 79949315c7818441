SPECIFICATION Spec
CONSTANTS
  t1 = t1
  t2 = t2
  NoOwner = NoOwner
  Owners <- TwoThreads
  Threads <- TwoThreads
  Pins <- FsRacePins
  Calls <- FsRaceCalls
  MayOverlap <- Anything
  MaxFd = 2
  Inputs = {}
  Failures = {}
INVARIANT
  OpensCorrespondingFile
