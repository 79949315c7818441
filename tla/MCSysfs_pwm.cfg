SPECIFICATION Spec
CONSTANTS
  t1 = t1
  t2 = t2
  Threads <- TwoThreads
  Calls <- AllCalls
  MayOverlap <- OnePathPerBuffer
  Existing <- MCExisting
  Levels = {3}
  Garbage <- MCGarbage
  Failures = {"fopen"}
INVARIANTS TypeOK TrueMeansHeld GetsReturnHeldValues
PROPERTY OnlyAskedValuesStored
