SPECIFICATION Spec
CONSTANTS
  t1 = t1
  t2 = t2
  Threads <- TwoThreads
  Calls <- FewPwmCalls
  MayOverlap <- OnePathPerBuffer
  Existing <- MCExisting
  Levels = {3}
  Garbage <- MCGarbage
  Failures = {"store"}
INVARIANTS TrueMeansHeld
