SPECIFICATION Spec
CONSTANTS
  t1 = t1
  t2 = t2
  Threads <- OneThread
  Calls <- One
  MayOverlap <- OnePerFd
  Fds = {3, 4, 5}
  Slaves <- MCSlaves
  N = 3
  BlockMax = 2
  Span = 4
  Bytes = {0, 1}
  Garbage = {7}
  Failures = {"point"}
INVARIANT ReadByteReturnsItsRegister
