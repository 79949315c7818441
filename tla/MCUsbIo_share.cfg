SPECIFICATION FairSpec
CONSTANTS
  t1 = t1  t2 = t2  t3 = t3
  Threads = {t1, t2}
  Timed = {t1}
  Failing = {t1}
  Closers = {t2}
  Outcomes = {"COMPLETED"}
  ExpireDuringSubmit = FALSE
INVARIANTS PipeAndPollAreTrue RefsMatchHolders
PROPERTIES ImplementsCalls EveryCallReturns
