SPECIFICATION FairSpec
CONSTANTS
  Kinds <- StallKinds
  MaxBulk = 2
  MaxIso = 4
  Refusals = {"memory"}
  FaultsEarly = FALSE
INVARIANT FreedOnlyWhenRetired
