SPECIFICATION FairSpec
CONSTANTS
  Callers = {"a", "b"}
  Openers = {"a"}
  Places = {"usb1", "1-1"}
  Hub <- MCHub
  MaxAddress = 2
  MaxChanges = 2
  MaxSessions = 2
  Structs = {1, 2, 3, 4, 5, 6, 7, 8}
  Overlap = FALSE
  Others = {"add"}
  Failures = {"monitor", "scan", "io"}
INVARIANTS DevicesAreHeld WhatDiffersIsUnread
PROPERTIES OpensTheListed ListsFollowTheBus
