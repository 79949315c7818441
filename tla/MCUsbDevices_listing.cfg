SPECIFICATION Spec
CONSTANTS
  Callers = {"a"}
  Openers = {}
  Places = {"usb1", "1-1"}
  Hub <- MCHub
  MaxAddress = 3
  MaxChanges = 2
  MaxSessions = 1
  Structs = {1, 2, 3, 4}
  Overlap = FALSE
  Others = {"add", "remove"}
  Failures = {}
PROPERTY ListIsTheBus
