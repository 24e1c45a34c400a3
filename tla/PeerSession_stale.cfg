\* The application never passes force = true.
SPECIFICATION SessionSpec
CONSTANTS
  Param = {p1}
  DefaultParam = p1
  NoParam = NoParam
  NoResponse = NoResponse
  Wanted = {"keyboard"}
  MayLoseReady = FALSE
  MaxQueue = 2
  MaxGeneration = 3
  MaxFailures = 1
  Forced = {FALSE}
  MaxCalls = 3
  MaxEvents = 0
  MaxLosses = 0
INVARIANTS
  StatusBelievedRight
CHECK_DEADLOCK FALSE
