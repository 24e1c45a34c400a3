\* Calls with and without force; one connection is lost.
SPECIFICATION SessionSpec
CONSTANTS
  Param = {p1, p2}
  DefaultParam = p1
  NoParam = NoParam
  NoResponse = NoResponse
  Wanted = {"keyboard"}
  MayLoseReady = TRUE
  MaxQueue = 0
  MaxGeneration = 3
  MaxFailures = 0
  Forced = {TRUE, FALSE}
  MaxCalls = 3
  MaxEvents = 1
  MaxLosses = 1
INVARIANTS
  IntentHonoured
  StatusOfThisSession
  ParamsBelievedRight
CHECK_DEADLOCK FALSE
