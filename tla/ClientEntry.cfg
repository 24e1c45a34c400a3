\* All orders of requests, client changes and checks for one device.
SPECIFICATION EntrySpec
CONSTANTS
  Param = {p1, p2}
  DefaultParam = p1
  NoParam = NoParam
  NoResponse = NoResponse
  Wanted = {"keyboard"}
  MayLoseReady = TRUE
  MaxQueue = 2
  MaxGeneration = 3
  MaxFailures = 1
INVARIANTS
  EntryTypeOK
  PushNotLost
  ClientIffEnabled
  CheckArmed
  OnlyOwnCheckActs
  KeyboardHasParams
