\* A peer that wants both devices; the first two clients of a device may fail; a
\* ready client stays ready.
SPECIFICATION FairEntrySpec
CONSTANTS
  Param = {p1}
  DefaultParam = p1
  NoParam = NoParam
  NoResponse = NoResponse
  Wanted = {"keyboard", "pointing"}
  MayLoseReady = FALSE
  MaxQueue = 0
  MaxGeneration = 2
  MaxFailures = 2
INVARIANTS
  ClientIffEnabled
  CheckArmed
PROPERTIES
  EnabledGetsReady
