\* Two slots for three keys, so that the report can be full, and
\* two kinds of report, so that a reset can end between them.
SPECIFICATION PathSpec
CONSTANTS
  Slots = 2
  Kinds <- TwoKinds
  Key = {k1, k2, k3}
  Zero = Zero
  Param = {p1, p2}
  DefaultParam = p1
  MaxCall = 3
  MaxFailure = 1
  MaxIncident = 1
SYMMETRY KeySymmetry
INVARIANTS
  KeysAreASet
  NoStuckKey
  LastPostArrives
  LedShown
