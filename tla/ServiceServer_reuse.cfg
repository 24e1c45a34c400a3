\* The socket directory is deleted and, for some time, cannot be created.
SPECIFICATION ServerSpec
CONSTANTS
  MaxSession = 2
  MaxRemoval = 1
  MaxBlock = 1
INVARIANTS
  OwnEntry
