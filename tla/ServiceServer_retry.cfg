\* The socket directory cannot be created for some time.
SPECIFICATION ServerSpec
CONSTANTS
  MaxSession = 1
  MaxRemoval = 1
  MaxBlock = 1
INVARIANTS
  RetryPaced
