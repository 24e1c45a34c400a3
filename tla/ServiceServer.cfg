\* The socket directory is deleted and, for some time, cannot be created.
SPECIFICATION FairServerSpec
CONSTANTS
  MaxSession = 3
  MaxRemoval = 2
  MaxBlock = 2
INVARIANTS
  EntryPerPeer
PROPERTIES
  SessionSurvives
  SocketComesBack
