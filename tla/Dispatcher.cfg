\* A server object and the io thread of its socket, with one peer; the main
\* thread, which destroys and terminates.
SPECIFICATION FairDispatcherSpec
CONSTANTS
  Object = {o1, o2, peer}
  Peer = {peer}
  Own = Own
  None = None
  Thread = {main, io}
  Io = {io}
  MaxTask = 3
  LastTime = 2
INVARIANTS
  DetachedIsQuiet
PROPERTIES
  ImplementsExecutor
  CallsReturn
CHECK_DEADLOCK FALSE
