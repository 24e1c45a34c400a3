\* Three services, one of which may refuse to be opened or to tell its version;
\* a matching and a mismatched driver version; both devices polled.
SPECIFICATION Spec
CONSTANTS
  Service = {s1, s2, f1}
  Faulty = {f1}
  NoService = NoService
  Version = {v1, v2}
  EmbeddedVersion = v1
  NoVersion = NoVersion
  Polled = {"keyboard", "pointing"}
  MaxQueue = 1
INVARIANTS
  TypeOK
  ServicesMirrorMonitor
  ConnectionConsistent
  HandlesBalanced
  HealthyServiceConnected
  StatusNotLost
PROPERTIES
  ConnectionKept
  ImplementsStatusSource
