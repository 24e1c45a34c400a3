\* Two services that replace each other; notifications may be lost.
SPECIFICATION FairMonitoredSpec
CONSTANTS
  Service = {s1, f1}
  Faulty = {f1}
  NoService = NoService
  Version = {v1}
  EmbeddedVersion = v1
  NoVersion = NoVersion
  Polled = {"keyboard"}
  MaxQueue = 40
  MaxBacklog = 0
PROPERTIES
  ImplementsClient
  DeadConnectionClosed
  EventuallyConnected
  StaleReadyCorrected
  StatusDelivered
