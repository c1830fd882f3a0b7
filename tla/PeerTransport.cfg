SPECIFICATION BoundedSpec
CONSTANTS
  n1 = n1
  n2 = n2
  n3 = n3
  None = None
  Node = {n1, n2, n3}
  Known <- Acquainted
  Fd = {f1, f2}
  QueueCapacity = 1
  MaxPending = 1
  MaxDelayed = 1
  MaxBuffered = 1
  Room = 1
  Faults = {"drop", "delay"}
  MaxMessages = 2
  MaxUpdates = 2
  MaxCrashes = 1
INVARIANTS
  DeliveredAtMostOnce
  ParkedIsNeverSent
PROPERTIES
  PeersEndUpConnected
  ImplementsNetwork
