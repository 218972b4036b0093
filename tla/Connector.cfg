SPECIFICATION FairSpec
CONSTANTS
  c1 = c1
  c2 = c2
  NoOwner = NoOwner
  Connectors = {c1, c2}
  MaxFaults = 1
  MaxEvents = 1
  MaxRequests = 1
INVARIANTS
  OneSocketPerConnector
  ConsumersAreWatched
  ConnectorIInv
PROPERTIES
  EventuallyOneConsumer
  Failover
CHECK_DEADLOCK FALSE
