SPECIFICATION Spec
CONSTANTS
  c1 = c1
  c2 = c2
  NoOwner = NoOwner
  Connectors = {c1, c2}
  MaxFaults = 0
  MaxEvents = 1
  MaxRequests = 0
PROPERTIES
  AutoReconnectIsStopped
CHECK_DEADLOCK FALSE
