SPECIFICATION FairSpec
CONSTANTS
  r1 = r1
  w1 = w1
  w2 = w2
  o1 = o1
  o2 = o2
  Reconciler = Reconciler
  NoRecipient = NoRecipient
  Recipients = {r1}
  Workers = {w1}
  Operators = {o1, o2}
  MaxRetries = 2
  MaxFaults = 1
  MaxRequests = 2
CHECK_DEADLOCK FALSE
PROPERTIES
  RecipientsSettle
