SPECIFICATION FairSpec
CONSTANTS
  m1 = m1
  m2 = m2
  NoMessage = NoMessage
  Messages = {m1, m2}
  Workers = {w1}
  Callers = {c1}
  AccountOf <- SharedAccount
  AutoReplies = {m1}
  Legacy = {m2}
  Unaddressed = {m2}
  MaxRetries = 2
  BatchSize = 1
  MaxRequeues = 1
INVARIANTS
  CopiesWithinBudget
  DispatchedMeansSent
  AckedMeansLinked
  ClosedIsReported
  IInv
PROPERTIES
  AckNeverRegresses
  ImplementsDelivery
  EveryDraftSettles
