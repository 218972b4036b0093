SPECIFICATION Spec
CONSTANTS
  r1 = r1
  w1 = w1
  w2 = w2
  o1 = o1
  o2 = o2
  Reconciler = Reconciler
  NoRecipient = NoRecipient
  Recipients = {r1}
  Workers = {w1, w2}
  Operators = {o1}
  MaxRetries = 2
  MaxFaults = 1
  MaxRequests = 1
CHECK_DEADLOCK FALSE
SYMMETRY Alike
INVARIANTS
  SentMeansAccepted
  PutBackMeansUnlinked
  DraftsWithinAttempts
  IInv
