SPECIFICATION FairSpec
CONSTANTS
  e1 = e1
  e2 = e2
  w1 = w1
  o1 = o1
  o2 = o2
  Emails = {e1, e2}
  Blocked = {}
  Workers = {w1}
  Operators = {o1, o2}
  SenderChanges = {"deleted"}
  MaxEdits = 1
  MaxRequests = 4
  MaxFaults = 1
CHECK_DEADLOCK FALSE
INVARIANTS
  LinksWork
  IInv
PROPERTIES
  ImplementsMailing
  CompletesWhenSettled
  PendingAreClaimed
