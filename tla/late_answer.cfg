SPECIFICATION Spec
CONSTANTS
  r1 = r1
  r2 = r2
  r3 = r3
  g1 = g1
  g2 = g2
  None = None
  Requests = {r1, r2}
  Groups = {g1}
  GroupOf <- OneGroup
  Blocking = {}
  MaxRetries <- OneRetry
  RetryBound = 1
  RetryDelay = 0
  DefaultTimeout = 1
  Timeouts = {}
  MaxTime = 1
  MaxDepth = 0
  Faults = {}
  UserCalls = {"cancel", "retry"}
PROPERTIES EndedForGood
CHECK_DEADLOCK FALSE
