SPECIFICATION Spec
CONSTANTS
  r1 = r1
  r2 = r2
  r3 = r3
  g1 = g1
  g2 = g2
  None = None
  Requests = {r1, r2, r3}
  Groups = {g1}
  GroupOf <- PairInGroup
  Blocking = {r2}
  MaxRetries <- NoRetries
  RetryBound = 1
  RetryDelay = 0
  DefaultTimeout = 1
  Timeouts = {}
  MaxTime = 1
  MaxDepth = 1
  Faults = {}
  UserCalls = {"cancel"}
INVARIANTS BlockerActive
CHECK_DEADLOCK FALSE
