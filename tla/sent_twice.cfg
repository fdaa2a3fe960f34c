SPECIFICATION Spec
CONSTANTS
  r1 = r1
  r2 = r2
  r3 = r3
  g1 = g1
  g2 = g2
  None = None
  Requests = {r1, r2, r3}
  Groups = {}
  GroupOf <- NoGroup
  Blocking = {}
  MaxRetries <- NoRetries
  RetryBound = 1
  RetryDelay = 0
  DefaultTimeout = 1
  Timeouts = {}
  MaxTime = 1
  MaxDepth = 0
  Faults = {"disconnected", "send"}
  UserCalls = {}
INVARIANTS SendsMatchRetries
CHECK_DEADLOCK FALSE
