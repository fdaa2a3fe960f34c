SPECIFICATION Spec
CONSTANTS
  r1 = r1
  r2 = r2
  r3 = r3
  g1 = g1
  g2 = g2
  None = None
  Requests = {r1, r2}
  Groups = {}
  GroupOf <- NoGroup
  Blocking = {}
  MaxRetries <- OneRetry
  RetryBound = 1
  RetryDelay = 1
  DefaultTimeout = 2
  Timeouts = {1}
  MaxTime = 3
  MaxDepth = 0
  Faults = {"tx", "disconnected"}
  UserCalls = {"cancel", "retry", "timeout"}
INVARIANTS SendsMatchRetries NoOrphanTransaction TimerCoversPending TablesAgree
PROPERTIES Lifecycle EndedForGood
CHECK_DEADLOCK FALSE
