SPECIFICATION Spec
CONSTANTS
  r1 = r1
  r2 = r2
  r3 = r3
  g1 = g1
  g2 = g2
  None = None
  Requests = {r1, r2, r3}
  Groups = {g1, g2}
  GroupOf <- TwoGroups
  Blocking = {}
  MaxRetries <- NoRetries
  RetryBound = 1
  RetryDelay = 0
  DefaultTimeout = 1
  Timeouts = {}
  MaxTime = 1
  MaxDepth = 0
  Faults = {"finalize"}
  UserCalls = {"cancel", "release"}
INVARIANTS OwnersAlive FinalizeFrees
PROPERTIES OwnersInTurn OwnerExcludes OwnerWaits
CHECK_DEADLOCK FALSE
