SPECIFICATION Spec
CONSTANTS
  r1 = r1
  r2 = r2
  r3 = r3
  g1 = g1
  g2 = g2
  None = None
  Requests = {r1, r2}
  Groups = {}
  GroupOf <- NoGroup
  Blocking = {r2}
  MaxRetries <- FirstRetries
  RetryBound = 1
  RetryDelay = 0
  DefaultTimeout = 1
  Timeouts = {}
  MaxTime = 2
  MaxDepth = 2
  Faults = {"death", "config death", "send", "tx"}
  UserCalls = {"cancel", "release", "retry", "observe"}
INVARIANTS TypeOK CompletionInv CompleteOnce NoLostCompletion DeadKeepsNothing
PROPERTIES SilentWhenCancelled
CHECK_DEADLOCK FALSE
