SPECIFICATION MCSpec
CONSTANTS
  r1 = r1  r2 = r2  u1 = u1  u2 = u2  u3 = u3
  in1a = in1a  in1b = in1b  in2 = in2  in3 = in3
  g1 = g1  g2 = g2  g3 = g3
  None = None
  Requests = {r1, r2, u1, u2, u3, in1a, in1b, in2, in3}
  Groups = {g1, g2, g3}
  GroupOf <- ScenarioGroups
  Blocking = {r2}
  MaxRetries <- ScenarioRetries
  RetryBound = 2
  RetryDelay = 1
  DefaultTimeout = 2
  Timeouts = {1, 9}
  MaxTime = 3
  MaxDepth = 0
  Faults = {"send", "tx", "death", "config death", "finalize", "disconnected"}
  UserCalls = {"cancel", "retry", "release", "timeout"}
  MaxChanges = 3
  Newcomers <- LateListeners
  UserRequest = 2
INVARIANTS
  TestsHold
  BlockerActive
  QueueMoves
  AckedOnce
  ToldInTurn
PROPERTIES
  BlockingExcludes
  RequestsEnd
  BlockerReleases
  TestsEnd
CHECK_DEADLOCK FALSE
