SPECIFICATION Spec
CONSTANTS
  k1 = k1
  k2 = k2
  o1 = o1
  o2 = o2
  o3 = o3
  None = None
  Keys = {k1, k2}
  Instances = {o1, o2, o3}
  MaxRefs = 2
  MaxTxs = 1
  MaxDepth = 2
SYMMETRY Symmetry
INVARIANTS TypeOK ToldOfTable TableAlive DeadLeave TableFreed HeldAlive DeadUnconnected
CHECK_DEADLOCK FALSE
