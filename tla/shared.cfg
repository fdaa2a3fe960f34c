SPECIFICATION MCSpec
CONSTANTS
  o1 = o1
  o2 = o2
  o3 = o3
  None = None
  Versions = {0, 1, 2}
  Configs = {o1, o2, o3}
  MaxRefs = 2
  MaxWeak = 2
  MaxDepth = 2
  q1 = q1
  q2 = q2
  b1 = b1
  b2 = b2
  Null = Null
  Numbered = {q1, q2}
  Bases = {b1, b2}
  MaxSerial = 5
SYMMETRY Symmetry
INVARIANTS TypeOK SharedAlive LivingShared CallsAlive SerialsFind SerialsDiffer
CHECK_DEADLOCK FALSE
