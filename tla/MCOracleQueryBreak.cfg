SPECIFICATION Spec
CONSTANTS
  Workers = {w1, w2}
  Conns = {c1}
  MaxVersion = 0
  MaxTime = 0
  IntMax = 7
INVARIANT
  BreakHitsTarget
CHECK_DEADLOCK FALSE
