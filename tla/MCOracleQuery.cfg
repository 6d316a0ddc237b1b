SPECIFICATION Spec
CONSTANTS
  Workers = {w1, w2}
  Conns = {c1, c2}
  MaxVersion = 1
  MaxTime = 1
  IntMax = 7
SYMMETRY Symmetry
INVARIANTS
  TypeOK
  ConnectionsAccounted
  OnlyThrowLeaks
  BypassIsFresh
CHECK_DEADLOCK FALSE
