SPECIFICATION Spec
CONSTANTS
  Dispatchers = {d1, d2, d3}
  ChildLimit = 1
SYMMETRY Symmetry
INVARIANTS
  TypeOK
  ChildrenExact
  LimitRespected
  OnlyErrorDeletesInService
CHECK_DEADLOCK FALSE
