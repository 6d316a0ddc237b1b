SPECIFICATION Spec
CONSTANTS
  Dispatchers = {d1, d2}
  ChildLimit = 1
INVARIANT
  NotDeletedInUse
CHECK_DEADLOCK FALSE
