SPECIFICATION FairSpec
CONSTANTS
  Dispatchers = {d1, d2}
  ChildLimit = 1
PROPERTIES
  Reclaimed
  LongQueryInterrupted
CHECK_DEADLOCK FALSE
