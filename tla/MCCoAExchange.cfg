SPECIFICATION FairSpec
CONSTANTS
  Workers = {w1, w2}
  IdSpace = 3
  MaxCopies = 1
INVARIANTS
  TypeOK
  RequestIdsDistinct
  AckedMeansDone
PROPERTY
  Answered
CHECK_DEADLOCK FALSE
