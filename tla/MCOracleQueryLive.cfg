SPECIFICATION FairSpec
CONSTANTS
  Workers = {w1, w2}
  Conns = {c1}
  MaxVersion = 0
  MaxTime = 0
  IntMax = 7
PROPERTY
  Answered
CHECK_DEADLOCK FALSE
