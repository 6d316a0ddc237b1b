SPECIFICATION FairSpec
CONSTANTS
  Keys = {k1, k2}
  Values = {v1, v2, empty}
  Ttls <- ShortTtls
  MaxTime = 5
  IntMax = 7
  Empty = empty
INVARIANT
  TypeOK
PROPERTIES
  IsExpiringStore
  OverdueForgotten
CHECK_DEADLOCK FALSE
