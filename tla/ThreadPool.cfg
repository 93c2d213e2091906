SPECIFICATION FairSpec
CONSTANTS
  Workers = {w1, w2}
  Items = {i1, i2}
  Cleaners = {c1, c2}
  Null = Null
CHECK_DEADLOCK FALSE
INVARIANTS
  TypeOK
  WorkIsThere
  CleanUpWaits
  ThreadsInv
PROPERTIES
  CleanUpReturns
  WorkIsRun
