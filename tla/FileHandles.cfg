SPECIFICATION FHFairSpec
CONSTANTS
  Threads = {t1, t2}
  Tasks = {k1}
  Paths = {p1}
  Objects = {o1, o2}
  NoObject = NoObject
  MaxEntries = 1
  AlarmInWindow = FALSE
INVARIANTS
  FHTypeOK
  CachedMeansCreated
PROPERTY FetchReturns
