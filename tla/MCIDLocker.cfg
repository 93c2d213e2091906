SPECIFICATION FairSpec
CONSTANTS
  Threads = {t1, t2, t3}
  Ids = {a, b}
  Refs = {r1, r2, r3}
  NoRef = NoRef
INVARIANTS
  MutualExclusion
  ReferenceLive
  NoLeakedState
PROPERTIES
  AcquireReturns
  ImplementsRWLocks
