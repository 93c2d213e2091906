SPECIFICATION Spec
CONSTANTS
  p1 = p1
  s1 = s1
  s2 = s2
  s3 = s3
  NoPath = NoPath
  NoConn = NoConn
  Gone = Gone
  Paths = {s1, s2, s3}
  SmbPath <- MCSmbPath
  ClientPaths = {s1, s2, s3}
  CachedPaths = {s1, s2}
  MovedPaths = {s3}
  Conns = {c1, c2}
  Threads = {t1, t2}
  MaxHandles = 1
  MaxOpen = 2
  MaxRetries = 1
  Rpcs = {"transfer", "rename", "finalize", "remove", "symlink", "restore"}
  ReplaceBusy = FALSE
SYMMETRY Symmetry
INVARIANTS
  CachedHandleValid
  TransfersOwnFile
  NoLeakedHandle
  RenamePurged
