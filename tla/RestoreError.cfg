SPECIFICATION Spec
CONSTANTS
  Threads = {t1, t2}
  Tasks = {k1}
  Paths = {p1}
  Objects = {o1, o2}
  NoObject = NoObject
  MaxEntries = 1
  AlarmInWindow = FALSE
  Chunks = {c1, c2}
  Existing = {p1}
  NoFile = NoFile
  OldFile = OldFile
  Modes <- VolumeOnly
  Resend = FALSE
  Restarts = {}
  StatFails = FALSE
  Crashes = FALSE
CHECK_DEADLOCK FALSE
INVARIANT CreatedMeansCleared
