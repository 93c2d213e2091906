SPECIFICATION Spec
CONSTANTS
  Threads = {t1}
  Tasks = {k1}
  Paths = {p1}
  Objects = {o1}
  NoObject = NoObject
  MaxEntries = 1
  AlarmInWindow = FALSE
  Chunks = {c1, c2}
  Existing = {p1}
  NoFile = NoFile
  OldFile = OldFile
  Modes <- UptierOnly
  Resend = FALSE
  Restarts = {}
  StatFails = FALSE
  Crashes = FALSE
CHECK_DEADLOCK FALSE
INVARIANT SymlinkReplaced
