SPECIFICATION Spec
CONSTANTS
  Threads = {t1, t2}
  Tasks = {k1}
  Paths = {p1, p2}
  Objects = {o1, o2}
  NoObject = NoObject
  MaxEntries = 1
  AlarmInWindow = FALSE
  Chunks = {c1}
  Existing = {p1, p2}
  NoFile = NoFile
  OldFile = OldFile
  Modes <- AllModes
  Resend = FALSE
  Restarts = {"overwrite", "uptier"}
  StatFails = TRUE
  Crashes = TRUE
CHECK_DEADLOCK FALSE
SYMMETRY Symmetry
INVARIANTS
  NoCreateCollision
  CreatedHasTmpFile
