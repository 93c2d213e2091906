SPECIFICATION TreeFairSpec
CONSTANTS
  Threads = {t1, t2}
  Deleters = {t2}
  a = a
  ab = ab
  abc = abc
  ad = ad
  af = af
  abf = abf
  NoDir = NoDir
  Dirs <- MCDirs
  Parent <- MCParent
  Files = {af, abf}
  DirOf <- MCDirOf
  ReadOnly = {af}
  PageSize = 2
  RootDir = FALSE
CHECK_DEADLOCK FALSE
INVARIANTS
  MakeRaceIsHarmless
  DeleteSucceeds
PROPERTIES
  ExistingKept
  OkMeansGone
  DeleteReturns
