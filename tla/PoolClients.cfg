SPECIFICATION Spec
CONSTANTS
  Threads = {t1, t2}
  Tasks = {k1}
  Entries = {e1, e2}
  Conns = {c1, c2, c3}
  Dirs = {d1, d2}
  NoEntry = NoEntry
  NoConn = NoConn
  NoDir = NoDir
  Rpcs = {"root", "file", "list", "purge"}
  Resend = FALSE
  LongRpcs = FALSE
  PurgeBusy = FALSE
  TaskInactive = 2
  ConnInactive = 1
  MaxLag = 0
  MaxFetched = 1
SYMMETRY Symmetry
INVARIANTS
  OneThreadPerConnection
  UsedIsOpen
  NoLeakedConnection
  ResumesOwnDirectory
