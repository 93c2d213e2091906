SPECIFICATION FairSpec
CONSTANTS
  Threads = {t1}
  Tasks = {k1}
  Entries = {e1, e2}
  Conns = {c1, c2}
  Dirs = {d1}
  NoEntry = NoEntry
  NoConn = NoConn
  NoDir = NoDir
  Rpcs = {"list", "create"}
  Resend = TRUE
  LongRpcs = FALSE
  PurgeBusy = FALSE
  TaskInactive = 2
  ConnInactive = 1
  MaxLag = 1
  MaxFetched = 2
PROPERTY LeftoversPurged
