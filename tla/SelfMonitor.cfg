SPECIFICATION FairSpec
CONSTANTS
  SleepSecs = 3
  RetryCount = 3
  StartSecs = 2
  MaxFaults = 4
  KillAnytime = FALSE
  LimitWidth = 3
  RlimCur = 3
  Allowance = 1
  Usages = {0, 3, 5}
CHECK_DEADLOCK FALSE
INVARIANTS
  OneChild
  OneListener
  NoOrphan
PROPERTIES
  HealthyNotKilled
  ServesAgain
