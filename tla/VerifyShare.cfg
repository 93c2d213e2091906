SPECIFICATION Spec
CONSTANTS
  a1 = a1
  a2 = a2
  a3 = a3
  NoAddr = NoAddr
  Addrs <- MCAddrs
  Works <- MCWorks
  Pooled <- NoPooled
  NumAttempts = 3
  MaxRetries = 3
CHECK_DEADLOCK FALSE
INVARIANT FindsWorking
