SPECIFICATION GrpcFairSpec
CONSTANTS
  Workers = {w1, w2}
  Items = {i1, i2}
  Cleaners = {c1}
  Null = Null
  NumMethods = 1
  MaxRpcs = 2
  ClientsLeave = TRUE
  StopEarly = FALSE
CHECK_DEADLOCK FALSE
INVARIANTS
  WorkIsThere
  EventMeetsStatus
  NoUseAfterDelete
  EveryMethodListens
  QueueOutlivesPollers
PROPERTIES
  RpcAnswered
  ShutdownEnds
