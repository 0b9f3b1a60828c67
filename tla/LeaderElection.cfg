SPECIFICATION Spec
CONSTANTS
  Replicas = {r1, r2}
  NoHolder = NoHolder
  LeaseDuration = 5
  RenewDeadline = 1
  RetryPeriod = 1
  MaxLatency = 1
  MaxSkew = 1
  MaxTime = 7
CHECK_DEADLOCK FALSE
INVARIANT OneLeader
