CONSTANTS
  PostTimeout = 4
  QuotaThreshold = 5
  CheckInterval = 2
  LoopMessages = 1
  GetTimeout = 1
  HeartbeatTimeout = 1
  AbortTimeout = 1
  RetryWaits <- MCRetryWaits
  Earlier <- MCEarlier
  MaxMessages = 2
  MaxLog = 1
  LogMayFail = TRUE
SPECIFICATION Spec
CHECK_DEADLOCK FALSE
INVARIANTS
  TypeOK
  NoOrphanedTurn
  QuotaNeverStale
  BoundedReturn
PROPERTIES
  ImplementsContract
  SendReturns
