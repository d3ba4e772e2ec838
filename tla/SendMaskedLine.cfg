CONSTANTS
  PostTimeout = 3
  QuotaThreshold = 4
  CheckInterval = 1
  LoopMessages = 1
  GetTimeout = 1
  HeartbeatTimeout = 1
  AbortTimeout = 1
  RetryWaits <- MCRetryWaits
  Earlier <- MCFresh
  MaxMessages = 0
  MaxLog = 2
  LogMayFail = FALSE
SPECIFICATION Spec
PROPERTY FatalLineActedOn
CHECK_DEADLOCK FALSE
