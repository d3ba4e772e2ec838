CONSTANTS
  PostTimeout = 3
  QuotaThreshold = 7
  CheckInterval = 1
  LoopMessages = 1
  GetTimeout = 1
  HeartbeatTimeout = 1
  AbortTimeout = 1
  RetryWaits <- MCRetryWaits
  Earlier <- MCFresh
  MaxMessages = 0
  MaxLog = 0
  LogMayFail = TRUE
SPECIFICATION Spec
PROPERTY ShortRetryNotAborted
CHECK_DEADLOCK FALSE
