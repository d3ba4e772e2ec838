CONSTANTS
  PostTimeout = 3
  QuotaThreshold = 4
  CheckInterval = 1
  LoopMessages = 2
  GetTimeout = 1
  HeartbeatTimeout = 1
  AbortTimeout = 1
  RetryWaits <- MCRetryWaits
  Earlier <- MCFresh
  MaxMessages = 4
  MaxLog = 0
  LogMayFail = TRUE
SPECIFICATION Spec
INVARIANT AnsweringNeverCaught
CHECK_DEADLOCK FALSE
