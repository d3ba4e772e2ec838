CONSTANTS
  s1 = s1
  s2 = s2
  Sessions <- MCSessions
  LocalModel <- MCLocal
  LocalTtl = 2
  DefaultTtl = 3
  Unbound = Unbound
  PollInterval = 1
  RequestTime = 1
  ListLimit = 2
  PostTimeout = 2
  SendDelay = 0
SPECIFICATION Spec
CHECK_DEADLOCK FALSE
INVARIANT TypeOK
PROPERTIES
  ReapsOnlyAbandoned
  OrphansStop
