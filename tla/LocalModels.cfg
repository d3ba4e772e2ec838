CONSTANTS
  a = a
  b = b
  Models <- MCModels
  Model = a
  Target = a
  Tiers = 1
  MaxSignals = 2
  RequestTime = 1
  PollInterval = 2
  UnloadTimeout = 4
  HandlerTimeout = 1
  SwitchTimeout = 2
  SwitchPoll = 1
SPECIFICATION Spec
CHECK_DEADLOCK FALSE
INVARIANTS
  TypeOK
  NoTurnOutlivesRun
  HandlerIsBrief
  SwitchClears
  ConfirmedIsFree
PROPERTIES
  NeverDeniesTheMessage
  ProgramsEnd
