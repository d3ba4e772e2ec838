CONSTANTS
  Ladder <- MCLadder
  RetryLimit = 1

SPECIFICATION Spec
CHECK_DEADLOCK FALSE

INVARIANTS
  TypeOK
  ReportConsistent
  NoRunawaySession
  SessionBudget
  InterruptStopsWork
PROPERTIES
  CategoryEnds
  NeverReposts
  FollowsEscalationRule
