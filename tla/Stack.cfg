CONSTANTS
  home = home
  other = other
  Addresses <- MCAddresses
  Home = home
  Hand <- MCHand
  SweepTimeout = 2
  BindPoll = 1
  CheckTimeout = 3
  ReadyTimeout = 4
  MaxAsks = 1
SPECIFICATION Spec
CHECK_DEADLOCK FALSE
INVARIANTS
  TypeOK
  StageTellsTheTruth
  SessionClosed
  PassMeansReply
PROPERTIES
  WaitKeepsItsWord
  ProgramEnds
