CONSTANTS
  Window = 3
  Near = 2
  Cap = 2
  OldCap = 1
  Specs <- MCSpecs
  Depths <- MCDepths
  Criteria <- MCCriteria
  Sessions <- MCSessions
SPECIFICATION Spec
CHECK_DEADLOCK FALSE
INVARIANTS
  TypeOK
  GapStated
  PassIsEarned
  JudgesAgree
PROPERTIES
  SelectionHonoured
