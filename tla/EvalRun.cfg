CONSTANTS
  Runs <- MCRuns
  Categories <- MCCategories
  Selections <- MCSelections
  History <- MCHistory
  LastSecond = 2
SPECIFICATION Spec
CHECK_DEADLOCK FALSE
INVARIANTS
  TypeOK
  NothingOverwritten
  OneRunPerReport
  NeverLost
