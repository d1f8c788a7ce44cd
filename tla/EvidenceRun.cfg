CONSTANTS
  MaxRuns = 2
  MaxGaps = 1
SPECIFICATION Spec
CHECK_DEADLOCK FALSE
INVARIANTS
  CitationsHold
  ReadsAreFinal
  NothingOldByItself
  OnlyLateFilesFail
  NothingFromInvalid
PROPERTY SigningIsReached
