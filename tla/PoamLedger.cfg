CONSTANTS
  Months = {1, 2, 3}
  MaxRuns = 5
SPECIFICATION Spec
INVARIANTS
  ChainOfCustody
  FinishedMonthOpens
CHECK_DEADLOCK FALSE
