SPECIFICATION Spec
CONSTANTS
  Rules <- MCRules
  Kinds <- MCKinds
  FindingOf <- MCFindingOf
  Most <- MCMost
  Ungated <- MCUngated
  Overlooks <- MCOverlooks
  Misses <- MCMisses
  Nameless <- MCNameless
CHECK_DEADLOCK FALSE
INVARIANT GateReachesRollup
