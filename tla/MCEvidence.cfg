SPECIFICATION FairSpec
CONSTANTS
  Rules <- MCRules
  Kinds <- MCKinds
  FindingOf <- MCFindingOf
  Most <- MCMost
  Ungated <- MCUngated
  Overlooks <- MCOverlooks
  Misses <- MCMisses
  Nameless <- MCNameless
CHECK_DEADLOCK FALSE
INVARIANTS
  
  FailsClosed
  NamesWhatItFound
PROPERTY EveryKsiIsRolledUp
