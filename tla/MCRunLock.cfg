CONSTANTS
  p1 = p1
  p2 = p2
  p3 = p3
  Procs = {p1, p2, p3}
  Host <- TwoHosts
SPECIFICATION FairSpec
INVARIANTS
  MutualExclusion
  OwnerIsNamed
PROPERTY NoStrandedLock
CHECK_DEADLOCK FALSE
