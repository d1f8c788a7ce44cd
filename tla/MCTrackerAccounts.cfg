CONSTANTS
  Users = {alice, bob}
  Sessions = {s1, s2}
  Requests = {r1, r2, r3}
  Codes = {c1}
  NewRoles = {"admin", "viewer"}
  MaxSecrets = 2
SPECIFICATION AccountsSpec
INVARIANTS AdminRemains BackupCodeOnce
PROPERTY LateOnlyInFlight

SYMMETRY Symmetry
