SPECIFICATION ItemsSpec
CONSTANTS
  ann = ann
  zero = zero
  s1 = s1
  s2 = s2
  Items = {ksi}
  Users = {ann, root}
  Admins = {root}
  Token = zero
  Unknown = {zero}
  Bodies <- MCBodies
  Contents = {pdf}
  Slots = {s1, s2}
  MaxRows = 2
  MaxWrites = 2
  MaxStops = 1
SYMMETRY Symmetric
INVARIANTS
  AuditTells
  BlobsPresent
