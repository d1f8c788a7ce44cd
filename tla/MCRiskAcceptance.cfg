CONSTANTS
  ian = ian
  olga = olga
  ada = ada
  Users = {ian, olga, ada}
  Role <- MCRole
  Items = {a1}
  Acceptances = {a1}
  Citable = {c1}
  DateForms = {"iso", "sortsLast", "sortsFirst"}
  MinDays = 1
  MaxDays = 2
  MaxTime = 2
  MaxRepeat = 1
  Requests = {r1, r2}
  Null = Null
  MaxAudit = 3
SPECIFICATION AccFairSpec
INVARIANTS
  AcceptanceAuditNeverAhead
  SeparationOfDuties
PROPERTIES
  AcceptancesFollowLifecycle
  PastDueIsSwept
