CONSTANTS
  ian = ian
  olga = olga
  ada = ada
  c1 = c1
  o1 = o1
  Users = {ian, olga, ada}
  Role <- MCRole
  Items = {c1, o1}
  Controls = {c1}
  Risks = {o1}
  Contents = {x, y}
  Assessments <- MCAssessments
  Requests = {r1, r2}
  Null = Null
  MaxAudit = 3
  RegisterPage = 1
SPECIFICATION Spec
CONSTRAINT OneRegistry
INVARIANTS
  SignatureCoversContent
  ControlAuditNeverAhead
  RiskAuditNeverAhead
  ClosedEntriesStand
PROPERTIES
  SignedOffContentFixed
  ControlsFollowLifecycle
  ClosedRiskFixed
