CONSTANTS
  ada = ada
  x = x
  y = y
  Users = {ada}
  Role <- AdminOnly
  Items = {c1, a1}
  Controls = {c1}
  Contents = {x, y}
  Acceptances = {a1}
  Citable = {c1}
  DateForms = {"iso"}
  MinDays = 1
  MaxDays = 1
  MaxTime = 1
  MaxRepeat = 1
  Requests = {r1}
  Null = Null
  MaxAudit = 2
  PageSize = 1
  Expires <- BodyExpires
SPECIFICATION PoamSpec
INVARIANTS
  MitigationIsSignedContent
  DeviationWasApproved
PROPERTIES
  NoExpiredDeviation
  MitigationKept
