---------------------------- MODULE GcpIdentity ----------------------------
(* The identity collectors of cloud-evidence/providers/gcp/iam.ts.  None of   *)
(* them notes which reads succeeded: an error is a warning, and the findings  *)
(* are computed from whatever is held.                                        *)
EXTENDS Findings

(* KSI-IAM-AAM.  The pools are listed only when an organisation is named. *)
IamAam ==
  [accounts |-> Page, userKeys |-> Each("accounts"), noKeysPolicy |-> Whole,
   idle |-> Page, idleOver10 |-> Part("idle"), overPrivileged |-> Page,
   overPrivilegedOver25 |-> Part("overPrivileged"), organization |-> Given, workforcePools |-> Page]

NoUserManagedKeys(v) == Finding(None(v, "userKeys"), Held(v, "userKeys"))
KeyCreationDisabled(v) == Finding(Held(v, "noKeysPolicy"), TRUE)
IdleAccountsManaged(v) == Finding(None(v, "idleOver10"), TRUE)
PrivilegesManaged(v) == Finding(None(v, "overPrivilegedOver25"), TRUE)
WorkforceFederated(v) ==
  Finding(Held(v, "organization") /\ Held(v, "workforcePools"), TRUE)

(* KSI-IAM-APM. *)
IamApm == [domainsPolicy |-> Whole, tenants |-> Page, noMfa |-> Part("tenants")]

DomainsRestricted(v) == Finding(Held(v, "domainsPolicy"), TRUE)
TenantsRequireMfa(v) ==
  Finding(None(v, "tenants") \/ None(v, "noMfa"), Held(v, "noMfa"))

(* KSI-IAM-ELP. *)
IamElp ==
  [primitiveRoles |-> Whole, overPrivileged |-> Page,
   overPrivilegedOver25 |-> Part("overPrivileged")]

NoPrimitiveRoles(v) == Finding(None(v, "primitiveRoles"), Held(v, "primitiveRoles"))
RecommendationsManaged(v) == Finding(None(v, "overPrivilegedOver25"), TRUE)

(* KSI-IAM-JIT. *)
IamJit == [conditionalBindings |-> Whole, entitlements |-> Page]

EntitlementsPresent(v) == Finding(Held(v, "entitlements"), TRUE)
ConditionalBindings(v) == Finding(Held(v, "conditionalBindings"), TRUE)

(* KSI-IAM-MFA. *)
IamMfa ==
  [domainsPolicy |-> Whole, directUsers |-> Whole, accessPolicies |-> Page,
   accessLevels |-> Each("accessPolicies"), tenants |-> Page,
   noMfa |-> Part("tenants")]

MfaDomainsRestricted(v) == Finding(Held(v, "domainsPolicy"), TRUE)
NoDirectUsers(v) == Finding(None(v, "directUsers"), Held(v, "directUsers"))
AccessLevelsPresent(v) == Finding(Held(v, "accessLevels"), TRUE)
TenantsEnforceMfa(v) == Finding(None(v, "noMfa"), Held(v, "noMfa"))

(* KSI-IAM-SNU. *)
IamSnu == [accounts |-> Page, userKeys |-> Each("accounts"), workloadPools |-> Page]

SnuNoUserManagedKeys(v) == Finding(None(v, "userKeys"), Held(v, "userKeys"))
WorkloadsFederated(v) == Finding(Held(v, "workloadPools"), TRUE)

(* KSI-IAM-SUS.  dataAccessLogged: for the keys and for IAM. *)
IamSus ==
  [triggers |-> Page, securityTriggers |-> Part("triggers"), dataAccessLogged |-> Whole]

SecurityTriggers(v) == Finding(Held(v, "securityTriggers"), TRUE)
DataAccessLogged(v) == Finding(Held(v, "dataAccessLogged"), TRUE)

(* KSI-CNA-DFP.  Of the required constraints looked at, those seen enforced;  *)
(* when the client cannot be made none is looked at.                          *)
CnaDfp ==
  [constraints |-> Whole, enforced |-> Each("constraints"),
   accessPolicies |-> Page, perimeters |-> Each("accessPolicies"), roles |-> Page,
   wildcardRoles |-> Part("roles")]

ConstraintsEnforced(v) ==
  LET unenforced == v.n.constraints > v.n.enforced IN Finding(~unenforced, unenforced)
PerimeterPresent(v) == Finding(Held(v, "perimeters"), TRUE)
NoWildcardRoles(v) == Finding(None(v, "wildcardRoles"), Held(v, "wildcardRoles"))

(* The findings of this file: what each of them reads, and its verdict.       *)
Reads ==
  [NoUserManagedKeys |-> Of(IamAam, {"accounts", "userKeys"}),
   KeyCreationDisabled |-> Of(IamAam, {"noKeysPolicy"}),
   IdleAccountsManaged |-> Of(IamAam, {"idle", "idleOver10"}),
   PrivilegesManaged |-> Of(IamAam, {"overPrivileged", "overPrivilegedOver25"}),
   WorkforceFederated |-> Of(IamAam, {"organization", "workforcePools"}),
   DomainsRestricted |-> Of(IamApm, {"domainsPolicy"}),
   TenantsRequireMfa |-> Of(IamApm, {"tenants", "noMfa"}),
   NoPrimitiveRoles |-> Of(IamElp, {"primitiveRoles"}),
   RecommendationsManaged |-> Of(IamElp, {"overPrivileged",
      "overPrivilegedOver25"}),
   EntitlementsPresent |-> Of(IamJit, {"entitlements"}),
   ConditionalBindings |-> Of(IamJit, {"conditionalBindings"}),
   MfaDomainsRestricted |-> Of(IamMfa, {"domainsPolicy"}),
   NoDirectUsers |-> Of(IamMfa, {"directUsers"}),
   AccessLevelsPresent |-> Of(IamMfa, {"accessPolicies", "accessLevels"}),
   TenantsEnforceMfa |-> Of(IamMfa, {"tenants", "noMfa"}),
   SnuNoUserManagedKeys |-> Of(IamSnu, {"accounts", "userKeys"}),
   WorkloadsFederated |-> Of(IamSnu, {"workloadPools"}),
   SecurityTriggers |-> Of(IamSus, {"triggers", "securityTriggers"}),
   DataAccessLogged |-> Of(IamSus, {"dataAccessLogged"}),
   ConstraintsEnforced |-> Of(CnaDfp, {"constraints", "enforced"}),
   PerimeterPresent |-> Of(CnaDfp, {"accessPolicies", "perimeters"}),
   NoWildcardRoles |-> Of(CnaDfp, {"roles", "wildcardRoles"})]

Verdict(r, v) ==
  CASE r = "NoUserManagedKeys" -> NoUserManagedKeys(v)
    [] r = "KeyCreationDisabled" -> KeyCreationDisabled(v)
    [] r = "IdleAccountsManaged" -> IdleAccountsManaged(v)
    [] r = "PrivilegesManaged" -> PrivilegesManaged(v)
    [] r = "WorkforceFederated" -> WorkforceFederated(v)
    [] r = "DomainsRestricted" -> DomainsRestricted(v)
    [] r = "TenantsRequireMfa" -> TenantsRequireMfa(v)
    [] r = "NoPrimitiveRoles" -> NoPrimitiveRoles(v)
    [] r = "RecommendationsManaged" -> RecommendationsManaged(v)
    [] r = "EntitlementsPresent" -> EntitlementsPresent(v)
    [] r = "ConditionalBindings" -> ConditionalBindings(v)
    [] r = "MfaDomainsRestricted" -> MfaDomainsRestricted(v)
    [] r = "NoDirectUsers" -> NoDirectUsers(v)
    [] r = "AccessLevelsPresent" -> AccessLevelsPresent(v)
    [] r = "TenantsEnforceMfa" -> TenantsEnforceMfa(v)
    [] r = "SnuNoUserManagedKeys" -> SnuNoUserManagedKeys(v)
    [] r = "WorkloadsFederated" -> WorkloadsFederated(v)
    [] r = "SecurityTriggers" -> SecurityTriggers(v)
    [] r = "DataAccessLogged" -> DataAccessLogged(v)
    [] r = "ConstraintsEnforced" -> ConstraintsEnforced(v)
    [] r = "PerimeterPresent" -> PerimeterPresent(v)
    [] r = "NoWildcardRoles" -> NoWildcardRoles(v)
=============================================================================
