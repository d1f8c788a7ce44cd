---------------------------- MODULE AwsIdentity ----------------------------
(* The identity collectors of cloud-evidence/providers/aws/iam.ts: for each   *)
(* collector what it reads and how, and for each finding the verdict it draws *)
(* from what was read.                                                        *)
EXTENDS Findings

(* KSI-IAM-AAM, account management.  Whether attributes control access is     *)
(* noted anew for each instance, so that the last one read decides.           *)
(* unusedOver25: the analyzer with whose findings there are more than 25.     *)
IamAam ==
  [credentialReport |-> Whole, users |-> Page, oldKeys |-> Each("users"),
   passwordNoMfa |-> Each("users"), instances |-> Page,
   storeUsers |-> Each("instances"), lastAbac |-> Last("instances"),
   unusedAnalyzers |-> Page, unusedOver25 |-> Each("unusedAnalyzers")]

FederationIsPrimary(v) == Finding(Held(v, "instances") /\ Held(v, "storeUsers"), TRUE)
StandaloneUsersMinimized(v) == Finding(v.ok.users /\ None(v, "users"), TRUE)
NoOldAccessKeys(v) == Finding(v.ok.users /\ None(v, "oldKeys"), Held(v, "oldKeys"))
NoPasswordWithoutMfa(v) ==
  Finding(v.ok.users /\ v.ok.credentialReport /\ None(v, "passwordNoMfa"), TRUE)
UnusedAccessManaged(v) == Finding(None(v, "unusedOver25"), TRUE)
AbacConfigured(v) == Finding(Held(v, "lastAbac"), TRUE)

(* KSI-IAM-APM, authentication policy. *)
IamApm == [strongPolicy |-> Whole, poolsNoMfa |-> Scan]

PasswordPolicyStrong(v) == Finding(Held(v, "strongPolicy"), TRUE)
AppPoolsRequireMfa(v) ==
  Finding(v.ok.poolsNoMfa /\ None(v, "poolsNoMfa"), Held(v, "poolsNoMfa"))

(* KSI-IAM-ELP, least privilege. *)
IamElp ==
  [policies |-> Skim, wildcards |-> Each("policies"), roles |-> Skim,
   staleRolesOver20 |-> Part("roles"), rolesNoBoundary |-> Part("roles"),
   crossAccount |-> Part("roles")]

NoAdminWildcards(v) ==
  Finding(v.ok.policies /\ None(v, "wildcards"), Held(v, "wildcards"))
RoleInventoryClean(v) == Finding(None(v, "staleRolesOver20"), Held(v, "staleRolesOver20"))
RolesHaveBoundary(v) ==
  Finding(v.ok.roles /\ None(v, "rolesNoBoundary"), Held(v, "rolesNoBoundary"))
CrossAccountExternalId(v) ==
  Finding(v.ok.roles /\ None(v, "crossAccount"), Held(v, "crossAccount"))

(* KSI-IAM-JIT, just-in-time access. *)
IamJit ==
  [permissionSets |-> Skim, longSessions |-> Part("permissionSets"),
   recentSessions |-> Page]

SessionsAtMost8h(v) == Finding(v.ok.permissionSets /\ None(v, "longSessions"), TRUE)
SessionManagerUsed(v) == Finding(Held(v, "recentSessions"), TRUE)

(* KSI-IAM-MFA.  Of the users with a console login (console), those with a    *)
(* device (consoleMfa); a login profile that cannot be read counts as none, a *)
(* device list that cannot be read as empty.                                  *)
IamMfa ==
  [rootMfa |-> Whole, users |-> Page, console |-> Each("users"),
   consoleMfa |-> Each("console"), virtualMfa |-> Each("users"), mfaDenyScps |-> Scan]

RootMfaEnabled(v) == Finding(Held(v, "rootMfa"), TRUE)
ConsoleUsersHaveMfa(v) ==
  LET without == v.n.console > v.n.consoleMfa
  IN  Finding(v.ok.users /\ ~without, without)
NoVirtualMfa(v) == Finding(v.ok.users /\ None(v, "virtualMfa"), Held(v, "virtualMfa"))
ScpDeniesWithoutMfa(v) == Finding(Held(v, "mfaDenyScps"), TRUE)

(* KSI-IAM-SNU, non-user accounts: here the user list is read uncaught. *)
IamSnu == [users |-> Peek, keysOver5 |-> Each("users"), oidc |-> Whole]

AccessKeysMinimal(v) == Finding(None(v, "keysOver5"), TRUE)
OidcConfigured(v) == Finding(Held(v, "oidc"), TRUE)

(* KSI-IAM-SUS, suspicious activity. *)
IamSus == [detector |-> Whole, rulesWithTargets |-> Scan, criticalFindings |-> Page]

GuardDutyEnabled(v) == Finding(Held(v, "detector"), TRUE)
GuardDutyHasResponse(v) == Finding(Held(v, "rulesWithTargets"), TRUE)
NoCriticalIamFindings(v) ==
  Finding(v.ok.criticalFindings /\ None(v, "criticalFindings"), TRUE)

(* KSI-CNA-DFP, functionality and privileges. *)
CnaDfp ==
  [policies |-> Skim, wildcards |-> Each("policies"), customerScps |-> Scan,
   analyzers |-> Skim, external |-> Each("analyzers")]

DfpNoAdminWildcards(v) ==
  Finding(v.ok.policies /\ None(v, "wildcards"), Held(v, "wildcards"))
CustomerScpsPresent(v) == Finding(Held(v, "customerScps"), TRUE)
NoExternalAccess(v) ==
  Finding(/\ v.ok.analyzers /\ Held(v, "analyzers")
          /\ v.ok.external /\ None(v, "external"), TRUE)

(* The findings of this file: what each of them reads, and its verdict.       *)
Reads ==
  [FederationIsPrimary |-> Of(IamAam, {"instances", "storeUsers"}),
   StandaloneUsersMinimized |-> Of(IamAam, {"users"}),
   NoOldAccessKeys |-> Of(IamAam, {"users", "oldKeys"}),
   NoPasswordWithoutMfa |-> Of(IamAam, {"credentialReport", "users",
      "passwordNoMfa"}),
   UnusedAccessManaged |-> Of(IamAam, {"unusedAnalyzers", "unusedOver25"}),
   AbacConfigured |-> Of(IamAam, {"instances", "lastAbac"}),
   PasswordPolicyStrong |-> Of(IamApm, {"strongPolicy"}),
   AppPoolsRequireMfa |-> Of(IamApm, {"poolsNoMfa"}),
   NoAdminWildcards |-> Of(IamElp, {"policies", "wildcards"}),
   RoleInventoryClean |-> Of(IamElp, {"roles", "staleRolesOver20"}),
   RolesHaveBoundary |-> Of(IamElp, {"roles", "rolesNoBoundary"}),
   CrossAccountExternalId |-> Of(IamElp, {"roles", "crossAccount"}),
   SessionsAtMost8h |-> Of(IamJit, {"permissionSets", "longSessions"}),
   SessionManagerUsed |-> Of(IamJit, {"recentSessions"}),
   RootMfaEnabled |-> Of(IamMfa, {"rootMfa"}),
   ConsoleUsersHaveMfa |-> Of(IamMfa, {"users", "console", "consoleMfa"}),
   NoVirtualMfa |-> Of(IamMfa, {"users", "virtualMfa"}),
   ScpDeniesWithoutMfa |-> Of(IamMfa, {"mfaDenyScps"}),
   AccessKeysMinimal |-> Of(IamSnu, {"users", "keysOver5"}),
   OidcConfigured |-> Of(IamSnu, {"oidc"}),
   GuardDutyEnabled |-> Of(IamSus, {"detector"}),
   GuardDutyHasResponse |-> Of(IamSus, {"rulesWithTargets"}),
   NoCriticalIamFindings |-> Of(IamSus, {"criticalFindings"}),
   DfpNoAdminWildcards |-> Of(CnaDfp, {"policies", "wildcards"}),
   CustomerScpsPresent |-> Of(CnaDfp, {"customerScps"}),
   NoExternalAccess |-> Of(CnaDfp, {"analyzers", "external"})]

Verdict(r, v) ==
  CASE r = "FederationIsPrimary" -> FederationIsPrimary(v)
    [] r = "StandaloneUsersMinimized" -> StandaloneUsersMinimized(v)
    [] r = "NoOldAccessKeys" -> NoOldAccessKeys(v)
    [] r = "NoPasswordWithoutMfa" -> NoPasswordWithoutMfa(v)
    [] r = "UnusedAccessManaged" -> UnusedAccessManaged(v)
    [] r = "AbacConfigured" -> AbacConfigured(v)
    [] r = "PasswordPolicyStrong" -> PasswordPolicyStrong(v)
    [] r = "AppPoolsRequireMfa" -> AppPoolsRequireMfa(v)
    [] r = "NoAdminWildcards" -> NoAdminWildcards(v)
    [] r = "RoleInventoryClean" -> RoleInventoryClean(v)
    [] r = "RolesHaveBoundary" -> RolesHaveBoundary(v)
    [] r = "CrossAccountExternalId" -> CrossAccountExternalId(v)
    [] r = "SessionsAtMost8h" -> SessionsAtMost8h(v)
    [] r = "SessionManagerUsed" -> SessionManagerUsed(v)
    [] r = "RootMfaEnabled" -> RootMfaEnabled(v)
    [] r = "ConsoleUsersHaveMfa" -> ConsoleUsersHaveMfa(v)
    [] r = "NoVirtualMfa" -> NoVirtualMfa(v)
    [] r = "ScpDeniesWithoutMfa" -> ScpDeniesWithoutMfa(v)
    [] r = "AccessKeysMinimal" -> AccessKeysMinimal(v)
    [] r = "OidcConfigured" -> OidcConfigured(v)
    [] r = "GuardDutyEnabled" -> GuardDutyEnabled(v)
    [] r = "GuardDutyHasResponse" -> GuardDutyHasResponse(v)
    [] r = "NoCriticalIamFindings" -> NoCriticalIamFindings(v)
    [] r = "DfpNoAdminWildcards" -> DfpNoAdminWildcards(v)
    [] r = "CustomerScpsPresent" -> CustomerScpsPresent(v)
    [] r = "NoExternalAccess" -> NoExternalAccess(v)
=============================================================================
