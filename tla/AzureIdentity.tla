--------------------------- MODULE AzureIdentity ---------------------------
(* The collectors of cloud-evidence/providers/azure/iam.ts, logging.ts and    *)
(* network.ts.  A directory read is graphFetchAll (core/auth/azure-graph.ts), *)
(* a resource read runKql: both keep the pages read before an error and note  *)
(* the error as a warning, and no verdict looks at it.                        *)
EXTENDS Findings

--------------------------------- (* iam.ts *) ---------------------------------
(* KSI-IAM-MFA: security defaults are on, or an enabled policy asks for MFA.  *)
IamMfa ==
  [securityDefaults |-> Whole, policies |-> Scan, allUsersMfa |-> Part("policies"),
   adminMfa |-> Part("policies")]

MfaForAll(v) == Finding(Held(v, "securityDefaults") \/ Held(v, "allUsersMfa"), TRUE)
MfaForAdmins(v) == Finding(Held(v, "adminMfa"), TRUE)

(* KSI-IAM-ELP.  globalAdmins: its members over five; nobody when the role is *)
(* not in the list that was read.                                             *)
IamElp ==
  [roles |-> Scan, globalAdmins |-> Each("roles"), eligible |-> Scan,
   adminEligible |-> Part("eligible")]

FewGlobalAdmins(v) == Finding(None(v, "globalAdmins"), TRUE)
AdminsAreEligible(v) == Finding(Held(v, "adminEligible"), TRUE)

(* KSI-IAM-AAM.  When no member shows a sign-in the field itself is missing.  *)
IamAam ==
  [members |-> Scan, signedIn |-> Part("members"), dormant |-> Part("members"),
   severelyDormant |-> Part("members")]

SignInsMissing(v) == Held(v, "members") /\ None(v, "signedIn")
(* Without the fallback resource for a directory that shows no sign-ins. *)
OnlyMembersNamed(v) ==
  [passed |-> ~SignInsMissing(v) /\ None(v, "dormant"), named |-> Held(v, "dormant")]
NoDormantMembers(v) == Finding(~SignInsMissing(v) /\ None(v, "dormant"), TRUE)
NoSeverelyDormant(v) == Finding(~SignInsMissing(v) /\ None(v, "severelyDormant"), TRUE)

(* KSI-IAM-APM. *)
IamApm ==
  [policies |-> Scan, strength |-> Part("policies"), adminStrength |-> Part("policies")]

StrengthUsed(v) == Finding(Held(v, "strength"), TRUE)
StrengthForAdmins(v) == Finding(Held(v, "adminStrength"), TRUE)

(* KSI-IAM-SNU. *)
IamSnu ==
  [apps |-> Scan, expired |-> Part("apps"), stale |-> Part("apps")]

NoExpiredCredentials(v) == Finding(None(v, "expired"), Held(v, "expired"))
CredentialsRotated(v) == Finding(None(v, "stale"), Held(v, "stale"))

(* KSI-IAM-JIT and KSI-IAM-SUS. *)
IamJit == [requests |-> Scan, recentAdmin |-> Part("requests")]
AdminActivations(v) == Finding(Held(v, "recentAdmin"), TRUE)

IamSus == [policies |-> Scan, onRisk |-> Part("policies")]
RiskBasedAccess(v) == Finding(Held(v, "onRisk"), TRUE)

------------------------------- (* logging.ts *) -------------------------------
(* KSI-MLA-LET and KSI-MLA-OSM. *)
MlaLet == [diagnostics |-> Skim, workspaces |-> Skim]
DiagnosticsPresent(v) == Finding(Held(v, "diagnostics"), TRUE)
WorkspacePresent(v) == Finding(Held(v, "workspaces"), TRUE)

MlaOsm == [workspaces |-> Skim, solutions |-> Skim, onboarded |-> Skim]
SiemSubstrate(v) == Finding(Held(v, "workspaces"), TRUE)
SentinelDeployed(v) == Finding(Held(v, "solutions") \/ Held(v, "onboarded"), TRUE)

(* KSI-MLA-ALA. *)
MlaAla ==
  [assignments |-> Skim, readers |-> Part("assignments"), broad |-> Part("assignments")]

ReaderAssigned(v) == Finding(Held(v, "readers"), TRUE)
NoBroadAdmins(v) == Finding(None(v, "broad"), TRUE)

(* KSI-MLA-RVL. *)
MlaRvl ==
  [workspaces |-> Skim, atFloor |-> Part("workspaces"), queryRules |-> Skim,
   sentinelRules |-> Skim]

RetentionAtFloor(v) == Finding(Held(v, "atFloor"), TRUE)
AlertRulesPresent(v) == Finding(Held(v, "queryRules") \/ Held(v, "sentinelRules"), TRUE)

(* KSI-CMT-LMC.  subscriptions are those of the configuration; uncovered:     *)
(* those without a row of the one query that was read.                        *)
CmtLmc ==
  [subscriptions |-> Given, covered |-> Each("subscriptions"), tracking |-> Skim]

ActivityExported(v) ==
  Finding(Held(v, "subscriptions") /\ v.n.covered = v.n.subscriptions, TRUE)
ChangesTracked(v) == Finding(Held(v, "tracking"), TRUE)

(* KSI-MLA-EVC and KSI-INR-RIR. *)
MlaEvc == [assessments |-> Skim]
AssessmentsRunning(v) == Finding(Held(v, "assessments"), TRUE)

InrRir ==
  [actionGroups |-> Skim, populated |-> Part("actionGroups"), automation |-> Skim]
AlertsAreRouted(v) == Finding(Held(v, "populated") \/ Held(v, "automation"), TRUE)

------------------------------- (* network.ts *) -------------------------------
(* KSI-CNA-ULN and KSI-CNA-RVP. *)
CnaUln == [flowLogs |-> Skim, enabled |-> Part("flowLogs")]
FlowLogsEnabled(v) == Finding(Held(v, "enabled"), TRUE)

CnaRvp ==
  [gatewayWafs |-> Skim, gatewayOn |-> Part("gatewayWafs"), doorWafs |-> Skim,
   doorOn |-> Part("doorWafs")]
WafPresent(v) == Finding(Held(v, "gatewayOn") \/ Held(v, "doorOn"), TRUE)

(* KSI-SVC-SNT. *)
SvcSnt ==
  [listeners |-> Skim, plain |-> Part("listeners"), accounts |-> Skim,
   notHttps |-> Part("accounts")]
GatewayHttpsOnly(v) == Finding(None(v, "plain"), Held(v, "plain"))
AccountsHttpsOnly(v) ==
  Finding(None(v, "accounts") \/ None(v, "notHttps"), Held(v, "notHttps"))

(* KSI-CNA-MAT. *)
CnaMat == [subnets |-> Skim, noGroup |-> Part("subnets"), allowAll |-> Skim]
SubnetsHaveGroups(v) == Finding(None(v, "noGroup"), Held(v, "noGroup"))
NoAllowAllRules(v) == Finding(None(v, "allowAll"), Held(v, "allowAll"))

(* KSI-CNA-RNT. *)
CnaRnt == [rules |-> Skim, anyIn |-> Part("rules"), anyOut |-> Part("rules")]
NoOpenIngress(v) == Finding(None(v, "anyIn"), Held(v, "anyIn"))
NoOpenEgress(v) == Finding(None(v, "anyOut"), Held(v, "anyOut"))

(* The findings of this file: what each of them reads, and its verdict.       *)
Reads ==
  [MfaForAll |-> Of(IamMfa, {"securityDefaults", "policies", "allUsersMfa"}),
   MfaForAdmins |-> Of(IamMfa, {"policies", "adminMfa"}),
   FewGlobalAdmins |-> Of(IamElp, {"roles", "globalAdmins"}),
   AdminsAreEligible |-> Of(IamElp, {"eligible", "adminEligible"}),
   NoDormantMembers |-> Of(IamAam, {"members", "signedIn", "dormant"}),
   NoSeverelyDormant |-> Of(IamAam, {"members", "signedIn", "severelyDormant"}),
   StrengthUsed |-> Of(IamApm, {"policies", "strength"}),
   StrengthForAdmins |-> Of(IamApm, {"policies", "adminStrength"}),
   NoExpiredCredentials |-> Of(IamSnu, {"apps", "expired"}),
   CredentialsRotated |-> Of(IamSnu, {"apps", "stale"}),
   AdminActivations |-> IamJit,
   RiskBasedAccess |-> IamSus,
   DiagnosticsPresent |-> Of(MlaLet, {"diagnostics"}),
   WorkspacePresent |-> Of(MlaLet, {"workspaces"}),
   SiemSubstrate |-> Of(MlaOsm, {"workspaces"}),
   SentinelDeployed |-> Of(MlaOsm, {"solutions", "onboarded"}),
   ReaderAssigned |-> Of(MlaAla, {"assignments", "readers"}),
   NoBroadAdmins |-> Of(MlaAla, {"assignments", "broad"}),
   RetentionAtFloor |-> Of(MlaRvl, {"workspaces", "atFloor"}),
   AlertRulesPresent |-> Of(MlaRvl, {"queryRules", "sentinelRules"}),
   ActivityExported |-> Of(CmtLmc, {"subscriptions", "covered"}),
   ChangesTracked |-> Of(CmtLmc, {"tracking"}),
   AssessmentsRunning |-> MlaEvc,
   AlertsAreRouted |-> InrRir,
   FlowLogsEnabled |-> CnaUln,
   WafPresent |-> CnaRvp,
   GatewayHttpsOnly |-> Of(SvcSnt, {"listeners", "plain"}),
   AccountsHttpsOnly |-> Of(SvcSnt, {"accounts", "notHttps"}),
   SubnetsHaveGroups |-> Of(CnaMat, {"subnets", "noGroup"}),
   NoAllowAllRules |-> Of(CnaMat, {"allowAll"}),
   NoOpenIngress |-> Of(CnaRnt, {"rules", "anyIn"}),
   NoOpenEgress |-> Of(CnaRnt, {"rules", "anyOut"})]

Verdict(r, v) ==
  CASE r = "MfaForAll" -> MfaForAll(v)
    [] r = "MfaForAdmins" -> MfaForAdmins(v)
    [] r = "FewGlobalAdmins" -> FewGlobalAdmins(v)
    [] r = "AdminsAreEligible" -> AdminsAreEligible(v)
    [] r = "NoDormantMembers" -> NoDormantMembers(v)
    [] r = "NoSeverelyDormant" -> NoSeverelyDormant(v)
    [] r = "StrengthUsed" -> StrengthUsed(v)
    [] r = "StrengthForAdmins" -> StrengthForAdmins(v)
    [] r = "NoExpiredCredentials" -> NoExpiredCredentials(v)
    [] r = "CredentialsRotated" -> CredentialsRotated(v)
    [] r = "AdminActivations" -> AdminActivations(v)
    [] r = "RiskBasedAccess" -> RiskBasedAccess(v)
    [] r = "DiagnosticsPresent" -> DiagnosticsPresent(v)
    [] r = "WorkspacePresent" -> WorkspacePresent(v)
    [] r = "SiemSubstrate" -> SiemSubstrate(v)
    [] r = "SentinelDeployed" -> SentinelDeployed(v)
    [] r = "ReaderAssigned" -> ReaderAssigned(v)
    [] r = "NoBroadAdmins" -> NoBroadAdmins(v)
    [] r = "RetentionAtFloor" -> RetentionAtFloor(v)
    [] r = "AlertRulesPresent" -> AlertRulesPresent(v)
    [] r = "ActivityExported" -> ActivityExported(v)
    [] r = "ChangesTracked" -> ChangesTracked(v)
    [] r = "AssessmentsRunning" -> AssessmentsRunning(v)
    [] r = "AlertsAreRouted" -> AlertsAreRouted(v)
    [] r = "FlowLogsEnabled" -> FlowLogsEnabled(v)
    [] r = "WafPresent" -> WafPresent(v)
    [] r = "GatewayHttpsOnly" -> GatewayHttpsOnly(v)
    [] r = "AccountsHttpsOnly" -> AccountsHttpsOnly(v)
    [] r = "SubnetsHaveGroups" -> SubnetsHaveGroups(v)
    [] r = "NoAllowAllRules" -> NoAllowAllRules(v)
    [] r = "NoOpenIngress" -> NoOpenIngress(v)
    [] r = "NoOpenEgress" -> NoOpenEgress(v)
=============================================================================
