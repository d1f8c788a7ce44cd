---------------------------- MODULE GcpPlatform ----------------------------
(* The collectors of cloud-evidence/providers/gcp/config.ts, crypto.ts,       *)
(* data.ts, backup.ts and secrets.ts; none notes which reads succeeded.       *)
EXTENDS Findings

------------------------------- (* config.ts *) -------------------------------
(* KSI-CNA-EIS. *)
CnaEis ==
  [feeds |-> Whole, features |-> Page, controller |-> Part("features"),
   uninstalled |-> Part("controller"), notifications |-> Page]

FeedsActive(v) == Finding(Held(v, "feeds"), TRUE)
ControllerInstalled(v) ==
  Finding(Held(v, "controller") /\ None(v, "uninstalled"), TRUE)
NotificationsConfigured(v) == Finding(Held(v, "notifications"), TRUE)

(* KSI-CNA-IBP. *)
CnaIbp ==
  [healthFindings |-> Page, critical |-> Part("healthFindings"),
   recommendations |-> Skim, recommendationsOver25 |-> Part("recommendations")]

NoCriticalFindings(v) == Finding(None(v, "critical"), TRUE)
RecommendationsManaged(v) == Finding(None(v, "recommendationsOver25"), TRUE)

(* KSI-SVC-ACM. *)
SvcAcm == [triggers |-> Page, features |-> Page, controller |-> Part("features")]

IacPipeline(v) == Finding(Held(v, "triggers") \/ Held(v, "controller"), TRUE)

(* KSI-SVC-EIS: three findings in ten inactive; the inactive are listed next. *)
SvcEis == [active |-> Page, inactive |-> Page]

FindingsImproving(v) ==
  LET total == v.n.active + v.n.inactive
  IN  Finding(total = 0 \/ 10 * v.n.inactive >= 3 * total, TRUE)

------------------------------- (* crypto.ts *) -------------------------------
(* KSI-AFR-UCM.  A location that cannot be listed is passed over.  No module  *)
(* of the table is inactive.  impact: 0 low, 1 moderate, 2 high.              *)
Ucm ==
  [impact |-> Given, keys |-> Skim, externalKeys |-> Part("keys"),
   policies |-> Page, weakPolicies |-> Part("policies")]

CryptoInventoryBuilt(v) == Finding(Held(v, "keys") \/ Held(v, "policies"), TRUE)
AgencyCryptoDefaults(v) ==
  LET offending == Held(v, "externalKeys") \/ Held(v, "weakPolicies")
  IN  Finding(~offending, offending)
ValidatedModules(v) ==
  LET offending == \/ v.n.impact >= 1 /\ Held(v, "externalKeys")
                   \/ v.n.impact = 2 /\ Held(v, "weakPolicies")
  IN  Finding(~offending, offending)

-------------------------------- (* data.ts *) --------------------------------
(* KSI-SVC-RUD.  Of the datasets only the first ten are looked at.  The       *)
(* finding on datasets has neither a gap nor a remediation.                   *)
SvcRud ==
  [buckets |-> Page, noLifecycle |-> Part("buckets"),
   datasets |-> Page, noExpiration |-> Each("datasets")]

BucketsExpire(v) == Finding(None(v, "noLifecycle"), Held(v, "noLifecycle"))
DatasetsExpire(v) == Finding(None(v, "noExpiration"), FALSE)
DeletionDemonstrated(v) == Finding(TRUE, FALSE)

(* KSI-SVC-VCM.  The gap of the second finding names nothing. *)
SvcVcm ==
  [features |-> Page, mesh |-> Part("features"), runServices |-> Page,
   internal |-> Part("runServices")]

MeshEnabled(v) == Finding(Held(v, "mesh"), TRUE)
RunIngressInternal(v) == Finding(v.n.internal = v.n.runServices, FALSE)

(* KSI-SVC-VRI. *)
SvcVri ==
  [attestation |-> Whole, attestors |-> Page,
   clusters |-> Whole, shielded |-> Part("clusters")]

AttestationEnforced(v) == Finding(Held(v, "attestors") /\ Held(v, "attestation"), TRUE)
NodesShielded(v) == Finding(v.n.shielded = v.n.clusters, TRUE)

------------------------------- (* backup.ts *) -------------------------------
(* KSI-CNA-OFA. *)
CnaOfa ==
  [groups |-> Page, zonalGroups |-> Part("groups"), sql |-> Page,
   zonalSql |-> Part("sql"), buckets |-> Page, oneRegion |-> Part("buckets")]

GroupsRegional(v) == Finding(None(v, "zonalGroups"), Held(v, "zonalGroups"))
SqlRegional(v) == Finding(None(v, "zonalSql"), Held(v, "zonalSql"))
BucketsMultiRegion(v) == Finding(None(v, "oneRegion"), Held(v, "oneRegion"))

(* KSI-RPL-ABO. *)
RplAbo ==
  [sql |-> Page, noPitr |-> Part("sql"), policies |-> Page,
   snapshotPolicies |-> Part("policies")]

SqlPitr(v) == Finding(None(v, "noPitr"), Held(v, "noPitr"))
SnapshotsScheduled(v) == Finding(Held(v, "snapshotPolicies"), TRUE)

(* KSI-RPL-TRC: the first five instances. *)
RplTrc == [sql |-> Page, backedUp |-> Each("sql")]

RecentBackups(v) == Finding(Held(v, "backedUp"), TRUE)

------------------------------- (* secrets.ts *) -------------------------------
(* KSI-SVC-ASM. *)
SvcAsm ==
  [secrets |-> Scan, rotating |-> Part("secrets"), overdue |-> Part("secrets"),
   keys |-> Skim, noRotation |-> Part("keys"), slowRotation |-> Part("keys"),
   certs |-> Skim, expiring |-> Part("certs")]

SecretsUsed(v) == Finding(Held(v, "secrets"), TRUE)
SecretsRotate(v) ==
  LET enough == 10 * v.n.rotating >= 8 * v.n.secrets IN Finding(enough, ~enough)
RotationOnTime(v) == Finding(None(v, "overdue"), Held(v, "overdue"))
KeysRotate(v) ==
  LET late == Held(v, "noRotation") \/ Held(v, "slowRotation") IN Finding(~late, late)
CertsRenew(v) == Finding(None(v, "expiring"), Held(v, "expiring"))

(* The findings of this file: what each of them reads, and its verdict.       *)
Reads ==
  [FeedsActive |-> Of(CnaEis, {"feeds"}),
   ControllerInstalled |-> Of(CnaEis, {"features", "controller",
      "uninstalled"}),
   NotificationsConfigured |-> Of(CnaEis, {"notifications"}),
   NoCriticalFindings |-> Of(CnaIbp, {"healthFindings", "critical"}),
   RecommendationsManaged |-> Of(CnaIbp, {"recommendations",
      "recommendationsOver25"}),
   IacPipeline |-> SvcAcm,
   FindingsImproving |-> SvcEis,
   CryptoInventoryBuilt |-> Of(Ucm, {"keys", "policies"}),
   AgencyCryptoDefaults |-> Of(Ucm, {"keys", "externalKeys", "policies",
      "weakPolicies"}),
   ValidatedModules |-> Ucm,
   BucketsExpire |-> Of(SvcRud, {"buckets", "noLifecycle"}),
   DatasetsExpire |-> Of(SvcRud, {"datasets", "noExpiration"}),
   DeletionDemonstrated |-> Of(SvcRud, {}),
   MeshEnabled |-> Of(SvcVcm, {"features", "mesh"}),
   RunIngressInternal |-> Of(SvcVcm, {"runServices", "internal"}),
   AttestationEnforced |-> Of(SvcVri, {"attestation", "attestors"}),
   NodesShielded |-> Of(SvcVri, {"clusters", "shielded"}),
   GroupsRegional |-> Of(CnaOfa, {"groups", "zonalGroups"}),
   SqlRegional |-> Of(CnaOfa, {"sql", "zonalSql"}),
   BucketsMultiRegion |-> Of(CnaOfa, {"buckets", "oneRegion"}),
   SqlPitr |-> Of(RplAbo, {"sql", "noPitr"}),
   SnapshotsScheduled |-> Of(RplAbo, {"policies", "snapshotPolicies"}),
   RecentBackups |-> RplTrc,
   SecretsUsed |-> Of(SvcAsm, {"secrets"}),
   SecretsRotate |-> Of(SvcAsm, {"secrets", "rotating"}),
   RotationOnTime |-> Of(SvcAsm, {"secrets", "overdue"}),
   KeysRotate |-> Of(SvcAsm, {"keys", "noRotation", "slowRotation"}),
   CertsRenew |-> Of(SvcAsm, {"certs", "expiring"})]

Verdict(r, v) ==
  CASE r = "FeedsActive" -> FeedsActive(v)
    [] r = "ControllerInstalled" -> ControllerInstalled(v)
    [] r = "NotificationsConfigured" -> NotificationsConfigured(v)
    [] r = "NoCriticalFindings" -> NoCriticalFindings(v)
    [] r = "RecommendationsManaged" -> RecommendationsManaged(v)
    [] r = "IacPipeline" -> IacPipeline(v)
    [] r = "FindingsImproving" -> FindingsImproving(v)
    [] r = "CryptoInventoryBuilt" -> CryptoInventoryBuilt(v)
    [] r = "AgencyCryptoDefaults" -> AgencyCryptoDefaults(v)
    [] r = "ValidatedModules" -> ValidatedModules(v)
    [] r = "BucketsExpire" -> BucketsExpire(v)
    [] r = "DatasetsExpire" -> DatasetsExpire(v)
    [] r = "DeletionDemonstrated" -> DeletionDemonstrated(v)
    [] r = "MeshEnabled" -> MeshEnabled(v)
    [] r = "RunIngressInternal" -> RunIngressInternal(v)
    [] r = "AttestationEnforced" -> AttestationEnforced(v)
    [] r = "NodesShielded" -> NodesShielded(v)
    [] r = "GroupsRegional" -> GroupsRegional(v)
    [] r = "SqlRegional" -> SqlRegional(v)
    [] r = "BucketsMultiRegion" -> BucketsMultiRegion(v)
    [] r = "SqlPitr" -> SqlPitr(v)
    [] r = "SnapshotsScheduled" -> SnapshotsScheduled(v)
    [] r = "RecentBackups" -> RecentBackups(v)
    [] r = "SecretsUsed" -> SecretsUsed(v)
    [] r = "SecretsRotate" -> SecretsRotate(v)
    [] r = "RotationOnTime" -> RotationOnTime(v)
    [] r = "KeysRotate" -> KeysRotate(v)
    [] r = "CertsRenew" -> CertsRenew(v)
=============================================================================
