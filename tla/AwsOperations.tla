--------------------------- MODULE AwsOperations ---------------------------
(* The collectors of providers/aws/secrets.ts, supplychain.ts, inventory.ts,  *)
(* ksi-hybrids.ts and vdr-scan.ts, and the audit of reference-arch.ts.        *)
EXTENDS Findings

------------------------------ (* secrets.ts *) ------------------------------
(* KSI-SVC-ASM.  A secret that cannot be described is not seen to rotate and  *)
(* not seen to be stale; a key is skipped when DescribeKey fails, and only a  *)
(* failure of GetKeyRotationStatus is counted.                                *)
SvcAsm ==
  [secrets |-> Scan, rotating |-> Each("secrets"), unrotated |-> Each("secrets"),
   stale |-> Each("secrets"), parameters |-> Scan, defaultKey |-> Part("parameters"),
   keys |-> Scan, customer |-> Each("keys"), rotationOff |-> Each("customer"),
   certs |-> Scan, expiring |-> Each("certs")]

SecretStoreUsed(v) == Finding(Held(v, "secrets") \/ Held(v, "parameters"), TRUE)
SecretsRotate(v) ==
  Finding(/\ v.ok.secrets
          /\ None(v, "secrets") \/ 10 * v.n.rotating >= 8 * v.n.secrets, TRUE)
RotationOnTime(v) == Finding(v.ok.secrets /\ None(v, "stale"), Held(v, "stale"))
KeysRotate(v) ==
  Finding(v.ok.keys /\ v.ok.rotationOff /\ None(v, "rotationOff"), Held(v, "rotationOff"))
CertsRenew(v) ==
  Finding(v.ok.certs /\ v.ok.expiring /\ None(v, "expiring"), Held(v, "expiring"))
ParametersUseOwnKey(v) ==
  Finding(/\ v.ok.parameters
          /\ None(v, "parameters") \/ 2 * v.n.defaultKey < v.n.parameters, TRUE)

---------------------------- (* supplychain.ts *) ----------------------------
(* KSI-CMT-RMV.  The gap of a finding is there only when its list has items.  *)
CmtRmv ==
  [repos |-> Scan, mutable |-> Part("repos"), groups |-> Page,
   onLatest |-> Part("groups"), functions |-> Scan, signed |-> Each("functions")]

TagsImmutable(v) == Finding(v.ok.repos /\ None(v, "mutable"), Held(v, "mutable"))
VersionsPinned(v) == Finding(v.ok.groups /\ None(v, "onLatest"), Held(v, "onLatest"))
LambdaSigned(v) ==
  LET signed == None(v, "functions") \/ Held(v, "signed")
  IN  Finding(v.ok.functions /\ signed, ~signed)

(* KSI-CMT-VTD.  A pipeline that cannot be read is passed over. *)
CmtVtd ==
  [pipelines |-> Page, noTest |-> Each("pipelines"), noScan |-> Each("pipelines"),
   inspector |-> Whole]

PipelinesTest(v) == Finding(v.ok.pipelines /\ None(v, "noTest"), Held(v, "noTest"))
PipelinesScan(v) == Finding(v.ok.pipelines /\ None(v, "noScan"), Held(v, "noScan"))
InspectorOnForChanges(v) == Finding(Held(v, "inspector"), TRUE)

(* KSI-SCR-MON. *)
ScrMon == [inspector |-> Whole, repos |-> Page, scanned |-> Part("repos")]

InspectorOn(v) == Finding(Held(v, "inspector"), TRUE)
ScanOnPush(v) ==
  LET all == v.n.scanned = v.n.repos IN Finding(v.ok.repos /\ all, ~all)

----------------------------- (* inventory.ts *) -----------------------------
(* KSI-PIY-GIV. *)
PiyGiv == [aggregators |-> Page, recorder |-> Whole]

InventoryAggregated(v) == Finding(Held(v, "aggregators") \/ Held(v, "recorder"), TRUE)

---------------------------- (* ksi-hybrids.ts *) ----------------------------
CmtRvp == [configRules |-> Page]
ChangesEnforced(v) == Finding(Held(v, "configRules"), TRUE)

InrAar ==
  [detectors |-> Page, enabled |-> Each("detectors"), rules |-> Skim,
   withTargets |-> Each("rules")]
AlertingAutomated(v) == Finding(Held(v, "enabled") /\ Held(v, "withTargets"), TRUE)

InrRpi == [trails |-> Whole, multiRegion |-> Part("trails")]
HistoryDurable(v) == Finding(Held(v, "multiRegion"), TRUE)

(* KSI-RPL-ARP and KSI-SVC-PRR pass when nothing was found, read or not. *)
RplArp == [rds |-> Skim, singleAz |-> Part("rds")]
AlternateSite(v) == Finding(None(v, "singleAz"), Held(v, "singleAz"))

RplRro == [plans |-> Skim, scheduled |-> Each("plans")]
BackupsScheduled(v) == Finding(Held(v, "scheduled"), TRUE)

ScrMit == [registry |-> Whole, repos |-> Page]
ImagesScanned(v) == Finding(Held(v, "registry") \/ Held(v, "repos"), TRUE)

SvcPrr ==
  [buckets |-> Whole, noBlock |-> Each("buckets"), rds |-> Page,
   publicDbs |-> Part("rds")]
NoResidualExposure(v) ==
  LET exposed == Held(v, "noBlock") \/ Held(v, "publicDbs")
  IN  Finding(~exposed, exposed)

------------------------------ (* vdr-scan.ts *) ------------------------------
(* An error while listing counts as detection being off.  overdue: those past *)
(* their due date, which for an exploited one comes from the KEV catalogue,   *)
(* a read of its own whose failure is only a warning.                         *)
VdrScan == [inspector |-> Whole, active |-> Page, overdue |-> Each("active")]

Detects(v) == Held(v, "inspector") /\ v.ok.active
DetectionEnabled(v) == Finding(Detects(v), TRUE)
NoSlaBreaches(v) == Finding(Detects(v) /\ None(v, "overdue"), TRUE)

--------------------------- (* reference-arch.ts *) ---------------------------
(* Every check has a try of its own: when its main call fails no finding is   *)
(* pushed.  allTrusted: the service that makes the five expected ones         *)
(* complete; until it is seen, those missing are named.                       *)
RefArch ==
  [keys |-> Peek, customerKeys |-> Each("keys"), standards |-> Peek,
   bothStandards |-> Part("standards"), firewalls |-> Peek, flowLogs |-> Peek,
   activeLogs |-> Part("flowLogs"), policies |-> Peek, scps |-> Part("policies"),
   services |-> Peek, allTrusted |-> Part("services"), trailsToLogs |-> Bare,
   plans |-> Peek, selections |-> Each("plans")]
RefArchState ==
  [stateBuckets |-> Bare, encrypted |-> Each("stateBuckets"), tables |-> Page,
   lockTables |-> Part("tables")]
RefArchImages == [pattern |-> Given, running |-> Peek, offPattern |-> Part("running")]

CustomerKeys(v) == Finding(Held(v, "customerKeys"), TRUE)
RefStandards(v) == Finding(Held(v, "bothStandards"), TRUE)
RefFirewall(v) == Finding(Held(v, "firewalls"), TRUE)
RefFlowLogs(v) == Finding(Held(v, "activeLogs"), TRUE)
RefScps(v) == Finding(Held(v, "scps"), TRUE)
ServicesTrusted(v) == Finding(Held(v, "allTrusted"), None(v, "allTrusted"))
TrailsToLogs(v) == Finding(Held(v, "trailsToLogs"), TRUE)
SelectionCoverage(v) == Finding(Held(v, "selections"), TRUE)
StateIntegrity(v) ==
  Finding(\/ None(v, "stateBuckets")
          \/ v.n.encrypted = v.n.stateBuckets /\ Held(v, "lockTables"),
          Held(v, "stateBuckets"))
ApprovedImages(v) ==
  LET off == Held(v, "pattern") /\ Held(v, "offPattern") IN Finding(~off, off)

(* The findings of this file: what each of them reads, and its verdict.       *)
Reads ==
  [SecretStoreUsed |-> Of(SvcAsm, {"secrets", "parameters"}),
   SecretsRotate |-> Of(SvcAsm, {"secrets", "rotating"}),
   RotationOnTime |-> Of(SvcAsm, {"secrets", "stale"}),
   KeysRotate |-> Of(SvcAsm, {"keys", "customer", "rotationOff"}),
   CertsRenew |-> Of(SvcAsm, {"certs", "expiring"}),
   ParametersUseOwnKey |-> Of(SvcAsm, {"parameters", "defaultKey"}),
   TagsImmutable |-> Of(CmtRmv, {"repos", "mutable"}),
   VersionsPinned |-> Of(CmtRmv, {"groups", "onLatest"}),
   LambdaSigned |-> Of(CmtRmv, {"functions", "signed"}),
   PipelinesTest |-> Of(CmtVtd, {"pipelines", "noTest"}),
   PipelinesScan |-> Of(CmtVtd, {"pipelines", "noScan"}),
   InspectorOnForChanges |-> Of(CmtVtd, {"inspector"}),
   InspectorOn |-> Of(ScrMon, {"inspector"}),
   ScanOnPush |-> Of(ScrMon, {"repos", "scanned"}),
   InventoryAggregated |-> PiyGiv,
   ChangesEnforced |-> CmtRvp,
   AlertingAutomated |-> InrAar,
   HistoryDurable |-> InrRpi,
   AlternateSite |-> RplArp,
   BackupsScheduled |-> RplRro,
   ImagesScanned |-> ScrMit,
   NoResidualExposure |-> SvcPrr,
   DetectionEnabled |-> Of(VdrScan, {"inspector", "active"}),
   NoSlaBreaches |-> VdrScan,
   CustomerKeys |-> Of(RefArch, {"keys", "customerKeys"}),
   RefStandards |-> Of(RefArch, {"standards", "bothStandards"}),
   RefFirewall |-> Of(RefArch, {"firewalls"}),
   RefFlowLogs |-> Of(RefArch, {"flowLogs", "activeLogs"}),
   RefScps |-> Of(RefArch, {"policies", "scps"}),
   ServicesTrusted |-> Of(RefArch, {"services", "allTrusted"}),
   TrailsToLogs |-> Of(RefArch, {"trailsToLogs"}),
   SelectionCoverage |-> Of(RefArch, {"plans", "selections"}),
   StateIntegrity |-> RefArchState,
   ApprovedImages |-> RefArchImages]

Verdict(r, v) ==
  CASE r = "SecretStoreUsed" -> SecretStoreUsed(v)
    [] r = "SecretsRotate" -> SecretsRotate(v)
    [] r = "RotationOnTime" -> RotationOnTime(v)
    [] r = "KeysRotate" -> KeysRotate(v)
    [] r = "CertsRenew" -> CertsRenew(v)
    [] r = "ParametersUseOwnKey" -> ParametersUseOwnKey(v)
    [] r = "TagsImmutable" -> TagsImmutable(v)
    [] r = "VersionsPinned" -> VersionsPinned(v)
    [] r = "LambdaSigned" -> LambdaSigned(v)
    [] r = "PipelinesTest" -> PipelinesTest(v)
    [] r = "PipelinesScan" -> PipelinesScan(v)
    [] r = "InspectorOnForChanges" -> InspectorOnForChanges(v)
    [] r = "InspectorOn" -> InspectorOn(v)
    [] r = "ScanOnPush" -> ScanOnPush(v)
    [] r = "InventoryAggregated" -> InventoryAggregated(v)
    [] r = "ChangesEnforced" -> ChangesEnforced(v)
    [] r = "AlertingAutomated" -> AlertingAutomated(v)
    [] r = "HistoryDurable" -> HistoryDurable(v)
    [] r = "AlternateSite" -> AlternateSite(v)
    [] r = "BackupsScheduled" -> BackupsScheduled(v)
    [] r = "ImagesScanned" -> ImagesScanned(v)
    [] r = "NoResidualExposure" -> NoResidualExposure(v)
    [] r = "DetectionEnabled" -> DetectionEnabled(v)
    [] r = "NoSlaBreaches" -> NoSlaBreaches(v)
    [] r = "CustomerKeys" -> CustomerKeys(v)
    [] r = "RefStandards" -> RefStandards(v)
    [] r = "RefFirewall" -> RefFirewall(v)
    [] r = "RefFlowLogs" -> RefFlowLogs(v)
    [] r = "RefScps" -> RefScps(v)
    [] r = "ServicesTrusted" -> ServicesTrusted(v)
    [] r = "TrailsToLogs" -> TrailsToLogs(v)
    [] r = "SelectionCoverage" -> SelectionCoverage(v)
    [] r = "StateIntegrity" -> StateIntegrity(v)
    [] r = "ApprovedImages" -> ApprovedImages(v)
=============================================================================
