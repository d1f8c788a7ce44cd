--------------------------- MODULE GcpOperations ---------------------------
(* The collectors of cloud-evidence/providers/gcp/supplychain.ts,             *)
(* inventory.ts, ksi-hybrids.ts and vdr-scan.ts, and the audit of             *)
(* reference-arch.ts.                                                         *)
EXTENDS Findings

----------------------------- (* supplychain.ts *) -----------------------------
(* KSI-CMT-RMV. *)
CmtRmv ==
  [repos |-> Skim, runServices |-> Page, onLatest |-> Part("runServices"),
   attestation |-> Whole]

RegistryPresent(v) == Finding(Held(v, "repos"), TRUE)
RevisionsPinned(v) == Finding(None(v, "onLatest"), Held(v, "onLatest"))
AttestationRequired(v) == Finding(Held(v, "attestation"), TRUE)

(* KSI-CMT-VTD. *)
CmtVtd ==
  [triggers |-> Page, scanning |-> Part("triggers"), attestors |-> Page,
   vulnerabilities |-> Page]

BuildsScan(v) == Finding(None(v, "triggers") \/ Held(v, "scanning"), TRUE)
AttestorsPresent(v) == Finding(Held(v, "attestors"), TRUE)
ScanningSurfaced(v) == Finding(v.n.vulnerabilities >= 0, FALSE)

(* KSI-SCR-MON. *)
ScrMon == [vulnerabilities |-> Page]

ScanningActive(v) == Finding(v.n.vulnerabilities >= 0, FALSE)

------------------------------ (* inventory.ts *) ------------------------------
(* KSI-PIY-GIV. *)
PiyGiv == [assets |-> Page]

AssetApiReachable(v) == Finding(v.ok.assets, TRUE)

----------------------------- (* ksi-hybrids.ts *) -----------------------------
CmtRvp == [feeds |-> Whole]
ChangesMonitored(v) == Finding(Held(v, "feeds"), TRUE)

InrAar == [alertPolicies |-> Page, enabled |-> Part("alertPolicies")]
AlertingAutomated(v) == Finding(Held(v, "enabled"), TRUE)

InrRpi == [sinks |-> Page, durable |-> Part("sinks")]
HistoryDurable(v) == Finding(Held(v, "durable"), TRUE)

RplArp == [sql |-> Page, zonal |-> Part("sql")]
AlternateSite(v) == Finding(None(v, "zonal"), Held(v, "zonal"))

(* No database at all is a failure here. *)
RplRro == [sql |-> Page, noBackup |-> Part("sql")]
BackupsEnabled(v) == Finding(Held(v, "sql") /\ None(v, "noBackup"), TRUE)

ScrMit == [admission |-> Whole]
ImagesAdmitted(v) == Finding(Held(v, "admission"), TRUE)

SvcPrr ==
  [buckets |-> Page, notPrevented |-> Part("buckets"), sql |-> Page,
   publicSql |-> Part("sql")]
NoResidualExposure(v) ==
  LET exposed == Held(v, "notPrevented") \/ Held(v, "publicSql")
  IN  Finding(~exposed, exposed)

------------------------------ (* vdr-scan.ts *) ------------------------------
(* Detection is on once a page was answered, whatever happens to the others.  *)
(* overdue: as for AWS, with the KEV catalogue a read of its own.             *)
VdrScan == [occurrences |-> Skim, overdue |-> Each("occurrences")]

Answered(v) == v.ok.occurrences \/ Held(v, "occurrences")
DetectionEnabled(v) == Finding(Answered(v), TRUE)
NoSlaBreaches(v) == Finding(Answered(v) /\ None(v, "overdue"), TRUE)

---------------------------- (* reference-arch.ts *) ----------------------------
(* Every check has a try of its own: when its main call fails no finding is   *)
(* pushed.  Those of the organisation are made only when one is named.        *)
(* constraintsFrom3: the expected constraints beyond the second.              *)
RefArch ==
  [workloads |-> Peek, fedramp |-> Part("workloads"), constraints |-> Peek,
   constraintsFrom3 |-> Part("constraints"), policies |-> Peek,
   perimeters |-> Each("policies"), dataAccess |-> Bare, sources |-> Peek,
   primitiveAccounts |-> Bare, dns |-> Peek, logged |-> Part("dns"),
   sql |-> Peek, publicSql |-> Part("sql"), userAdmins |-> Bare,
   buckets |-> Peek, stateBuckets |-> Part("buckets"), good |-> Part("stateBuckets")]
RefCmek ==
  [disks |-> Peek, cmekDisks |-> Part("disks"), buckets |-> Page,
   cmekBuckets |-> Part("buckets")]
RefEgress ==
  [nats |-> Peek, instances |-> Peek, external |-> Part("instances")]
RefApis == [allowList |-> Given, apis |-> Peek, unexpected |-> Part("apis")]

AssuredWorkloads(v) == Finding(Held(v, "fedramp"), TRUE)
BaselinePolicies(v) == Finding(Held(v, "constraintsFrom3"), TRUE)
ServicePerimeters(v) == Finding(Held(v, "perimeters"), TRUE)
CustomerKeys(v) ==
  Finding(\/ None(v, "disks") /\ None(v, "buckets")
          \/ Held(v, "cmekDisks") \/ Held(v, "cmekBuckets"), TRUE)
DataAccessAudit(v) == Finding(Held(v, "dataAccess"), TRUE)
CommandCenterOn(v) == Finding(Held(v, "sources"), TRUE)
PrivateEgress(v) ==
  Finding(None(v, "instances") \/ (Held(v, "nats") /\ None(v, "external")), TRUE)
NoPrimitiveAccounts(v) ==
  Finding(None(v, "primitiveAccounts"), Held(v, "primitiveAccounts"))
DnsLogged(v) == Finding(None(v, "dns") \/ Held(v, "logged"), TRUE)
CuratedApis(v) ==
  LET beyond == Held(v, "allowList") /\ Held(v, "unexpected") IN Finding(~beyond, beyond)
SqlPrivateOnly(v) == Finding(None(v, "sql") \/ None(v, "publicSql"), TRUE)
GroupOrgAdmins(v) == Finding(None(v, "userAdmins"), TRUE)
StateIntegrity(v) ==
  Finding(None(v, "stateBuckets") \/ v.n.good = v.n.stateBuckets, Held(v, "stateBuckets"))

(* The findings of this file: what each of them reads, and its verdict.       *)
Reads ==
  [RegistryPresent |-> Of(CmtRmv, {"repos"}),
   RevisionsPinned |-> Of(CmtRmv, {"runServices", "onLatest"}),
   AttestationRequired |-> Of(CmtRmv, {"attestation"}),
   BuildsScan |-> Of(CmtVtd, {"triggers", "scanning"}),
   AttestorsPresent |-> Of(CmtVtd, {"attestors"}),
   ScanningSurfaced |-> Of(CmtVtd, {"vulnerabilities"}),
   ScanningActive |-> ScrMon,
   AssetApiReachable |-> PiyGiv,
   ChangesMonitored |-> CmtRvp,
   AlertingAutomated |-> InrAar,
   HistoryDurable |-> InrRpi,
   AlternateSite |-> RplArp,
   BackupsEnabled |-> RplRro,
   ImagesAdmitted |-> ScrMit,
   NoResidualExposure |-> SvcPrr,
   DetectionEnabled |-> Of(VdrScan, {"occurrences"}),
   NoSlaBreaches |-> VdrScan,
   AssuredWorkloads |-> Of(RefArch, {"workloads", "fedramp"}),
   BaselinePolicies |-> Of(RefArch, {"constraints", "constraintsFrom3"}),
   ServicePerimeters |-> Of(RefArch, {"policies", "perimeters"}),
   CustomerKeys |-> RefCmek,
   DataAccessAudit |-> Of(RefArch, {"dataAccess"}),
   CommandCenterOn |-> Of(RefArch, {"sources"}),
   PrivateEgress |-> RefEgress,
   NoPrimitiveAccounts |-> Of(RefArch, {"primitiveAccounts"}),
   DnsLogged |-> Of(RefArch, {"dns", "logged"}),
   CuratedApis |-> RefApis,
   SqlPrivateOnly |-> Of(RefArch, {"sql", "publicSql"}),
   GroupOrgAdmins |-> Of(RefArch, {"userAdmins"}),
   StateIntegrity |-> Of(RefArch, {"buckets", "stateBuckets", "good"})]

Verdict(r, v) ==
  CASE r = "RegistryPresent" -> RegistryPresent(v)
    [] r = "RevisionsPinned" -> RevisionsPinned(v)
    [] r = "AttestationRequired" -> AttestationRequired(v)
    [] r = "BuildsScan" -> BuildsScan(v)
    [] r = "AttestorsPresent" -> AttestorsPresent(v)
    [] r = "ScanningSurfaced" -> ScanningSurfaced(v)
    [] r = "ScanningActive" -> ScanningActive(v)
    [] r = "AssetApiReachable" -> AssetApiReachable(v)
    [] r = "ChangesMonitored" -> ChangesMonitored(v)
    [] r = "AlertingAutomated" -> AlertingAutomated(v)
    [] r = "HistoryDurable" -> HistoryDurable(v)
    [] r = "AlternateSite" -> AlternateSite(v)
    [] r = "BackupsEnabled" -> BackupsEnabled(v)
    [] r = "ImagesAdmitted" -> ImagesAdmitted(v)
    [] r = "NoResidualExposure" -> NoResidualExposure(v)
    [] r = "DetectionEnabled" -> DetectionEnabled(v)
    [] r = "NoSlaBreaches" -> NoSlaBreaches(v)
    [] r = "AssuredWorkloads" -> AssuredWorkloads(v)
    [] r = "BaselinePolicies" -> BaselinePolicies(v)
    [] r = "ServicePerimeters" -> ServicePerimeters(v)
    [] r = "CustomerKeys" -> CustomerKeys(v)
    [] r = "DataAccessAudit" -> DataAccessAudit(v)
    [] r = "CommandCenterOn" -> CommandCenterOn(v)
    [] r = "PrivateEgress" -> PrivateEgress(v)
    [] r = "NoPrimitiveAccounts" -> NoPrimitiveAccounts(v)
    [] r = "DnsLogged" -> DnsLogged(v)
    [] r = "CuratedApis" -> CuratedApis(v)
    [] r = "SqlPrivateOnly" -> SqlPrivateOnly(v)
    [] r = "GroupOrgAdmins" -> GroupOrgAdmins(v)
    [] r = "StateIntegrity" -> StateIntegrity(v)
=============================================================================
