----------------------------- MODULE AwsLogging -----------------------------
(* The logging and monitoring collectors of providers/aws/logging.ts.         *)
EXTENDS Findings

(* fetchTrails; of a trail whose selectors cannot be read none is held. *)
FetchTrails ==
  [trails |-> Whole, orgTrails |-> Each("trails"), validated |-> Part("trails"),
   insights |-> Each("trails"), management |-> Each("trails"),
   dataEvents |-> Each("trails")]

(* KSI-CMT-LMC.  protected: trails whose bucket is seen to have an object     *)
(* lock and a KMS key; what cannot be read counts as missing.                 *)
CmtLmc == [trails |-> FetchTrails.trails, protected |-> Each("trails")]

OrgTrailPresent(v) == Finding(Held(v, "orgTrails"), TRUE)
LogFileValidation(v) ==
  Finding(Held(v, "trails") /\ v.n.validated = v.n.trails, TRUE)
TrailBucketsProtected(v) ==
  LET exposed == v.n.trails > v.n.protected
  IN  Finding(GatePass(~exposed, v.ok.trails), exposed)
InsightsEnabled(v) == Finding(Held(v, "insights"), TRUE)

(* KSI-MLA-ALA. *)
MlaAla ==
  [trails |-> FetchTrails.trails, openBuckets |-> Each("trails"),
   logGroups |-> Scan, kmsGroups |-> Part("logGroups")]

NoOpenAuditBuckets(v) ==
  Finding(GatePass(None(v, "openBuckets"), v.ok.trails), Held(v, "openBuckets"))
LogGroupsEncrypted(v) ==
  Finding(Held(v, "logGroups") /\ v.n.kmsGroups = v.n.logGroups, TRUE)

(* KSI-MLA-EVC.  The gap is there only when too few are triaged. *)
MlaEvc == [active |-> Skim, notified |-> Part("active"), projects |-> Whole]

FindingsTriaged(v) ==
  LET triaged == None(v, "active") \/ Percent(v.n.notified, v.n.active) >= 50
  IN  Finding(v.ok.active /\ triaged, ~triaged)
BuildProjectsPresent(v) == Finding(Held(v, "projects"), TRUE)

(* KSI-MLA-LET. *)
MlaLet == Of(FetchTrails, {"trails", "management", "dataEvents"})

ManagementEventsLogged(v) ==
  Finding(GatePass(Held(v, "management"), v.ok.trails), None(v, "management"))
DataEventsLogged(v) == Finding(Held(v, "dataEvents"), TRUE)

(* KSI-MLA-OSM: a sink for the logs, a subscription filter or a data lake. *)
MlaOsm ==
  [streams |-> Skim, siemStreams |-> Part("streams"), logGroups |-> Page,
   filters |-> Each("logGroups"), dataLakes |-> Whole]

SiemExport(v) ==
  Finding(Held(v, "siemStreams") \/ Held(v, "filters") \/ Held(v, "dataLakes"), TRUE)

(* KSI-MLA-RVL. *)
MlaRvl == [workgroups |-> Page, savedQueries |-> Each("workgroups")]

ReviewQueriesSaved(v) ==
  Finding(Held(v, "workgroups") /\ Held(v, "savedQueries"), TRUE)

(* KSI-INR-RIR. *)
InrRir == [logGroups |-> Page, filters |-> Each("logGroups")]

AlertRouting(v) == Finding(Held(v, "filters"), TRUE)

(* The findings of this file: what each of them reads, and its verdict.       *)
Reads ==
  [OrgTrailPresent |-> Of(FetchTrails, {"trails", "orgTrails"}),
   LogFileValidation |-> Of(FetchTrails, {"trails", "validated"}),
   TrailBucketsProtected |-> CmtLmc,
   InsightsEnabled |-> Of(FetchTrails, {"trails", "insights"}),
   NoOpenAuditBuckets |-> Of(MlaAla, {"trails", "openBuckets"}),
   LogGroupsEncrypted |-> Of(MlaAla, {"logGroups", "kmsGroups"}),
   FindingsTriaged |-> Of(MlaEvc, {"active", "notified"}),
   BuildProjectsPresent |-> Of(MlaEvc, {"projects"}),
   ManagementEventsLogged |-> Of(FetchTrails, {"trails", "management"}),
   DataEventsLogged |-> Of(FetchTrails, {"trails", "dataEvents"}),
   SiemExport |-> MlaOsm,
   ReviewQueriesSaved |-> MlaRvl,
   AlertRouting |-> InrRir]

Verdict(r, v) ==
  CASE r = "OrgTrailPresent" -> OrgTrailPresent(v)
    [] r = "LogFileValidation" -> LogFileValidation(v)
    [] r = "TrailBucketsProtected" -> TrailBucketsProtected(v)
    [] r = "InsightsEnabled" -> InsightsEnabled(v)
    [] r = "NoOpenAuditBuckets" -> NoOpenAuditBuckets(v)
    [] r = "LogGroupsEncrypted" -> LogGroupsEncrypted(v)
    [] r = "FindingsTriaged" -> FindingsTriaged(v)
    [] r = "BuildProjectsPresent" -> BuildProjectsPresent(v)
    [] r = "ManagementEventsLogged" -> ManagementEventsLogged(v)
    [] r = "DataEventsLogged" -> DataEventsLogged(v)
    [] r = "SiemExport" -> SiemExport(v)
    [] r = "ReviewQueriesSaved" -> ReviewQueriesSaved(v)
    [] r = "AlertRouting" -> AlertRouting(v)
=============================================================================
