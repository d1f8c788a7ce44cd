----------------------------- MODULE GcpNetwork -----------------------------
(* The collectors of cloud-evidence/providers/gcp/logging.ts and network.ts.  *)
(* Neither notes which reads succeeded.  The client objects are taken to be   *)
(* made; what fails is a call.                                                *)
EXTENDS Findings

------------------------------ (* logging.ts *) ------------------------------
(* fetchLogInventory.  expected: the services that should log data access;    *)
(* logged: those of them that do.                                             *)
LogInventory ==
  [sinks |-> Page, adminSinks |-> Part("sinks"), bqSinks |-> Part("sinks"),
   pubsubSinks |-> Part("sinks"), logBuckets |-> Page,
   locked |-> Part("logBuckets"), cmek |-> Part("logBuckets"),
   expected |-> Given, logged |-> Whole]

(* KSI-CMT-LMC. *)
RequiredBucketLocked(v) == Finding(Held(v, "locked"), TRUE)
LogBucketsCmek(v) ==
  Finding(Held(v, "logBuckets") /\ v.n.cmek = v.n.logBuckets, TRUE)
AdminActivitySink(v) == Finding(Held(v, "adminSinks"), TRUE)

(* KSI-MLA-ALA. *)
MlaAla ==
  [logBuckets |-> LogInventory.logBuckets, openBuckets |-> Each("logBuckets"),
   sinks |-> LogInventory.sinks, bqSinks |-> LogInventory.bqSinks,
   openDatasets |-> Each("bqSinks")]

NoOpenLogBuckets(v) == Finding(None(v, "openBuckets"), Held(v, "openBuckets"))
NoOpenLogDatasets(v) == Finding(None(v, "openDatasets"), Held(v, "openDatasets"))

(* KSI-MLA-EVC: of the active findings, those muted; less than half may not be. *)
MlaEvc == [active |-> Page, muted |-> Each("active")]

FindingsTriaged(v) ==
  Finding(None(v, "active") \/ 2 * (v.n.active - v.n.muted) < v.n.active, TRUE)

(* KSI-MLA-LET. *)
DataAccessServices(v) ==
  LET missing == v.n.logged < v.n.expected IN Finding(~missing, missing)

(* KSI-MLA-OSM. *)
SiemExport(v) == Finding(Held(v, "pubsubSinks") \/ Held(v, "bqSinks"), TRUE)

(* KSI-MLA-RVL. *)
MlaRvl == [datasets |-> Page, dashboards |-> Page]

ReviewTooling(v) == Finding(Held(v, "datasets") \/ Held(v, "dashboards"), TRUE)

(* KSI-INR-RIR. *)
InrRir == [alertPolicies |-> Page, channels |-> Page]

AlertRouting(v) == Finding(Held(v, "alertPolicies") /\ Held(v, "channels"), TRUE)

------------------------------ (* network.ts *) ------------------------------
(* fetchInventory. *)
Inventory ==
  [firewalls |-> Page, adminOpen |-> Part("firewalls"),
   instances |-> Page, unshielded |-> Part("instances"), networks |-> Page,
   subnets |-> Page, unloggedSubnets |-> Part("subnets"),
   clusters |-> Whole, publicClusters |-> Part("clusters"),
   noNetworkPolicy |-> Part("clusters"), noWorkloadIdentity |-> Part("clusters"),
   buckets |-> Page, openBuckets |-> Part("buckets"),
   sql |-> Page, publicSql |-> Part("sql"),
   runServices |-> Page, publicRun |-> Part("runServices"),
   armor |-> Page, rateArmor |-> Part("armor")]

(* KSI-CNA-MAT. *)
NoOpenAdminFirewalls(v) == Finding(None(v, "adminOpen"), Held(v, "adminOpen"))
InstancesShielded(v) == Finding(None(v, "unshielded"), Held(v, "unshielded"))
BucketsPreventPublic(v) == Finding(None(v, "openBuckets"), Held(v, "openBuckets"))
SqlPrivate(v) == Finding(None(v, "publicSql"), Held(v, "publicSql"))
ClustersPrivate(v) == Finding(None(v, "publicClusters"), Held(v, "publicClusters"))
RunServicesPrivate(v) == Finding(None(v, "publicRun"), Held(v, "publicRun"))

(* KSI-CNA-RNT. *)
SubnetsLogged(v) == Finding(None(v, "unloggedSubnets"), Held(v, "unloggedSubnets"))
ClusterNetworkPolicy(v) ==
  Finding(None(v, "noNetworkPolicy"), Held(v, "noNetworkPolicy"))

(* KSI-CNA-ULN. *)
NetworkPresent(v) == Finding(Held(v, "networks"), TRUE)
WorkloadIdentity(v) ==
  Finding(None(v, "noWorkloadIdentity"), Held(v, "noWorkloadIdentity"))

(* KSI-CNA-RVP. *)
RateLimitedArmor(v) == Finding(Held(v, "rateArmor"), TRUE)

(* KSI-SVC-SNT.  A proxy's policy is looked up in a second list, read in the  *)
(* same try: a proxy whose policy is not found there is not weak.             *)
SvcSnt ==
  [proxies |-> Page, noPolicy |-> Part("proxies"), weakPolicy |-> Each("proxies"),
   sql |-> Page, noSsl |-> Part("sql")]

ProxiesHavePolicy(v) == Finding(None(v, "noPolicy"), Held(v, "noPolicy"))
NoWeakPolicy(v) == Finding(None(v, "weakPolicy"), Held(v, "weakPolicy"))
SqlRequiresSsl(v) == Finding(None(v, "noSsl"), Held(v, "noSsl"))

(* The findings of this file: what each of them reads, and its verdict.       *)
Reads ==
  [RequiredBucketLocked |-> Of(LogInventory, {"logBuckets", "locked"}),
   LogBucketsCmek |-> Of(LogInventory, {"logBuckets", "cmek"}),
   AdminActivitySink |-> Of(LogInventory, {"sinks", "adminSinks"}),
   NoOpenLogBuckets |-> Of(MlaAla, {"logBuckets", "openBuckets"}),
   NoOpenLogDatasets |-> Of(MlaAla, {"sinks", "bqSinks", "openDatasets"}),
   FindingsTriaged |-> MlaEvc,
   DataAccessServices |-> Of(LogInventory, {"expected", "logged"}),
   SiemExport |-> Of(LogInventory, {"sinks", "bqSinks", "pubsubSinks"}),
   ReviewTooling |-> MlaRvl,
   AlertRouting |-> InrRir,
   NoOpenAdminFirewalls |-> Of(Inventory, {"firewalls", "adminOpen"}),
   InstancesShielded |-> Of(Inventory, {"instances", "unshielded"}),
   BucketsPreventPublic |-> Of(Inventory, {"buckets", "openBuckets"}),
   SqlPrivate |-> Of(Inventory, {"sql", "publicSql"}),
   ClustersPrivate |-> Of(Inventory, {"clusters", "publicClusters"}),
   RunServicesPrivate |-> Of(Inventory, {"runServices", "publicRun"}),
   SubnetsLogged |-> Of(Inventory, {"subnets", "unloggedSubnets"}),
   ClusterNetworkPolicy |-> Of(Inventory, {"clusters", "noNetworkPolicy"}),
   NetworkPresent |-> Of(Inventory, {"networks"}),
   WorkloadIdentity |-> Of(Inventory, {"clusters", "noWorkloadIdentity"}),
   RateLimitedArmor |-> Of(Inventory, {"armor", "rateArmor"}),
   ProxiesHavePolicy |-> Of(SvcSnt, {"proxies", "noPolicy"}),
   NoWeakPolicy |-> Of(SvcSnt, {"proxies", "weakPolicy"}),
   SqlRequiresSsl |-> Of(SvcSnt, {"sql", "noSsl"})]

Verdict(r, v) ==
  CASE r = "RequiredBucketLocked" -> RequiredBucketLocked(v)
    [] r = "LogBucketsCmek" -> LogBucketsCmek(v)
    [] r = "AdminActivitySink" -> AdminActivitySink(v)
    [] r = "NoOpenLogBuckets" -> NoOpenLogBuckets(v)
    [] r = "NoOpenLogDatasets" -> NoOpenLogDatasets(v)
    [] r = "FindingsTriaged" -> FindingsTriaged(v)
    [] r = "DataAccessServices" -> DataAccessServices(v)
    [] r = "SiemExport" -> SiemExport(v)
    [] r = "ReviewTooling" -> ReviewTooling(v)
    [] r = "AlertRouting" -> AlertRouting(v)
    [] r = "NoOpenAdminFirewalls" -> NoOpenAdminFirewalls(v)
    [] r = "InstancesShielded" -> InstancesShielded(v)
    [] r = "BucketsPreventPublic" -> BucketsPreventPublic(v)
    [] r = "SqlPrivate" -> SqlPrivate(v)
    [] r = "ClustersPrivate" -> ClustersPrivate(v)
    [] r = "RunServicesPrivate" -> RunServicesPrivate(v)
    [] r = "SubnetsLogged" -> SubnetsLogged(v)
    [] r = "ClusterNetworkPolicy" -> ClusterNetworkPolicy(v)
    [] r = "NetworkPresent" -> NetworkPresent(v)
    [] r = "WorkloadIdentity" -> WorkloadIdentity(v)
    [] r = "RateLimitedArmor" -> RateLimitedArmor(v)
    [] r = "ProxiesHavePolicy" -> ProxiesHavePolicy(v)
    [] r = "NoWeakPolicy" -> NoWeakPolicy(v)
    [] r = "SqlRequiresSsl" -> SqlRequiresSsl(v)
=============================================================================
